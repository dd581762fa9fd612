---------------------------- MODULE QueueWriter ----------------------------
(***************************************************************************)
(* pi/src/queue_writer.py with the producers that feed it and the start    *)
(* and stop sequence of main.py around it.  A row is an id; trips rows are *)
(* enqueued by TripManager._start_trip, all the others carry the trip_id   *)
(* of a trip that this process has started.  Time is abstract: the commit  *)
(* interval may elapse at any turn of the drain loop, and a producer that  *)
(* is asked to stop may outlive the 5 s that main waits for it.            *)
(***************************************************************************)
EXTENDS Naturals, Sequences, FiniteSets

CONSTANTS
    Trips,             \* ids of trips rows
    Readings,          \* ids of OBD and DTC rows
    NoTrip,            \* current_trip_id = None
    Parent,            \* trip_id of each reading
    QueueSize,         \* queue.Queue(maxsize=1000)
    COMMIT_BATCH_SIZE,
    MAX_CONSECUTIVE_FLUSH_FAILURES,
    MaxBoots           \* bound: process starts

ASSUME QueueAssumption ==
    /\ NoTrip \notin Trips
    /\ Trips \cap Readings = {}
    /\ Parent \in [Readings -> Trips]
    /\ QueueSize \in Nat \ {0}
    /\ COMMIT_BATCH_SIZE \in Nat \ {0}
    /\ MAX_CONSECUTIVE_FLUSH_FAILURES \in Nat \ {0}
    /\ MaxBoots \in Nat

Ids == Trips \cup Readings

VARIABLES
    main,      \* the process: "down", "up", "joining" (in QueueWriter.stop) or "closed"
    boots,     \* process starts so far
    cur,       \* current_trip_id
    begun,     \* trips started by this process
    queue,     \* _queue
    pending,   \* the list of _drain
    wpc,       \* where the writer thread stands: "top", "flush" (holding _db_lock), "get", "done"
    shouldStop,
    failures,  \* _consecutive_failures
    stored, closed, \* the committed rows, and the trips among them with end_time
    tx,        \* what an open transaction adds to them after a failed commit
    fresh,     \* history: ids not produced yet
    late,      \* history: rows of producers that outlived the stop
    lost,      \* history: rows reported lost, or lost with the process
    orphans,   \* history: rows refused for want of their trips row
    missed     \* history: trips whose end did not reach their row

threadVars  == <<cur, begun, queue, pending, wpc, shouldStop, failures>>
history     == <<fresh, late, lost, orphans, missed>>
vars        == <<main, boots, threadVars, stored, closed, tx, history>>

NoTx == [rows |-> {}, closed |-> {}]
Elems(s) == {s[i] : i \in DOMAIN s}
Volatile == Elems(queue) \cup Elems(pending) \cup tx.rows

\* What the connection sees: committed rows and its own open transaction.
View == stored \cup tx.rows

TypeOK ==
    /\ main \in {"down", "up", "joining", "closed"}
    /\ boots \in 0..MaxBoots
    /\ cur \in Trips \cup {NoTrip} /\ begun \in SUBSET Trips
    /\ queue \in Seq(Ids) /\ Len(queue) <= QueueSize
    /\ pending \in Seq(Ids) /\ Len(pending) <= COMMIT_BATCH_SIZE
    /\ wpc \in {"top", "flush", "get", "done"}
    /\ shouldStop \in BOOLEAN
    /\ failures \in 0..MAX_CONSECUTIVE_FLUSH_FAILURES
    /\ stored \in SUBSET Ids /\ closed \in SUBSET Trips
    /\ tx \in [rows : SUBSET Ids, closed : SUBSET Trips]
    /\ fresh \in SUBSET Ids /\ late \in SUBSET Ids /\ lost \in SUBSET Ids /\ orphans \in SUBSET Readings
    /\ missed \in SUBSET Trips

Init ==
    /\ main = "down" /\ boots = 0
    /\ cur = NoTrip /\ begun = {}
    /\ queue = <<>> /\ pending = <<>>
    /\ wpc = "done" /\ shouldStop = FALSE /\ failures = 0
    /\ stored = {} /\ closed = {} /\ tx = NoTx
    /\ fresh = Ids /\ late = {} /\ lost = {} /\ orphans = {}
    /\ missed = {}

-----------------------------------------------------------------------------
(* Producers: TripManager, the OBD callbacks and the DTC scans, on daemon  *)
(* threads.  main joins them for 5 s each; a scan or a restarted loop goes *)
(* on until the process exits, past QueueWriter.stop and conn.close().     *)

Producing == main # "down"

\* enqueue: put_nowait, or drop the row when the queue is full.
Enqueue(r) ==
    /\ fresh' = fresh \ {r}
    /\ late' = IF main = "up" THEN late ELSE late \cup {r}
    /\ \/ /\ Len(queue) < QueueSize
          /\ queue' = Append(queue, r)
          /\ UNCHANGED lost
       \/ /\ Len(queue) = QueueSize
          /\ lost' = lost \cup {r}
          /\ UNCHANGED queue

\* _start_trip: get_trip_number waits for _db_lock before the row is enqueued;
\* it swallows the error of a closed connection.
StartTrip(t) ==
    /\ Producing /\ cur = NoTrip
    /\ t \in fresh /\ wpc # "flush"
    /\ cur' = t /\ begun' = begun \cup {t}
    /\ Enqueue(t)
    /\ UNCHANGED <<main, boots, pending, wpc, shouldStop, failures,
                   stored, closed, tx, orphans, missed>>

\* A reading of the current trip, or a DTC row of a trip that may be over.
EnqueueRow(r) ==
    /\ Producing
    /\ r \in fresh /\ Parent[r] \in begun
    /\ Enqueue(r)
    /\ UNCHANGED <<main, boots, cur, begun, pending, wpc, shouldStop, failures,
                   stored, closed, tx, orphans, missed>>

\* A successful commit makes the open transaction and the new changes durable.
Commit(rows, ends) ==
    /\ stored' = View \cup rows
    /\ closed' = closed \cup tx.closed \cup ends
    /\ tx' = NoTx

\* A failed commit leaves the transaction open, or SQLite rolls it back.
CommitFails(rows, ends) ==
    /\ \/ tx' = [rows |-> tx.rows \cup rows, closed |-> tx.closed \cup ends]
       \/ tx' = NoTx
    /\ UNCHANGED <<stored, closed>>

\* _end_trip: update_trip_end through direct_execute, which swallows any
\* exception, that of a closed connection too, and does not look at the number
\* of rows it updated.
EndTrip ==
    /\ Producing /\ cur # NoTrip
    /\ wpc # "flush"
    /\ cur' = NoTrip
    /\ LET hit == {cur} \cap View IN
       \/ /\ main # "closed"
          /\ Commit({}, hit)
          /\ missed' = missed \cup ({cur} \ hit)
       \/ /\ main # "closed"
          /\ CommitFails({}, hit)
          /\ missed' = missed \cup {cur}
       \/ /\ UNCHANGED <<stored, closed, tx>>
          /\ missed' = missed \cup {cur}
    /\ UNCHANGED <<main, boots, begun, queue, pending, wpc, shouldStop, failures,
                   fresh, late, lost, orphans>>

-----------------------------------------------------------------------------
(* The writer thread.                                                      *)

\* Mutant: the loop ends as soon as the event is set.
StopAtOnce == main = "joining"

StopRequested == main = "joining" /\ queue = <<>>

\* Mutant: no commit interval, only full batches are written.
FlushFullOnly ==
    /\ main \in {"up", "joining"} /\ wpc = "top"
    /\ Len(pending) >= COMMIT_BATCH_SIZE
    /\ shouldStop' = StopRequested
    /\ wpc' = "flush"
    /\ UNCHANGED <<main, boots, cur, begun, queue, pending, failures,
                   stored, closed, tx, history>>

\* The loop top when the batch is full, the interval has elapsed or the writer
\* is stopping.
FlushDue ==
    /\ main \in {"up", "joining"} /\ wpc = "top"
    /\ pending # <<>>
    /\ shouldStop' = StopRequested
    /\ wpc' = "flush"
    /\ UNCHANGED <<main, boots, cur, begun, queue, pending, failures,
                   stored, closed, tx, history>>

\* Mutant: the loop goes on collecting when the batch is full.
NoFlushAnySize ==
    /\ main \in {"up", "joining"} /\ wpc = "top"
    /\ shouldStop' = StopRequested
    /\ wpc' = IF StopRequested /\ pending = <<>> THEN "done" ELSE "get"
    /\ UNCHANGED <<main, boots, cur, begun, queue, pending, failures,
                   stored, closed, tx, history>>

\* The loop top when there is nothing to flush yet.
NoFlush ==
    /\ main \in {"up", "joining"} /\ wpc = "top"
    /\ \/ pending = <<>>
       \/ Len(pending) < COMMIT_BATCH_SIZE /\ ~StopRequested
    /\ shouldStop' = StopRequested
    /\ wpc' = IF StopRequested THEN "done" ELSE "get"
    /\ UNCHANGED <<main, boots, cur, begun, queue, pending, failures,
                   stored, closed, tx, history>>

\* _queue.get(timeout=0.1).
Get ==
    /\ main \in {"up", "joining"} /\ wpc = "get"
    /\ wpc' = "top"
    /\ \/ /\ queue # <<>>
          /\ pending' = Append(pending, Head(queue))
          /\ queue' = Tail(queue)
       \/ /\ queue = <<>>
          /\ UNCHANGED <<queue, pending>>
    /\ UNCHANGED <<main, boots, cur, begun, shouldStop, failures,
                   stored, closed, tx, history>>

\* Mutant: the batch is grouped by table, children first.
HasParentBefore(i, bad) == pending[i] \in Trips \/ Parent[pending[i]] \in View

\* The i-th pending row finds its trip: committed, in the open transaction, or
\* inserted earlier in this batch.
HasParent(i, bad) ==
    \/ pending[i] \in Trips
    \/ Parent[pending[i]] \in View
    \/ \E j \in 1..i - 1 : pending[j] = Parent[pending[i]] /\ pending[j] \notin bad

\* The failure counter, cut off at the limit that write_failing compares it with.
OneMore(n) == IF n < MAX_CONSECUTIVE_FLUSH_FAILURES THEN n + 1 ELSE n

\* _flush.  The rows in bad raise on INSERT (locked, malformed, drive gone).
Flush ==
    /\ main \in {"up", "joining"} /\ wpc = "flush"
    /\ \E bad \in SUBSET Elems(pending) :
       LET orphan == {pending[i] : i \in {k \in DOMAIN pending : ~HasParent(k, bad)}}
           good == (Elems(pending) \ bad) \ orphan
       IN  /\ orphans' = orphans \cup orphan
           /\ \/ /\ Commit(good, {})
                 /\ lost' = lost \cup (Elems(pending) \ good)
                 /\ failures' = IF good = {} THEN OneMore(failures) ELSE 0
              \/ /\ good \cup tx.rows \cup tx.closed # {}
                 /\ CommitFails(good, {})
                 /\ lost' = lost \cup Elems(pending)
                 /\ failures' = OneMore(failures)
    /\ pending' = <<>>
    /\ wpc' = IF shouldStop THEN "done" ELSE "get"
    /\ UNCHANGED <<main, boots, cur, begun, queue, shouldStop, fresh, late, missed>>

-----------------------------------------------------------------------------
(* main.py.                                                                *)

\* Mutant: the boot skips repair_orphaned_trips.
BootWithoutRepair ==
    /\ main \in {"down", "closed"} /\ boots < MaxBoots
    /\ main' = "up" /\ boots' = boots + 1
    /\ cur' = NoTrip /\ begun' = {}
    /\ queue' = <<>> /\ pending' = <<>> /\ tx' = NoTx
    /\ wpc' = "top" /\ shouldStop' = FALSE /\ failures' = 0
    /\ lost' = lost \cup Elems(queue)
    /\ UNCHANGED <<stored, closed, fresh, late, orphans, missed>>

\* get_connection, repair_orphaned_trips, QueueWriter.start: one thread only.
\* What an earlier process had in its queue when it exited is gone with it.
Boot ==
    /\ main \in {"down", "closed"} /\ boots < MaxBoots
    /\ main' = "up" /\ boots' = boots + 1
    /\ closed' = closed \cup (stored \cap Trips)
    /\ cur' = NoTrip /\ begun' = {}
    /\ queue' = <<>> /\ pending' = <<>> /\ tx' = NoTx
    /\ wpc' = "top" /\ shouldStop' = FALSE /\ failures' = 0
    /\ lost' = lost \cup Elems(queue)
    /\ UNCHANGED <<stored, fresh, late, orphans, missed>>

\* SIGTERM or write_failing leads to the finally block: the producers are asked
\* to stop and waited for, then QueueWriter.stop sets the event.
Shutdown ==
    /\ main = "up"
    /\ main' = "joining"
    /\ UNCHANGED <<boots, threadVars, stored, closed, tx, history>>

\* The writer thread has ended; conn.close() rolls an open transaction back.
Join ==
    /\ main = "joining" /\ wpc = "done"
    /\ main' = "closed"
    /\ tx' = NoTx
    /\ UNCHANGED <<boots, threadVars, stored, closed, history>>

\* The process dies: killed by the watchdog, crashed, powered off, or it gave up
\* on a writer that hung in SQLite, or was kept busy, for more than 15 s.
Die ==
    /\ main \in {"up", "joining"}
    /\ main' = "down"
    /\ lost' = lost \cup Volatile
    /\ queue' = <<>> /\ pending' = <<>> /\ tx' = NoTx /\ wpc' = "done"
    /\ UNCHANGED <<boots, cur, begun, shouldStop, failures, stored, closed,
                   fresh, late, orphans, missed>>

-----------------------------------------------------------------------------
Producers ==
    \/ \E t \in Trips : StartTrip(t)
    \/ \E r \in Readings : EnqueueRow(r)
    \/ EndTrip

Writer == FlushDue \/ NoFlush \/ Get \/ Flush

Main == Boot \/ Shutdown \/ Join \/ Die

Next == Producers \/ Writer \/ Main

Spec == Init /\ [][Next]_vars

\* The writer thread is never starved, every SQLite call returns (10 s busy
\* timeout), and the commit interval elapses again and again.
Fairness ==
    /\ WF_vars(NoFlush) /\ WF_vars(Get) /\ WF_vars(Flush)
    /\ SF_vars(FlushDue)
    /\ WF_vars(Join)

FairSpec == Spec /\ Fairness

-----------------------------------------------------------------------------
\* main.py:22-24: the queue is drained before the connection is closed: every
\* row produced before the stop is stored, or its loss was reported.  "No
\* in-flight rows are lost" is not so: what a producer that outlived its join
\* enqueues after the writer's last look stays in the queue.
DrainedOnStop ==
    main = "closed" => Ids \ fresh \subseteq stored \cup lost \cup (late \cap Elems(queue))

\* Rows are written in the order they were queued, so a child is refused for
\* want of its trip only when the trips row itself was reported lost.
OrphansOnlyAfterLoss == \A r \in orphans : Parent[r] \in lost

\* A trip that is open in the database is the current one, or one whose end did
\* not reach its row; repair_orphaned_trips leaves no other behind.
OpenTripsKnown ==
    main \in {"up", "joining"} => (stored \cap Trips) \ closed \subseteq {cur} \cup missed

\* queue_writer.py: a row is never stuck: it is written or its loss reported,
\* whatever is enqueued after it; only a late row may be left in the queue.
Settles ==
    \A r \in Ids : r \in (Elems(queue) \cup Elems(pending)) \ late ~> r \in stored \cup lost
=============================================================================
