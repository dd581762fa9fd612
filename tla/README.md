# Project 300K: formal models

TLA+ models of Project 300K, a logger that lives in one car. A Raspberry Pi reads the car's
OBD-II bus over Bluetooth, stores rows in SQLite on a USB stick, and sends them to a Go API with
PostgreSQL when the car comes home. Power is cut without warning, Bluetooth drops in the middle
of a drive, the network is absent most of the time, and several threads and two processes share
one SQLite file. The models are about exactly these.

## 1. The system

### Parts and how they interact

```
 ECU --Bluetooth--> obd.Async polling thread --callbacks--> Collector --enqueue--+
                          |      |                                               v
                          |      +--on_rpm/on_voltage--> TripManager --enqueue-> Queue --> writer thread
                    monitor thread                          | ^ watchdog                      |
                    (reconnects)       DTC scan threads <---+ | thread                        v
                                          |                   +--direct_execute-----------> SQLite (WAL)
                                          +--query_sync--> obd.Async                          ^
                                                                                              | SELECT/UPDATE
 PostgreSQL <--INSERT .. ON CONFLICT-- Go API <--------POST (at least once)------------- sync.py
```

| Part | Source | State it keeps | Operations | What makes it hard |
|---|---|---|---|---|
| Sync client | `pi/src/sync.py` | position in the sync order, batch counter, `pass_ok`; in SQLite, `synced` | pass, SELECT/POST/UPDATE per batch, health snapshot, exit after a drain | rows change between SELECT and UPDATE; answers get lost; power cuts undo commits |
| API server | `backend/internal/api`, `internal/store`, `migrations/0001_init.sql` | PostgreSQL rows | multi-row INSERT, conflict clause, foreign keys | requests that arrive late, twice, or in an older version |
| Queue writer | `pi/src/queue_writer.py` | bounded queue, pending batch, `_consecutive_failures`, open transaction | enqueue, drain loop, flush, direct execute, stop | full queue, failing rows and commits, shutdown |
| Storage | `pi/src/storage.py` | the SQLite file | open, quarantine, trip end, repair of open trips at boot | WAL with `synchronous=NORMAL`; corrupted file |
| Trip manager | `pi/src/trip.py` | current trip, zero timer, last voltage, last activity | `on_rpm`, `on_voltage`, watchdog check, DTC scans | callbacks that freeze with the link, glitches |
| Collector connection | `pi/src/collector.py`, `pi/src/obd_connection.py` | `_async_conn`, `_stop_event`, `_dtc_lock`, port and polling loop | start, stop, `query_sync`, monitor, connect | four kinds of threads at one serial port, constructors that hang |
| Table buffers | `pi/src/collector.py` `_handle_response` | a dictionary and a flush time per table | merge a value, flush a window | buffers outlive trips |
| Main loop | `pi/src/main.py`, `pi/systemd/*` | health flags | boot order, watchdog exits, shutdown order | restarts by systemd |
| Health counters | `pi/src/health.py` | three small files | atomic replace, read by another process | stale values across boots |
| LED | `pi/src/led_status.py` | cached slow signals | evaluate, apply | cached and fresh signals mixed |
| Schema migration | `backend/internal/db/migrate.go` | `schema_migrations` | apply pending migrations | crash between two of them |
| Backup | `backend/scripts/backup.sh` | dumps, a fingerprint | dump if changed, prune | changes the fingerprint cannot see; two runs in one second; nothing is fsynced |
| Decoders, trip summary, web queries | `pi/src/obd_commands.py`, `0003_trip_distance.sql`, `queries.go` | none | pure functions and SQL | boundaries, gaps |
| Views, dashboards, configuration, logging, scripts | | none | | no state of their own |

### What makes each part correct

* **Sync and server**: a row counted as delivered is on the server; no row reaches the server
  before its trip; the end of a trip is never undone; a pass that says it is complete is; every
  stored row is delivered in the end; a recorded end is delivered too (it is not: section 5).
* **Queue writer**: a clean stop loses no row produced before it (rows of a producer that outlives it stay in the
  queue: section 5); a child is refused only if its trip was reported
  lost; no trip stays open unnoticed across a restart; nothing stays in the queue for good.
* **Trip manager**: no open trip survives the watchdog's bound; the timers measure this session
  only; no trip ends too early; every trip ends once the engine is off.
* **Collector connection**: the port never has two users; a connected object is polled and
  collection comes back after any drop (but for one failure: section 5); after `stop()` nothing polls (not so: section 5).
* **Main loop and storage**: rows only go to a database that passed the integrity check; the start limit is
  never used up; no process that cannot collect lives on; every fault of the drive or the file leads
  back to collecting (not every one does: section 5).
* **Table buffers**: a row holds values of its own connection and its own trip; two rows of a table are an
  interval apart, whatever happens in between.
* **Decoders**: every frame, a cut-off one too, gives a number the sensor has or no value.
* **Health counters**: another process never reads half a file; what was counted stays counted; overlapping
  instances of the collector do not spoil each other's files.
* **LED**: the LEDs show what is the case, the fast signals at once; a fault of one poll leaves no trace.
* **Schema migration**: the record of the versions is true and has no gap; a server that answers has the schema of
  its build; a server that died at any step comes up again.
* **Backup**: the rows of a run that ended well are in a dump that is kept (as long as none is lost: section 5); an update is in one after a bounded time.

`PROJECT.json` lists the hazards behind these, each at its line.

## 2. The modules

| Module | What it is |
|---|---|
| `Replica` | abstract specification: what the store-and-forward path promises |
| `Sync` | sync.py, the collector's writes as far as they touch the same rows, power, the API server |
| `SyncProps` | the properties of `Sync` and the refinement mapping to `Replica` |
| `MCSync` | a small instance of it for TLC |
| `Sync_proofs` | theorems about `Sync` |
| `QueueWriter`, `MCQueueWriter` | queue_writer.py with its producers and main.py around it |
| `QueueWriter_proofs` | theorems about it |
| `TripManager` | trip.py's state machine |
| `TableBuffers` | the rows of collector.py, composed with `TripManager` |
| `Decoders` | the decoders of obd_commands.py as operators |
| `MCTrip` | trips, rows and decoders together, for TLC |
| `Trip_proofs` | theorems about the three |
| `Collector`, `MCCollector` | the life cycle of the OBD connection |
| `Collector_proofs` | theorems about it |
| `Supervisor` | the life of the service: systemd, main.py's boot and loop, opening and quarantine of the database |
| `Supervisor_proofs` | theorems about it |
| `Health`, `Health_proofs` | the files of health.py: how they are written and read |
| `Led`, `MCLed`, `Led_proofs` | led_status.py |
| `Migrate` | the start of the API server and its migrations |
| `Backup` | backup.sh, as the loop and as a single run |
| `Backend`, `MCBackend` | the two on one database, and a small instance |
| `Backend_proofs` | theorems about both |

A definition whose comment begins with `Mutant:` is a deliberately wrong version of the
definition that follows it. It is used to show that a property notices the mistake, and never
occurs in a specification.

### Sync

A row is an id. Of its columns two matter: `synced`, and for a trip whether `end_time` is set. So
the car's database is three sets (`stored`, `closed`, `synced`), the server's two (`onServer`,
`srvClosed`). `SYNC_TABLE_ORDER` is a sequence of table names, with "trips" first as in the source;
the other tables are a constant.

* `StartPass` is the part of `run` and `_sync_pass` before the tables, including the row that
  `_write_health_snapshot` inserts (or fails to). `SelectBatch`, `HandleSync`, `MarkSynced` are the
  three steps of one batch; the collector, the power and the network may act between any two.
* `TableEnd` is the exit of `_sync_table`'s loop: a cap reached is not a success, the result is
  folded into `pass_ok`, and after the last table `PassEnd` decides between another attempt, the
  grace window and the final pass. The failing exits (`PostRefused`, `PostLost`, `MarkFails`,
  `SelectFails`, `OpenFails`) are actions of their own.
* `Abandon` leaves a request in the network after the client gave up on it; `HandleLate` is the
  server taking it later. `InsertRows` is all or nothing, with foreign keys and the `COALESCE` of
  `conflictClause`.
* `InsertTrip`, `InsertRow`, `EndTrip` are what the collector's process commits.
  `RepairOrphanedTrips` runs at each of its starts.
* `PowerOff` takes the database back to `disk`, its state at the last `WalSync`. That is what WAL
  with `synchronous=NORMAL` permits: recent commits may vanish, in order, as a whole. So a row may
  vanish from the car that the server has, and a `synced` flag may vanish after the POST.

`Replica` says the same in three actions: the car records, the server receives a batch, the car
learns of deliveries or forgets some. `acked` of `Replica` is `synced` of `Sync`, everything else
maps to the variable of the same name.

### QueueWriter

`queue` and `pending` are sequences of ids. `tx` is the open transaction after a commit that
failed, which the next successful commit makes durable. `_db_lock` is `wpc = "flush"`: the thread
holds it during `_flush` only, and the producers that need it wait. `direct_execute` holds it too,
but in one step. `Shutdown` is main's finally block up to `QueueWriter.stop`: the producers are asked to stop and
joined, for 5 s each, so they may go on (`Producing`) until the next process starts, past the end of the writer and
past `conn.close()`. What they still enqueue is `late`: the writer takes such a row when it comes before its last
look at the queue, and leaves it in the queue when it comes after; the next `Boot` counts it as lost with its process. `FlushDue` and `NoFlush` are the loop's top, where `should_stop` is computed before the flush: the order
matters for `DrainedOnStop`. `Flush` inserts row by row; any subset may raise, and a row whose trip is
missing always does. The commit interval may elapse at any turn. `Die` is every death of the process,
including `main`'s giving up on a hung writer. Rows that a process loses because it died are
counted as lost.

### TripManager

Every entry point holds `_lock`, so each is one action. A time stamp is kept as its age, ages grow
with `Tick` and saturate beyond every threshold. Voltage is kept as the side of the two thresholds
it is on; that of a running engine may be low, as with a failing alternator. `WatchdogCheck` runs when `TRIP_WATCHDOG_POLL_S` has passed, and `Tick` may not pass that
moment: the thread's wait is not overslept. With `Drops`, callbacks may stop for any time; with
`Glitches`, a poll of a running engine may be late or read zero or null.

### TableBuffers

One table stands for all, since tables share neither buffer nor timer. A value in `buffer` is known by where it
comes from: the trip and connection of now ("own"), an earlier trip, an earlier connection. The data callbacks run
on the polling thread like those of `TripManager`, so `hand` (the callback in progress) keeps `Callback` and
`Connect` out; the watchdog has a thread of its own and may end the trip between `ReadTripId` and the rest of
`_handle_response`. That rest is `Flush`, `OpenWindow` (the first window of a connection has no row) or
`Accumulate`. `row` is what the last step enqueued. `Connect` adds to `LinkUp` the reset of `_connect_and_watch`;
`AtTripEnd` adds to every step that may end a trip that the buffer is *not* cleared.

### Decoders

A frame is a sequence of bytes. `Mode22` is what `_mode22` makes of a PID, with the length check and the check of
the positive answer; `Formula` is the formula of each PID, scaled to the integer before the division; `Mode06` is
the misfire counter. Numbers of two bytes are written byte by byte (29287 is `Word(114, 103)`), since the prover cannot
read large numerals. The choice of the commands to watch and the units are data and left out.

### Collector

A connection object is an id, used again when nothing holds it any more. `cs` is the state of its port as
`is_connected` tells it, `loop` the set of objects with a running polling thread: the two differ, and most of
what can go wrong here lies in the difference. `connect_with_timeout` is `Construct` (a thread with
the constructor), `Constructed` (the thread's end), and the caller's `Returned` or `Raised`; a
constructor the caller gave up on moves to `hung` and is closed when it comes back.
`Collector.stop` is cut into its reads and writes of `_async_conn` (`StopCheck`, `StopUse`,
`StopClear`), since it takes no lock. The monitor is cut where it waits. A watch or an `Async.start` that
raises has a different end in each of three places: `Collector.start` (`StartRegistered`) and `query_sync`
(`Restart`) drop the connection, the monitor (`MonitorRegistered`) only logs it and keeps a connected object without a
loop. `unstarted` remembers that object; while it is current and connected, the collector is `Silent`. `query_sync` is `ScanQuery`
followed by `ScanAnswered` or `ScanRaised`. python-obd itself is external: `Async.start` starts a
thread if the object is connected, `Async.stop` ends it, and a dropped link makes every connected
object unconnected, for good.

### Supervisor

`unit`, `starts` and `window` are what systemd knows: the state of the unit and the rate limit of its starts.
`pc` is where `main` is. The two run apart: a start may be timed out, killed or cut at any step of
the boot. `db` is the file obd.db, with the two kinds of damage that `get_connection` tells apart, if not on
purpose: what the integrity check reports, and what makes SQLite raise. `wal` says that sidecars of a
corrupt database lie beside it. `OpenSound`, `OpenCorrupt` and `OpenRaises` are the outcomes of
`get_connection`; `_quarantine_corrupt_db` is cut between its renames, each of which is
skipped when its file is not there. `Tick` passes one unit of time and may not pass a deadline: the
mount wait, `RestartSec`, `TimeoutStartSec`. An exception at any place, and a kill by
the watchdog, is `Die`.

### Health

Each file has a `visible` content and a `stable` one, which is what a power cut leaves; `dirty` are the files whose
bytes were not fsynced when they were renamed. `_atomic_write` is `OpenTemp`, `WriteTemp`, `FsyncTemp`, `Replace`,
`FsyncDir`, with `WriteFails` for an `OSError` and its clean-up, and `Die` and `PowerCut` anywhere. `Start` is main
with the result of `check_rtc`, `ReadCount` the first half of `increment_restart_count`, `Reconnect` what
`OBDConnection` reports. Two processes may be alive at a time, since nothing but systemd prevents it.

### Led

`world` is what is the case and may change between any two reads of a poll. `StartPoll`, `ReadTrip`, `ReadRest` are
the reads of `read_signals` in their order, `Apply` the two LEDs of `LedDriver.apply`. `slow` is `SlowSignals`, used
until `slowAge` is `SLOW_POLLS`. Exceptions are `ReadTripFails` (any of the SELECTs, which the code turns into "False"),
`ReadRaises` (any other, which ends the poll) and `ApplyRaises` (an LED fails, before or after it changed).

### Migrate, Backup, Backend

`Migrate` follows main.go and the runner statement by statement; `applied` are the versions whose relations exist,
`recorded` is `schema_migrations`. A server that dies in `COMMIT` leaves an `orphan` transaction which PostgreSQL may
still commit while the next server starts. `Deploy` puts another build, newer or older, in its place.

`Backup` has the loop of the container and the single run of `make backup-now`, which share the directory and the
fingerprint without a lock. The steps of `dump()` are `Fingerprint`, `Skip` or `TakeSnapshot`, `FinishDump`, `Record`,
`Promote`, `Prune`, each with its failure; the difference between the two processes at a failure is `set -e`, which `dump || log`
suspends in the loop. The dumps in `daily` are what can be restored from each file. A file is named after a second, so
a run that begins while the other's `.partial` is "new" may take the same one ("joint"): either pg_dump may spoil what
the other writes (`Written`), and the first mv or rm takes the file away from the other ("gone"). Nothing is fsynced:
`cached` counts the dumps that are not on the disk yet, which `HostDies` may undo or leave without their data, while a
death of the container (`Die`) leaves the page cache alone. Times are counted in ticks, and a pg_dump of more than one tick is late (`disturbed`).
`Backend` puts both on one database: rows change while the server serves, and without the first migration there is no
fingerprint.

## 3. The runs

| Run | Instance | Checks | States |
|---|---|---|---|
| `sync_power` | 1 trip, 1 reading, 1 health row, batch 2, cap 3, 1 late request, 2 power cuts, failing SQLite calls | `NoLoss`, `ClosesAreMonotone`, `ClosesLostOnlyByMark`, `ReplicaSpec` (refinement) | 1 934 000, 150 s |
| `sync_order` | 2 trips, 1 reading, batch 1, cap 3, 1 late request, fairness | `ParentsFirst`, `CompletePass`, `Delivered` | 123 000, 55 s |
| `sync_lost_close` | 1 trip, batch 1 | `ClosesReachServer` is violated | |
| `queue` | 2 trips with a reading each, queue 2, batch 2, failure limit 2, 2 boots, producers that go on after the stop, fairness | `TypeOK`, `DrainedOnStop`, `OrphansOnlyAfterLoss`, `OpenTripsKnown`, `Settles` | 470 000, 57 s |
| `trip` | limits 1 < 2 < 4 with a watchdog poll of 2, a table of 2 columns with interval 2, drops and glitches, fairness | `TablesTypeOK`, `BoundedIdle`, `TimersHonest`, `DecodersSound`, `NoEarlyEnd`, `TripsEnd`, `RowsOwn`, `RowsApart` | 936 000, 120 s |
| `collector` | 3 objects, 2 scans, 2 drops, 1 hanging constructor, fairness | `TypeOK`, `NoByteRace`, `PollsWhenConnected`, `PollingResumes` | 774 000, 64 s |
| `collector_stop` | the same | `StoppedQuiet` is violated | |
| `supervisor` | the times of the source in units of 15 s, 2 power cuts, fairness | `TypeOK`, `NeverGivesUp`, `SoundWhenUsed`, `ZombieExits`, `BackToWork` | 28 000, 30 s |
| `supervisor_crash_loop` | the same | `NoCrashLoop` is violated | |
| `health` | 2 processes, counts up to 2, 1 `OSError` | `NeverTorn`, `WritersIndependent`, `CountKept`, `Reported` | 159 000, 6 s |
| `led` | 6 worlds, slow signals every 2 polls, 2 errors, fairness | `ShowsTheWorld`, `FastSignalsFresh`, `Settles` | 802 000, 60 s |
| `backend` | 2 versions, 1 death, 2 deployments; 1 row, 1 edit, 2 ticks a day, 2 daily dumps kept, forced after 1 day, 1 single run, 1 fault, fairness | `RecordMatches`, `RowsSaved`, `EditsSaved`, `ComesUp` | 1 520 000, 122 s |

The type invariant of a module is a property of its own or, where the table does not name it, the first conjunct of
another: `TablesTypeOK` holds that of `TripManager`, `CountKept`, `ShowsTheWorld`, `RecordMatches` and `RowsSaved`
those of `Health`, `Led`, `Migrate` and `Backup`. All of them are also proved (section 4), and `Sync`'s is only proved.

What the passing runs show:

* `sync_power`: whatever the network, the power and SQLite do, what the car counts as delivered is
  on the server (`NoLoss`), no late or repeated request reopens a trip (`ClosesAreMonotone`), and
  the only way to lose the end of a trip is the one that `sync_lost_close` shows
  (`ClosesLostOnlyByMark`). All of it implements `Replica`.
* `sync_order`: the trips-first order puts
  every old parent on the server before its children are sent (`ParentsFirst`), a pass that reports
  success was one (`CompletePass`), and the retry loop delivers every row it finds (`Delivered`).
* `queue`: `DrainedOnStop` is what is true of the promise of main.py:22-24: when the connection is closed, every row
  is stored, was reported lost, or is a late one that is still in the queue. `Settles` says the same of every moment:
  only a late row may stay in the queue for good. A child is refused only after its trip was reported lost
  (`OrphansOnlyAfterLoss`), late rows included. `OpenTripsKnown` says
  that the direct path of a trip's end, which may overtake its queued row, leaves trips
  open only in the known way, and the boot repair closes those.
* `trip`: the watchdog, the two end conditions and the session state keep their promises for every
  interleaving of callbacks, drops and clock. Rows hold values of their own connection (`RowsOwn`); only the first row
  of a table in a trip may hold what an earlier trip left in the buffer. An interval lies between two rows
  (`RowsApart`), across reconnects and ends of trips too. `DecodersSound` evaluates the decoders on all 65 536 words and on
  frames of every length up to 8; the theorems are about every frame.
* `collector`: `_dtc_lock` and the join of the old loop keep the port with one user (`NoByteRace`);
  the forced reconnect of `query_sync` is what makes `PollsWhenConnected` true of a scan (without it, which is
  the mutant, a connected object sits there unpolled); reconnecting never ends (`PollingResumes`). The monitor's own
  reconnect lacks that care (section 5), so both except the object it could not start (`Silent`), and say that
  nothing else leaves a connected object unpolled, or ends collection while the link is up.
* `supervisor`: five starts in a row need 75 s with `RestartSec=15`, so the limit of five starts in 60 s
  is never used up (`NeverGivesUp`), which is what main.py wants of a slow drive. It also means that the
  crash-loop guard of obd-collector.service:12-14 cannot act. The quarantine is sound when it is interrupted
  between its renames (`SoundWhenUsed`): sidecars left behind spoil the fresh file once, and are moved away with it
  (`BackToWork`).
* `health`: a rename after an fsync, on the same directory, is what makes `NeverTorn` true, and the pid in the name of
  the temp file `WritersIndependent`. The fsync of the directory is what `CountKept` and `Reported` need after a power
  cut. Both hold for one instance at a time without I/O errors; two instances may lose an increment to each other, and
  nothing in the code claims otherwise.
* `led`: after as many polls as the slow signals take, in a world that stands still, the LEDs show it
  (`ShowsTheWorld`); after one whole poll only the two slow signals may be old (`FastSignalsFresh`).
* `backend`: the version is recorded in the transaction that applies it, so neither a death nor a `COMMIT` that outlives
  its client separates the two (`RecordMatches`), and no server dies at the same migration for ever (`ComesUp`).
  The fingerprint is taken *before* the dump, so that a row inserted in between makes the next run dump again
  (`RowsSaved`). The promise is void once a dump that counts was lost: its mv failed, two runs of one second wrote it, or
  the host went down before it was on the disk (`spoiled`); one fault that loses no dump leaves it in force. The
  fingerprint does not see an UPDATE: the close of a trip waits for the forced dump, `FORCE_AFTER_DAYS + 1` nights
  at most while the nightly runs take place (`EditsSaved`).

### Bounds, and why they are enough

* *Sync.* Two trips are needed for a trip that starts in the middle of a pass; one child table and
  the health table cover parents, children and parentless rows; two rows in a table with batch 1
  exercise the loop and a cap of 3 is reached by retries of a growing table. The second
  cut falls on a database that has already been rolled back once. One late request is enough for every
  overtaking of two versions of a row. `WalSync` is enabled only while a cut may still come, since
  `disk` matters only then.
* *QueueWriter.* Four rows through a queue of two fill it, and a third row is dropped; a batch of
  two mixes trips and readings. Two boots give one repair of a database left open.
* *TripManager, TableBuffers.* Only the order of the four durations matters to the guards, and the instance keeps
  the order of 5 < 30 < 300, though not the proportions, with a poll shorter than the
  timeout. Two columns give a window with a missing value, and an interval of 2 a window of more than one callback per column.
  The theorems hold for every choice of them.
* *Collector.* At most three objects are ever held: the current one or a new attempt, and one
  hanging constructor, and the one that replaces it. Two scans are one at the end of a trip and one at the start of the
  next. The second drop hits the reconnect of the first.
* *Supervisor.* 15, 60, 120 and 300 s become 1, 4, 8 and 20 units, which keeps the
  source's proportions, and the burst is the source's 5. The second cut is the one that falls on a quarantine the
  first has caused.
* *Health.* Two processes overlap; three would not use the pid in the temp name differently, and the two theorems hold
  for any number. Counts up to 2 tell "at least one" from "none" and from "one too many".
* *Led.* 15 polls become 2: one that reads the slow signals and one that does not. The worlds reach every colour of
  both LEDs, most of them for more than one reason. Two errors are a fault on top of what another left.
* *Backend.* Two versions have a first and a next migration; a death, a deployment and an `orphan` meet at either. The
  second deployment may go back to the first build, on a database that is ahead of it. One row
  and one edit suffice to be absent from a dump; `KEEP_DAILY = 2` prunes as soon as three dumps exist. The
  server's faults and those of the backups are not combined in the run (`OneSideFails` of `MCBackend`; the theorems are
  about `Backend`, which combines them): they meet in the database only through rows, which
  the server's faults merely delay.

### Fairness, and why the code justifies it

* *Sync*: the loop of `run` takes its next step (it sleeps for a fixed time); a POST ends by answer or
  timeout; a network and a lock that come back again and again let a request and its UPDATE through (strong
  fairness of `HandleSync` and `MarkSynced`). Nothing is assumed of the power or the collector.
  `Delivered` excuses a drive that ends.
* *QueueWriter*: the writer thread runs, SQLite calls return (10 s busy timeout), and the interval
  elapses again and again (strong fairness of `FlushDue`: the interval may be found not yet
  elapsed, but not forever).
* *TripManager*: the clock and the watchdog thread run. No fairness for callbacks: `TripsEnd`
  holds for a link that never returns.
* *Collector*: the threads run, a query returns (python-obd times out), and constructors tried again
  and again while the link is up succeed at some time. No constructor that hangs is assumed to
  return.
* *Supervisor*: the clock runs, systemd acts when a time is up, the loop of main looks at its threads
  (every 30 s). A drive that is mounted again and again lets each step of the boot succeed at some time (strong
  fairness), in particular the integrity check is not too slow on every boot, and a fresh
  file is not spoilt every time. Nothing is assumed of the mount itself.
* *TableBuffers*: a callback that has begun ends, and the clock and the watchdog run as before.
* *Led*: the loop of `run` goes on after any exception, which it catches, and systemd starts the process again.
* *Backend*: compose restarts the server (`restart: unless-stopped`), a started server goes through its statements, and
  PostgreSQL settles the transaction of a client that is gone. Nothing is assumed of the backups: their
  properties are about a run that ended well, and about nights that took place.
* *Health*: none; its properties are about safety.

## 4. The theorems

TLAPS proves, for every value of the constants within the named assumptions:

* `Sync_proofs`, from `SyncAssumption` (table names are strings, "trips" occurs once, parents are
  trips): `SyncTypeCorrect`, `SyncNoLoss`, `SyncServerConsistent`, `SyncClosesAreMonotone`,
  `SyncClosesLostOnlyByMark`, `SyncRefinesReplica`, and, provided that no SELECT fails for a table
  that exists (`"select" \notin Faults`; section 5 says what happens otherwise), `SyncCompletePass`
  and `SyncParentsFirst`.
* `QueueWriter_proofs`, from `QueueAssumption` (readings belong to trips, the sizes and the failure limit are
  positive): `QueueInvariant`, `QueueTypeCorrect`, `QueueDrainedOnStop`, `QueueOrphansOnlyAfterLoss`,
  `QueueOpenTripsKnown`.
* `Trip_proofs`, from `DurationAssumption` (an order of the durations) and `IntervalAssumption` (the interval is a
  positive number): of the trips `TripTypeCorrect`, `TripBoundedIdle`, `TripTimersHonest`, `TripNoEarlyEnd`; of the
  tables `TablesImplementTrips`, `TablesTypeCorrect`, `TablesBoundedIdle`, `TablesRowsOwn`, `TablesRowsApart`; of the
  decoders `Mode22Decodes`, `TripDecodersSound`.
* `Collector_proofs`, from `CollectorAssumption` (the names of objects, scans and the monitor differ):
  `CollectorInvariant`, `CollectorTypeCorrect`, `CollectorNoByteRace`, `CollectorPollsWhenConnected`.
* `Supervisor_proofs`, from `SupervisorAssumption` (the times are numbers, and the interval is shorter than
  `StartLimitBurst * RestartSec`): `SupervisorTypeCorrect`, `SupervisorSoundWhenUsed`, `SupervisorNeverGivesUp`.
* `Health_proofs`, from `HealthAssumption` (the bounds are numbers): `HealthNeverTorn`, `HealthWritersIndependent`,
  `CounterInvariant`, `HealthCountKept`, `HealthReported`.
* `Led_proofs`, from `LedAssumption` (`SLOW_POLLS` is positive, there is a world): `LedInvariant`,
  `LedShowsTheWorld`, `LedFastSignalsFresh`.
* `Backend_proofs`, from `MigrateAssumption` (the number of versions is positive, the bounds are numbers) and
  `BackupAssumption` (at least two daily dumps are kept, a day has a tick): `BackendRecordMatches`,
  `BackupInvariant`, `BackendRowsSaved`, `BackendEditsSaved`.

The bounds on counters (`MaxCuts`, `MaxFaults`, `MaxEdits` and the like) are constants as well, so the theorems hold
for every number of the things they count.

The argument for `Sync`. `NoLoss` alone is not inductive: `MarkSynced` adds the batch to `synced`,
so one must know that the batch is on the server once `rpc = "stored"`; a power cut restores `disk`, so
the synced rows of `disk` must be on the server too; and for the refinement everything on the wire
must be something the car recorded. `IInv` is the conjunction of `TypeOK`, `CarInv` (the
database, its disk image and the history fit), `NetInv` (the server and the late requests hold only what was
recorded, and the car's delivered rows), and `ClientInv` (the client's position, its batch and the state of
its POST fit). `SyncInvariant` proves it inductive, action by action; the other
theorems follow from it, the refinement by mapping each action to an action of `Replica` or a
stutter. `CompletePass` and `ParentsFirst` need an invariant of their own: in a pass without
failure, the tables behind the index hold no row of `begun` that is not on the server.

The argument for `QueueWriter`. No invariant of the runs is inductive. `ConservedInv` follows every row from its
producer to `stored` or `lost`, with the rows of an open transaction among those already reported. `StopInv` says
that a writer past its last turn has an empty batch and nothing but late rows in the queue, because `should_stop` is
read before the last flush: what is enqueued after that is enqueued after the stop. With the first it gives
`DrainedOnStop`. `OrderInv` says that the trip of a waiting
reading is stored or lost or waits *before* it, in the batch or in the queue, which `Get` must keep when it moves a row from
the head of the one to the tail of the other; so a refused reading is one whose trip was lost. `TripInv` says
that every trip that may still come to be open was begun by this process, and that all it began but the current one are
closed or known to have missed their end.

The argument for `TripManager`. Between two checks of the watchdog the idle time grows with the
watchdog's own wait, so `IdleInv` bounds `idleAge` by the timeout plus `pollAge`; `BoundedIdle`
follows since `pollAge` never exceeds the poll interval. `NoEarlyEnd` follows from
`zeroAge <= idleAge` in `TimersHonest`.

The arguments for `TableBuffers`. Every step of the composition is a step of `TripManager` or leaves it alone
(`TablesImplementTrips`), so what is proved of trips carries over. `RowsApart` is not inductive: a row is due by
`flushAge`, and says nothing of the last *row*, since windows without a row and reconnects set `flushAge` as well. `RowsInv`
adds that a buffer with a value has `flushAge <= rowAge`, and an empty one (from which no row is written) a timer
that has run out; and, for `RowsOwn`, that a value of an earlier trip is only in the buffer while the trip has no row
yet, and that none of an earlier connection is. `FlagInv` adds the remaining types.

The argument for the decoders. Words are ordered as their bytes are, whether the high byte is signed or not (`WordOrder`),
and a signed word has the signed high byte (`SignedHigh`). So each formula stays in the range of its
sensor, on a frame of any bytes and any length (`Mode22Decodes`), while the run evaluates frames of eight bytes made of
eight edge values.

The argument for `Collector`. `PollsWhenConnected` depends on what main, the monitor and the scans may interleave, and
is proved from four invariants: who may be where (`PhaseInv`), who holds `_dtc_lock` (`LockInv`), which object may have a
polling loop at each of these positions (`LoopInv`), and that a query is about the current object unless a stop has taken
it away (`PollInv`), which also says where a `Silent` object may come from. `stop()`, which takes no lock, is why `LoopInv` and `PollInv` have an exception for a stop that came
between: it is the one `collector_stop` shows, and `NoByteRace` holds in spite of it.

The argument for `Health`. A process about to rename has a temp file of its own with the whole value, fsynced
(`FileInv`), so a file never becomes dirty, and no rename finds its temp file gone. For the counter, each start has a process that
will still increment or one that has: `RoomInv` bounds the count, in the file and on its way there, by the starts less the processes
that have not read it yet, a cardinality over the processes; it keeps the types. While instances do not overlap, what a process
read, what it will write and what it wrote are the value of the file (`AloneInv`), which is what `CountKept` and `Reported`
say at the moments at which they must be true.

The argument for `Led`. What the LEDs will show is in the cached signals, those read so far and the targets, so each is
compared with the world. `CacheInv` compares the age of the cache with the number of polls since the world changed: a
cache no older than that is right. From there the signals of a whole poll (`SeenInv`), the targets (`TargetInv`) and the
LEDs but those that a failing `_set` changed (`ShownInv`) are right in turn.

The argument for `Backend`. `RecordMatches` needs to know that a server between reading the versions and committing the next one,
and a transaction that lost its server, have every earlier version below them (`SchemaInv`). The backups change none of it.

The argument for the backups. That a dump with the rows is there says nothing of the next prune, since the other process may still add an
*older* dump behind it. `Kept` says what it takes: the dump is the newest, and at most one of the two processes will
still add one that lacks the rows; or it is the last but one, and neither will. As `KEEP_DAILY` is at least two, no prune removes it.
`PromiseInv` applies it to what was promised, to the fingerprint on the disk, and to each run from its count of the rows to
its end. For `EditsSaved`, `EditInv` follows each update: it is in a dump that is kept, or has waited for at most as long as `Waits` allows
at the position of the loop in its day (`TimeInv`): the newest dump is at most a tick older than the update, a loop that finds that dump old makes
another one, and a dump under way takes a tick. `OwnInv` says that a process whose `.partial` is shared or gone has voided the promises before
its damaged dump counts as one of those kept, so `Kept` and `PromiseInv` need only look at whole dumps. The proofs
corrected the model twice: faults may leave two files more, not one, in the directory (the bound in `BackupTypeOK`), and the waiting time has to be kept for each update by itself (`unsaved`).

The arguments for `Supervisor`. A sound file has no foreign sidecars beside it (`SoundInv`), since a
replay spoils the fresh one. `NeverGivesUp` needs the time of the starts: while the interval lasts, `window`
is at least `(starts - 1) * RestartSec` and the age of a unit that waits for its restart
(`StartsInv`), so a restart that would be refused comes when the interval is over. The types need that a quarantine is
entered below the bound of its recursion (`UnitInv`).

Only model-checked: everything with fairness (`Delivered`, `Settles` of the queue and of the LEDs, `TripsEnd`,
`PollingResumes`, `ZombieExits`, `BackToWork`, `ComesUp`), which is beyond the prover. Every safety property of a
passing run is stated by a theorem.

## 5. Where code and documentation disagree

Three are counterexamples of runs; `PROJECT.json` quotes the lines.

1. `sync_lost_close`: a trip that ends between SELECT and UPDATE of the batch with its open version
   is marked as synced, and its end is never sent. The car closes the trip, the server shows it open
   for ever.
2. `collector_stop`: `Collector.stop` waits neither for the lock nor long enough for a scan, and a
   polling loop is started again after it stopped the last one.
3. `supervisor_crash_loop`: a file on which SQLite raises ("file is not a database", "database disk image is
   malformed") is not quarantined, since `get_connection` only looks at what the integrity check
   returns. Every restart dies at the same statement.

Others came up while modelling. The models behave as the code does, and they have no run of their own:

* main.py:22-24 says that the queue is drained before the connection is closed "so no in-flight rows are lost". A DTC scan or
  a loop restarted by it (the second finding) may outlive its join of 5 s and enqueue a row after the writer's last look
  at the queue: it is neither written nor logged as lost (`late` in `DrainedOnStop`). Such a trip's end goes to a
  closed connection, and the trip is closed by the repair of the next boot.
* collector.py:210-214 explains why a loop that cannot be started must drop the connection, and :296-300 that a single
  failure must not end collection. In the monitor's own reconnect it does: an exception of `watch` or `Async.start`
  after collector.py:234 is only logged (330-331), `_async_conn` stays connected and unpolled, and 293-294 skips it
  at every tick until the link drops, or a scan that was already waiting for the lock restarts it; no callback is left to start
  another one (`Silent`).
* health.py:16 calls the reconnect count one "since last boot", but nothing resets its file: before the first reconnect of
  a process it is that of an earlier one. `Reported` begins with the first reconnect.
* sync.py:45-48 gives the upsert of a trip without the `COALESCE` that store.go:94-100 has. As given there, a late
  request with the open version would reopen a trip on the server: it is the mutant of `ClosesAreMonotone`.
* backup.sh:72-76 names the `.partial` and the dump after a whole second. The nightly run and `make backup-now` in one second
  write one file, of which one run may publish what the other still overwrites, or remove it under its hands; and no
  mv is fsynced, so a host that goes down may undo it or leave a torn file under a good name. `RowsSaved` makes no
  promise after either (`spoiled`).
* Any `OperationalError` of the SELECT in `_sync_table` passes for a missing table, so a pass that left rows behind
  may be called complete. `CompletePass` is therefore checked and proved without that fault.
* `get_connection` raising ends the sync process of this drive; its unit has no `Restart=`. `Delivered` is checked
  without it.
* A drop of the link longer than the watchdog's timeout ends the trip of a running engine, although a trip is documented
  as kept across a reconnect. `TripsEnd` is the other side of this decision.
* The comment at obd_commands.py:352-355 has gears 7 and 8 stored as NULL; the code keeps 1 to 8 (`Formula`).
  No decoder checks that the frame answers the PID that was asked.
* backend/README.md:189 speaks of a forced dump by age; an UPDATE waits for `FORCE_AFTER_DAYS + 1` nights, since the age is
  counted in whole days (`EditBound`).
* In the backup loop `dump || log` suspends `set -e`: when the `mv` of a dump fails, the fingerprint of the lost dump is
  recorded all the same, and the next nights skip. `RowsSaved` makes no promise after that (`spoiled`). A weekly
  copy that was cut off keeps the name of a good one (`PromoteFails`). With one daily dump kept, a slow run that a single one
  overtakes would replace it by an older dump, which is why `BackupAssumption` asks for two (compose.yaml keeps 7).
* An LED that changed although its `_set` raised stays wrong until its target changes (`halfSet`).

## 6. What is not modelled

* Of the modelled parts: column types, log texts, SQL syntax, the
  per-table warning streaks; wall-clock time (rows with a time stamp in the future, for the LEDs); Bluetooth pairing and
  the OBD protocol; the content of DTC scans; a hanging constructor as a user of the port (the code accepts that until
  the object returns and is closed); an exception of a callback that ends the polling thread; the trip number and the session
  fields of a trip row; the RTC check and the heartbeat log of main; the health metrics that are single reads.
* Of the backups: the copies in weekly/, which nothing reads (`Promote` and `PromoteFails` are steps, without the files);
  more than one `make backup-now` at a time; a dump that begins in the second in which another one ended, and replaces it
  (by one that holds all that it held, while the model keeps both).
* Trip summary and views: SQL that only reads. Its integration over gaps is a candidate for operators with a reference
  definition.
* Web queries, page templates, dashboards and alert rules, configuration and logging, and the operator scripts keep no
  state a property could be about.

## 7. Plan

Done in this order: `Replica` and `Sync` (the data path that must not lose anything), `QueueWriter`
(the path into SQLite), `TripManager` (what a trip is), `Collector` (where the threads meet), `Supervisor` (whether
every fault leads back to collecting), `TableBuffers` and `Decoders` (what is in a row), `Health` and `Led` (what other
processes see), `Migrate`, `Backup` and `Backend` (the side of the server).

Then the proofs of every safety property of the runs, module by module in the same order.

Next:

1. An abstract queue that only says what waits, is stored or lost, which `QueueWriter` refines, with its proof.
2. `CompletePass` and `ParentsFirst` of `Sync` with failing SELECTs: what still holds of a pass in which none failed.
3. `TripSummary`: the distance of a trip as a recursive function against a reference definition.
