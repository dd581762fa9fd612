----------------------------- MODULE Collector -----------------------------
(***************************************************************************)
(* The life cycle of the OBD connection: Collector.start, stop, query_sync *)
(* and the monitor thread of pi/src/collector.py, OBDConnection.connect    *)
(* and connect_with_timeout of pi/src/obd_connection.py, the DTC scan      *)
(* threads of trip.py and the stop sequence of main.py.                    *)
(*                                                                         *)
(* A connection object is an id.  Its polling loop is a thread of          *)
(* python-obd that Async.start creates if the object is connected and      *)
(* Async.stop joins; is_connected tells the state of the port only.        *)
(***************************************************************************)
EXTENDS Naturals, FiniteSets

CONSTANTS
    Conns,    \* connection objects; ids are used again when nothing holds them
    Scans,    \* DTC scan threads
    None,     \* Python's None
    MaxDrops, \* bound: drops of the Bluetooth link
    MaxHung   \* bound: constructors that hang beyond the timeout

ASSUME CollectorAssumption ==
    /\ None \notin Conns \cup Scans /\ "monitor" \notin Scans \cup {None}
    /\ MaxDrops \in Nat /\ MaxHung \in Nat

VARIABLES
    link, drops, \* the Bluetooth link, and how often it has dropped
    cs,      \* each object: "free", "opening" (in its constructor), "failed" (it raised),
             \* "open" (connected) or "dead" (not connected)
    loop,    \* objects whose polling thread runs
    hung,    \* constructors whose caller has given up
    ref,     \* _async_conn
    att,     \* the object connect_with_timeout is waiting for
    lock,    \* holder of _dtc_lock
    stop,    \* _stop_event
    main,    \* the main thread
    mon,     \* the monitor thread
    scan,    \* each scan thread: "idle", "want" (the lock) or "query"
    call,    \* 1: Mode 03, 2: Mode 07
    snap,    \* the conn local of query_sync
    unstarted \* history: the object whose loop a reconnect failed to start, as long
              \* as nobody has tried anything with it

world  == <<link, drops>>
objects == <<cs, loop, hung>>
scans  == <<scan, call, snap>>
vars   == <<world, objects, ref, att, lock, stop, main, mon, scans, unstarted>>

MainStates == {"connect", "register", "up", "check", "use", "clear", "join",
               "scans", "stopped", "crashed"}
MonitorStates == {"off", "wait", "lock", "swap", "verify", "open", "register", "done"}

TypeOK ==
    /\ link \in BOOLEAN /\ drops \in 0..MaxDrops
    /\ cs \in [Conns -> {"free", "opening", "failed", "open", "dead"}]
    /\ loop \in SUBSET Conns /\ hung \in SUBSET Conns
    /\ ref \in Conns \cup {None} /\ att \in Conns \cup {None}
    /\ lock \in {None, "monitor"} \cup Scans
    /\ stop \in BOOLEAN
    /\ main \in MainStates /\ mon \in MonitorStates
    /\ scan \in [Scans -> {"idle", "want", "query"}]
    /\ call \in [Scans -> {1, 2}]
    /\ snap \in [Scans -> Conns \cup {None}]
    /\ unstarted \in Conns \cup {None}

Connected(c) == c # None /\ cs[c] = "open"

\* Objects that nothing refers to.
Unused == {c \in Conns : /\ cs[c] # "opening"
                         /\ c \notin {ref, att} \cup loop \cup {snap[s] : s \in Scans}}

-----------------------------------------------------------------------------
(* The Bluetooth link.                                                     *)

LinkUp ==
    /\ ~link /\ link' = TRUE
    /\ UNCHANGED <<drops, objects, ref, att, lock, stop, main, mon, scans, unstarted>>

\* Every connected object notices a drop.
LinkDrop ==
    /\ link /\ drops < MaxDrops
    /\ link' = FALSE /\ drops' = drops + 1
    /\ cs' = [c \in Conns |-> IF cs[c] = "open" THEN "dead" ELSE cs[c]]
    /\ UNCHANGED <<loop, hung, ref, att, lock, stop, main, mon, scans, unstarted>>

-----------------------------------------------------------------------------
(* connect_with_timeout: a constructor in a thread of its own.             *)

\* A new object, in the hands of a constructor thread.
Construct(c) ==
    /\ att' = c
    /\ cs' = [cs EXCEPT ![c] = "opening"]

\* _run: the constructor returns or raises; a late object is closed.
Constructed(c) ==
    /\ cs[c] = "opening"
    /\ \/ /\ c \in hung
          /\ cs' = [cs EXCEPT ![c] = "free"] /\ hung' = hung \ {c}
       \/ /\ c \notin hung
          /\ \E result \in {"failed", "dead"} \cup (IF link THEN {"open"} ELSE {}) :
                cs' = [cs EXCEPT ![c] = result]
          /\ UNCHANGED hung
    /\ UNCHANGED <<world, loop, ref, att, lock, stop, main, mon, scans, unstarted>>

\* The caller's side: it finds a result, or it gives up under the lock.
Returned == att # None /\ cs[att] \in {"open", "dead"} /\ UNCHANGED hung
Raised ==
    \/ att # None /\ cs[att] = "failed" /\ UNCHANGED hung
    \/ /\ att # None /\ cs[att] = "opening"
       /\ Cardinality(hung) < MaxHung
       /\ hung' = hung \cup {att}

-----------------------------------------------------------------------------
(* Collector.start, on the main thread.                                    *)

Init ==
    /\ link \in BOOLEAN /\ drops = 0
    /\ \E c \in Conns :
          /\ att = c
          /\ cs = [k \in Conns |-> IF k = c THEN "opening" ELSE "free"]
    /\ loop = {} /\ hung = {}
    /\ ref = None /\ lock = None /\ stop = FALSE
    /\ main = "connect" /\ mon = "off"
    /\ scan = [s \in Scans |-> "idle"] /\ call = [s \in Scans |-> 1]
    /\ snap = [s \in Scans |-> None]
    /\ unstarted = None

\* _async_conn is set before the watchers are registered.
StartConnected ==
    /\ main = "connect" /\ Returned
    /\ ref' = att /\ att' = None
    /\ main' = "register"
    /\ UNCHANGED <<world, cs, loop, lock, stop, mon, scans, unstarted>>

StartFailed ==
    /\ main = "connect" /\ Raised
    /\ att' = None
    /\ main' = "up" /\ mon' = "wait"
    /\ UNCHANGED <<world, cs, loop, ref, lock, stop, scans, unstarted>>

\* Mutant: the loop is started whatever the object is.
StartedAnyway(c) == loop \cup {c}

\* Async.start: a thread for a connected object, nothing for another.
Started(c) == IF Connected(c) THEN loop \cup {c} ELSE loop

\* The watchers are registered and the loop is started, or one of these raises
\* and the object is dropped; then the monitor is started.
StartRegistered ==
    /\ main = "register"
    /\ \/ loop' = Started(ref) /\ UNCHANGED ref
       \/ ref' = None /\ UNCHANGED loop
    /\ main' = "up" /\ mon' = "wait"
    /\ UNCHANGED <<world, cs, hung, att, lock, stop, scans, unstarted>>

-----------------------------------------------------------------------------
(* _monitor_connection.                                                    *)

\* The 10 s wait is over and the connection is down.
MonitorWake ==
    /\ mon = "wait"
    /\ ~stop /\ ~Connected(ref)
    /\ mon' = "lock"
    /\ UNCHANGED <<world, objects, ref, att, lock, stop, main, scans, unstarted>>

MonitorExit ==
    /\ mon = "wait" /\ stop
    /\ mon' = "done"
    /\ UNCHANGED <<world, objects, ref, att, lock, stop, main, scans, unstarted>>

\* Both conditions are checked again under _dtc_lock.
MonitorLock ==
    /\ mon = "lock" /\ lock = None
    /\ mon' = IF Connected(ref) THEN "wait" ELSE IF stop THEN "done" ELSE "swap"
    /\ lock' = IF mon' = "swap" THEN "monitor" ELSE None
    /\ UNCHANGED <<world, objects, ref, att, stop, main, scans, unstarted>>

\* conn.stop, _async_conn = None, and reconnect enters connect.
MonitorSwap ==
    /\ mon = "swap"
    /\ loop' = loop \ {ref}
    /\ ref' = None
    /\ \E c \in Unused : Construct(c)
    /\ mon' = "verify" /\ unstarted' = None
    /\ UNCHANGED <<world, hung, lock, stop, main, scans>>

\* connect: the dongle answers, the object is closed, obd.Async is opened.
Verified ==
    /\ mon = "verify" /\ Returned /\ cs[att] = "open"
    /\ \E c \in Unused : Construct(c)
    /\ mon' = "open"
    /\ UNCHANGED <<world, loop, hung, ref, lock, stop, main, scans, unstarted>>

\* connect retries without end, and without a look at _stop_event.
VerifyFailed ==
    /\ mon = "verify"
    /\ \/ Returned /\ cs[att] = "dead"
       \/ Raised
    /\ \E c \in Unused : Construct(c)
    /\ UNCHANGED <<world, loop, ref, lock, stop, main, mon, scans, unstarted>>

MonitorConnected ==
    /\ mon = "open" /\ Returned
    /\ ref' = att /\ att' = None
    /\ mon' = "register"
    /\ UNCHANGED <<world, cs, loop, lock, stop, main, scans, unstarted>>

\* Mutant: the exception ends the thread.
MonitorFailedForGood ==
    /\ mon = "open" /\ Raised
    /\ att' = None
    /\ lock' = None /\ mon' = "done"
    /\ UNCHANGED <<world, cs, loop, ref, stop, main, scans, unstarted>>

MonitorFailed ==
    /\ mon = "open" /\ Raised
    /\ att' = None
    /\ lock' = None /\ mon' = "wait"
    /\ UNCHANGED <<world, cs, loop, ref, stop, main, scans, unstarted>>

\* The loop is started, unless stop has set _async_conn to None.  A watch or a
\* start that raises is only logged, unlike in Collector.start and query_sync:
\* _async_conn stays, connected and without a loop.
MonitorRegistered ==
    /\ mon = "register"
    /\ \/ loop' = Started(ref) /\ unstarted' = None
       \/ unstarted' = ref /\ UNCHANGED loop
    /\ lock' = None /\ mon' = "wait"
    /\ UNCHANGED <<world, cs, hung, ref, att, stop, main, scans>>

-----------------------------------------------------------------------------
(* _scan_dtc: two calls of query_sync.                                     *)

\* A callback of a running loop starts or ends a trip.
DispatchScan(s) ==
    /\ scan[s] = "idle"
    /\ \E c \in loop : cs[c] = "open"
    /\ scan' = [scan EXCEPT ![s] = "want"]
    /\ call' = [call EXCEPT ![s] = 1]
    /\ UNCHANGED <<world, objects, ref, att, lock, stop, main, mon, snap, unstarted>>

\* Not connected: query_sync returns None and the scan is over.
ScanSkipped(s) ==
    /\ scan[s] = "want" /\ lock = None
    /\ ~Connected(ref)
    /\ scan' = [scan EXCEPT ![s] = "idle"]
    /\ UNCHANGED <<world, objects, ref, att, lock, stop, main, mon, call, snap, unstarted>>

\* Mutant: no _dtc_lock.
ScanQueryUnlocked(s) ==
    /\ scan[s] = "want"
    /\ Connected(ref)
    /\ lock' = s
    /\ snap' = [snap EXCEPT ![s] = ref]
    /\ loop' = loop \ {ref}
    /\ scan' = [scan EXCEPT ![s] = "query"]
    /\ UNCHANGED <<world, cs, hung, ref, att, stop, main, mon, call, unstarted>>

\* The loop is stopped for the query.
ScanQuery(s) ==
    /\ scan[s] = "want" /\ lock = None
    /\ Connected(ref)
    /\ lock' = s
    /\ snap' = [snap EXCEPT ![s] = ref]
    /\ loop' = loop \ {ref}
    /\ scan' = [scan EXCEPT ![s] = "query"]
    /\ UNCHANGED <<world, cs, hung, ref, att, stop, main, mon, call, unstarted>>

\* The response is in and the loop is started again; after Mode 03 comes Mode 07.
ScanAnswered(s) ==
    /\ scan[s] = "query"
    /\ loop' = Started(snap[s])
    /\ lock' = None /\ unstarted' = None
    /\ snap' = [snap EXCEPT ![s] = None]
    /\ \/ call[s] = 1 /\ scan' = [scan EXCEPT ![s] = "want"] /\ call' = [call EXCEPT ![s] = 2]
       \/ call[s] = 2 /\ scan' = [scan EXCEPT ![s] = "idle"] /\ UNCHANGED call
    /\ UNCHANGED <<world, cs, hung, ref, att, stop, main, mon>>

\* Mutant: a loop that cannot be restarted is left alone.
RestartOrNot(s) ==
    /\ loop' = Started(snap[s]) \/ UNCHANGED loop
    /\ UNCHANGED ref

\* The best-effort restart; if that raises too, the monitor is made to reconnect.
Restart(s) ==
    \/ loop' = Started(snap[s]) /\ UNCHANGED ref
    \/ ref' = None /\ UNCHANGED loop

\* The query, or the start of the loop, raised: no response ends the scan.
ScanRaised(s) ==
    /\ scan[s] = "query"
    /\ Restart(s)
    /\ lock' = None /\ unstarted' = None
    /\ snap' = [snap EXCEPT ![s] = None]
    /\ scan' = [scan EXCEPT ![s] = "idle"]
    /\ UNCHANGED <<world, cs, hung, att, stop, main, mon, call>>

-----------------------------------------------------------------------------
(* main's finally block: Collector.stop, TripManager.stop.                 *)

Sigterm ==
    /\ main = "up"
    /\ stop' = TRUE /\ main' = "check"
    /\ UNCHANGED <<world, objects, ref, att, lock, mon, scans, unstarted>>

StopCheck ==
    /\ main = "check"
    /\ main' = IF ref = None THEN "join" ELSE "use"
    /\ UNCHANGED <<world, objects, ref, att, lock, stop, mon, scans, unstarted>>

\* _async_conn is read again: None has no stop, and the exception leaves the
\* finally block.
StopUse ==
    /\ main = "use"
    /\ \/ ref = None /\ main' = "crashed" /\ UNCHANGED loop
       \/ ref # None /\ main' = "clear" /\ loop' = loop \ {ref}
    /\ UNCHANGED <<world, cs, hung, ref, att, lock, stop, mon, scans, unstarted>>

StopClear ==
    /\ main = "clear"
    /\ ref' = None /\ main' = "join"
    /\ UNCHANGED <<world, objects, att, lock, stop, mon, scans, unstarted>>

\* Each join returns when the thread has ended, or after 5 s.
StopJoin ==
    /\ main = "join" /\ main' = "scans"
    /\ UNCHANGED <<world, objects, ref, att, lock, stop, mon, scans, unstarted>>

ScansJoin ==
    /\ main = "scans" /\ main' = "stopped"
    /\ UNCHANGED <<world, objects, ref, att, lock, stop, mon, scans, unstarted>>

-----------------------------------------------------------------------------
Start == StartConnected \/ StartFailed \/ StartRegistered

Monitor ==
    \/ MonitorWake \/ MonitorExit \/ MonitorLock \/ MonitorSwap
    \/ Verified \/ VerifyFailed \/ MonitorConnected \/ MonitorFailed \/ MonitorRegistered

Scan(s) == DispatchScan(s) \/ ScanSkipped(s) \/ ScanQuery(s) \/ ScanAnswered(s) \/ ScanRaised(s)

Stop == Sigterm \/ StopCheck \/ StopUse \/ StopClear \/ StopJoin \/ ScansJoin

Next ==
    \/ LinkUp \/ LinkDrop
    \/ \E c \in Conns : Constructed(c)
    \/ Start \/ Monitor
    \/ \E s \in Scans : Scan(s)
    \/ Stop

Spec == Init /\ [][Next]_vars

\* The monitor's constructor of this stage connects.
Opens(stage) ==
    /\ mon = stage
    /\ \E c \in Conns : c = att /\ Constructed(c) /\ cs'[c] = "open"

\* Every thread runs on, a query returns, and a constructor that is tried again
\* and again on a link that is up connects at last.
Fairness ==
    /\ WF_vars(Start)
    /\ WF_vars(MonitorWake) /\ WF_vars(MonitorLock) /\ WF_vars(MonitorSwap)
    /\ SF_vars(Opens("verify")) /\ WF_vars(Verified) /\ WF_vars(VerifyFailed)
    /\ SF_vars(Opens("open")) /\ WF_vars(MonitorConnected) /\ WF_vars(MonitorFailed)
    /\ WF_vars(MonitorRegistered)
    /\ \A s \in Scans : WF_vars(ScanAnswered(s) \/ ScanRaised(s))

FairSpec == Spec /\ Fairness

-----------------------------------------------------------------------------
\* collector.py:179-182, 304-313: two users of /dev/rfcomm0 would take each
\* other's bytes.  At most one polling loop, query or constructor that somebody
\* waits for is ever at the port.
NoByteRace ==
    /\ Cardinality(loop) <= 1
    /\ \A s \in Scans : scan[s] = "query" =>
          /\ loop = {} /\ att = None
          /\ \A u \in Scans : scan[u] = "query" => u = s
    /\ att # None => loop = {}

\* A connected object that nobody polls, as a reconnect leaves it when it cannot
\* start the loop.
Silent == Connected(ref) /\ ref = unstarted

\* The monitor takes the state of the port for the state of collection
\* (collector.py:210-214), so while nothing is under way a connected
\* _async_conn must be polling: nobody would ever start it again.  The monitor's
\* own reconnect is the only step that may leave it Silent.
PollsWhenConnected ==
    main = "up" /\ mon = "wait" /\ lock = None /\ Connected(ref) => ref \in loop \/ Silent

\* "A single failure must NOT permanently disable reconnection"
\* (collector.py:296-300): while the link stays up, collection comes back, after
\* every failure but that of the loop's start in a reconnect.
PollingResumes == main = "up" /\ link ~>
    (\E c \in loop : Connected(c)) \/ Silent \/ ~link \/ main # "up"

\* Collector.stop: "Stop the monitor thread, all watchers, and close the async
\* polling loop."
StoppedQuiet == main = "stopped" => loop = {}
=============================================================================
