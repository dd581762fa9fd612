---------------------------- MODULE TableBuffers ----------------------------
(***************************************************************************)
(* The rows of pi/src/collector.py, composed with the trips of trip.py.    *)
(* One table stands for all: its columns share a buffer and a timer with   *)
(* no other table's.  The data callbacks run on the polling thread, as     *)
(* on_rpm and on_voltage do; the watchdog may end the trip between the two *)
(* steps of a callback.  A buffered value is known by where it comes from. *)
(***************************************************************************)
EXTENDS TripManager

CONSTANTS
    Columns,    \* the PIDs of the table
    interval_s  \* of the table, in units of time

ASSUME IntervalAssumption == interval_s \in Nat \ {0}

VARIABLES
    buffer,     \* _table_buffer: the source of each column's value, or "none"
    flushAge,   \* age of _table_last_flush, up to interval_s
    hand,       \* the column whose callback read a trip_id, or Nothing
    late,       \* that trip was ended by the watchdog since
    row,        \* the sources in the row that this step enqueued, {} for no row
    first,      \* history: the trip has no row of this table yet
    rowAge      \* history: time since the last row, up to interval_s

table == <<buffer, flushAge, hand, late, row, first, rowAge>>
allVars == <<vars, table>>

Nothing == "nothing"
\* "own": the trip and connection of now; "trip": an earlier trip; "connection":
\* an earlier connection.
Sources == {"own", "trip", "connection"}
Empty   == [c \in Columns |-> "none"]

TablesTypeOK ==
    /\ TypeOK
    /\ buffer \in [Columns -> Sources \cup {"none"}]
    /\ flushAge \in 0..interval_s /\ rowAge \in 0..interval_s
    /\ hand \in Columns \cup {Nothing} /\ late \in BOOLEAN
    /\ late => hand # Nothing /\ ~active
    /\ row \subseteq Sources \cup {"ended"} /\ first \in BOOLEAN

TablesInit ==
    /\ Init
    /\ buffer = Empty /\ flushAge = interval_s
    /\ hand = Nothing /\ late = FALSE
    /\ row = {} /\ first = TRUE /\ rowAge = interval_s

-----------------------------------------------------------------------------
(* The steps of TripManager.                                               *)

\* What the end of a trip makes of the values in the buffer, which stays.
AtTripEnd ==
    IF active /\ ~active'
    THEN /\ buffer' = [c \in Columns |-> IF buffer[c] = "own" THEN "trip" ELSE buffer[c]]
         /\ late' = (hand # Nothing)
         /\ first' = TRUE
    ELSE UNCHANGED <<buffer, late, first>>

\* Mutant: the data callbacks and the trip's run on different threads.
CallbackAnytime ==
    /\ OnRpmRunning \/ OnRpmZero \/ OnVoltage
    /\ AtTripEnd
    /\ row' = {}
    /\ UNCHANGED <<flushAge, hand, rowAge>>

\* The polling thread is in one callback at a time.
Callback ==
    /\ hand = Nothing
    /\ OnRpmRunning \/ OnRpmZero \/ OnVoltage
    /\ AtTripEnd
    /\ row' = {}
    /\ UNCHANGED <<flushAge, hand, rowAge>>

Watchdog ==
    /\ WatchdogCheck
    /\ AtTripEnd
    /\ row' = {}
    /\ UNCHANGED <<flushAge, hand, rowAge>>

UpTo(n, bound) == IF n > bound THEN bound ELSE n

TimePasses ==
    /\ Tick
    /\ flushAge' = UpTo(flushAge + 1, interval_s) /\ rowAge' = UpTo(rowAge + 1, interval_s)
    /\ row' = {}
    /\ UNCHANGED <<buffer, hand, late, first>>

Outside ==
    /\ KeyOn \/ KeyOff \/ LinkDrop
    /\ row' = {}
    /\ UNCHANGED <<buffer, flushAge, hand, late, first, rowAge>>

\* What a new connection makes of the values that are in buffer b.
Survives(b) == [c \in Columns |-> IF b[c] = "none" THEN "none" ELSE "connection"]

\* Mutant: the buffers are not reset.
ConnectKeepsBuffer ==
    /\ hand = Nothing
    /\ LinkUp
    /\ buffer' = Survives(buffer) /\ flushAge' = interval_s
    /\ row' = {}
    /\ UNCHANGED <<hand, late, first, rowAge>>

\* _connect_and_watch; the thread of the earlier connection was joined.
Connect ==
    /\ hand = Nothing
    /\ LinkUp
    /\ buffer' = Survives(Empty) /\ flushAge' = interval_s
    /\ row' = {}
    /\ UNCHANGED <<hand, late, first, rowAge>>

-----------------------------------------------------------------------------
(* _handle_response for column c.                                          *)

\* trip_id = current_trip_id; without a trip it returns.
ReadTripId(c) ==
    /\ hand = Nothing /\ active /\ link
    /\ hand' = c /\ late' = FALSE
    /\ row' = {}
    /\ UNCHANGED <<vars, buffer, flushAge, first, rowAge>>

Due == flushAge >= interval_s

\* The value, None or not, goes into the buffer.
Store(base) == buffer' = [base EXCEPT ![hand] = IF late THEN "trip" ELSE "own"]

\* Mutant: the buffer is written and kept.
FlushKeeps ==
    /\ hand # Nothing /\ hand' = Nothing /\ late' = FALSE
    /\ Due /\ buffer # Empty
    /\ row' = IF late THEN {"ended"} ELSE {buffer[c] : c \in Columns} \ {"none"}
    /\ first' = (first /\ late)
    /\ rowAge' = 0 /\ flushAge' = 0
    /\ Store(buffer)
    /\ UNCHANGED vars

\* The window is over: its values are one row, for the trip that was read.
Flush ==
    /\ hand # Nothing /\ hand' = Nothing /\ late' = FALSE
    /\ Due /\ buffer # Empty
    /\ row' = IF late THEN {"ended"} ELSE {buffer[c] : c \in Columns} \ {"none"}
    /\ first' = (first /\ late)
    /\ rowAge' = 0 /\ flushAge' = 0
    /\ Store(Empty)
    /\ UNCHANGED vars

\* Mutant: an empty window does not start the timer.
OpenWindowUntimed ==
    /\ hand # Nothing /\ hand' = Nothing /\ late' = FALSE
    /\ Due /\ buffer = Empty
    /\ Store(Empty)
    /\ row' = {}
    /\ UNCHANGED <<vars, flushAge, first, rowAge>>

\* There is no row to write: the first window of the connection.
OpenWindow ==
    /\ hand # Nothing /\ hand' = Nothing /\ late' = FALSE
    /\ Due /\ buffer = Empty
    /\ flushAge' = 0
    /\ Store(Empty)
    /\ row' = {}
    /\ UNCHANGED <<vars, first, rowAge>>

Accumulate ==
    /\ hand # Nothing /\ hand' = Nothing /\ late' = FALSE
    /\ ~Due
    /\ Store(buffer)
    /\ row' = {}
    /\ UNCHANGED <<vars, flushAge, first, rowAge>>

HandleResponse == Flush \/ OpenWindow \/ Accumulate

TablesNext ==
    \/ Callback \/ Watchdog \/ TimePasses \/ Outside \/ Connect
    \/ \E c \in Columns : ReadTripId(c)
    \/ HandleResponse

TablesSpec == TablesInit /\ [][TablesNext]_allVars

\* A callback comes to its end, and the clock and the watchdog go on.
TablesFairSpec ==
    TablesSpec /\ WF_allVars(TimePasses) /\ WF_allVars(Watchdog) /\ WF_allVars(HandleResponse)

-----------------------------------------------------------------------------
\* "No stale data from a previous connection is carried forward"
\* (collector.py:241), however long the gap was and whichever trip goes on after
\* it.  Nothing clears the buffer when a trip ends: what is left of it is in the
\* first row of the table in the next trip, and in no other.
RowsOwn ==
    [][row' # row => "connection" \notin row' /\ ("trip" \in row' => first)]_allVars

\* "obd_1s gets one row/second ... not separate sparse rows" (collector.py:13):
\* two rows of a table are never closer than its interval, through drops of the
\* link, reconnects and trips that end and start.
RowsApart == [][row' # {} => rowAge >= interval_s]_allVars
=============================================================================
