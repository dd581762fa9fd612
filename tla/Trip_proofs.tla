----------------------------- MODULE Trip_proofs -----------------------------
(***************************************************************************)
(* The trip state machine for every choice of the four durations, the rows *)
(* of a table for every interval and every set of columns, and the         *)
(* decoders for every frame.                                               *)
(*                                                                         *)
(* BoundedIdle is not inductive: between two watchdog checks the idle time *)
(* grows with the watchdog's own wait, so the invariant relates the two.   *)
(* A row is only written from a buffer that is not empty, and the values   *)
(* of an earlier trip or connection only come into a buffer in known ways: *)
(* that is what RowsInv says.                                              *)
(***************************************************************************)
EXTENDS MCTrip, SequenceTheorems, TLAPS

IdleInv == active => idleAge # NoAge /\ idleAge <= TRIP_WATCHDOG_TIMEOUT_S + pollAge

TInv == TypeOK /\ IdleInv /\ TimersHonest

\* The constants, in the form the arithmetic needs.
LEMMA Durations ==
    /\ VOLTAGE_DROP_DURATION_S \in Nat /\ RPM_ZERO_DURATION_S \in Nat
    /\ TRIP_WATCHDOG_TIMEOUT_S \in Nat /\ TRIP_WATCHDOG_POLL_S \in Nat
    /\ TRIP_WATCHDOG_POLL_S > 0
    /\ VOLTAGE_DROP_DURATION_S <= RPM_ZERO_DURATION_S
    /\ RPM_ZERO_DURATION_S <= TRIP_WATCHDOG_TIMEOUT_S
    /\ MaxAge \in Nat /\ NoAge \notin Nat /\ NoAge \in Int /\ NoAge < 0
    /\ MaxAge = TRIP_WATCHDOG_TIMEOUT_S + TRIP_WATCHDOG_POLL_S + 1
BY DurationAssumption DEF MaxAge, NoAge

\* An age stays an age, and two ages keep their order while time passes.
LEMMA OlderIsAge == ASSUME NEW a \in Ages PROVE Older(a) \in Ages
BY Durations DEF Ages, Older

LEMMA OlderKeepsOrder ==
    ASSUME NEW a \in Ages, NEW b \in Ages, a <= b, b # NoAge, b < MaxAge
    PROVE  Older(a) <= Older(b)
BY Durations DEF Ages, Older, NoAge

\* The initial state, before any trip.
LEMMA InitTInv == Init => TInv
<1> SUFFICES ASSUME Init PROVE TInv
    OBVIOUS
<1>1. NoAge \in Ages /\ 0 \in 0..TRIP_WATCHDOG_POLL_S
    BY Durations DEF Ages
<1>2. TypeOK
    BY <1>1 DEF Init, TypeOK
<1>3. IdleInv /\ TimersHonest
    BY DEF Init, IdleInv, TimersHonest
<1> QED
    BY <1>2, <1>3 DEF TInv

\* The end of a trip, by any path, falls back to a state without a session.
LEMMA EndTripTInv ==
    ASSUME TInv, EndTrip, pollAge' \in 0..TRIP_WATCHDOG_POLL_S,
           UNCHANGED world, polled' \in BOOLEAN
    PROVE  TInv'
BY Durations DEF TInv, TypeOK, IdleInv, TimersHonest, EndTrip, Ages, world

\* Each action preserves the invariant.
LEMMA NextTInv == TInv /\ [Next]_vars => TInv'
<1> SUFFICES ASSUME TInv, [Next]_vars PROVE TInv'
    OBVIOUS
<1> USE Durations DEF TInv, TypeOK, IdleInv
<1>1. CASE KeyOn
    BY <1>1 DEF KeyOn, state, TimersHonest
<1>2. CASE KeyOff
    BY <1>2 DEF KeyOff, state, TimersHonest
<1>3. CASE LinkUp
    BY <1>3 DEF LinkUp, state, TimersHonest
<1>4. CASE LinkDrop
    BY <1>4 DEF LinkDrop, state, TimersHonest
<1>5. CASE Tick
    <2>1. TypeOK'
        <3>1. zeroAge' \in Ages /\ voltAge' \in Ages /\ idleAge' \in Ages
            BY <1>5, OlderIsAge DEF Tick
        <3>2. pollAge' \in 0..TRIP_WATCHDOG_POLL_S
            BY <1>5 DEF Tick
        <3>3. polled' = FALSE /\ UNCHANGED <<active, voltage, engine, link>>
            BY <1>5 DEF Tick, world
        <3> QED
            BY <3>1, <3>2, <3>3
    <2>2. IdleInv'
        BY <1>5 DEF Tick, Older, Ages
    <2>3. TimersHonest'
        <3>1. active => zeroAge' <= idleAge'
            BY <1>5, OlderKeepsOrder DEF Tick, TimersHonest, Ages
        <3>2. voltAge' = NoAge <=> voltAge = NoAge
            BY <1>5 DEF Tick, Older, Ages
        <3> QED
            BY <1>5, <3>1, <3>2 DEF Tick, TimersHonest
    <2> QED
        BY <2>1, <2>2, <2>3
<1>6. CASE OnRpmRunning
    <2>1. /\ zeroAge' = NoAge /\ idleAge' = 0
          /\ UNCHANGED <<voltage, voltAge, pollAge, engine, link>>
        BY <1>6 DEF OnRpmRunning, world
    <2>2. active' \in BOOLEAN /\ polled' \in BOOLEAN
        BY <1>6 DEF OnRpmRunning
    <2>3. active' => voltage # "none"
        BY <1>6 DEF OnRpmRunning, TimersHonest
    <2>4. TypeOK'
        <3>1. zeroAge' \in Ages /\ idleAge' \in Ages
            BY <2>1 DEF Ages
        <3> QED
            BY <2>1, <2>2, <3>1
    <2>5. IdleInv'
        BY <2>1
    <2>6. TimersHonest'
        BY <2>1, <2>3 DEF TimersHonest
    <2> QED
        BY <2>4, <2>5, <2>6
<1>7. CASE OnRpmZero
    <2>1. CASE active /\ EndDue
        BY <1>7, <2>1, EndTripTInv DEF OnRpmZero
    <2>2. CASE ~(active /\ EndDue)
        BY <1>7, <2>2 DEF OnRpmZero, Elapsed, TimersHonest, Ages, world
    <2> QED
        BY <2>1, <2>2
<1>8. CASE OnVoltage
    BY <1>8 DEF OnVoltage, TimersHonest, Ages, world
<1>9. CASE WatchdogCheck
    <2>1. pollAge' \in 0..TRIP_WATCHDOG_POLL_S
        BY <1>9 DEF WatchdogCheck
    <2>2. CASE active /\ idleAge # NoAge /\ idleAge >= TRIP_WATCHDOG_TIMEOUT_S
        BY <1>9, <2>1, <2>2, EndTripTInv DEF WatchdogCheck
    <2>3. CASE ~(active /\ idleAge # NoAge /\ idleAge >= TRIP_WATCHDOG_TIMEOUT_S)
        BY <1>9, <2>3 DEF WatchdogCheck, TimersHonest, Ages, world, state
    <2> QED
        BY <2>2, <2>3
<1>10. CASE UNCHANGED vars
    BY <1>10 DEF vars, state, world, TimersHonest
<1> QED
    BY <1>1, <1>2, <1>3, <1>4, <1>5, <1>6, <1>7, <1>8, <1>9, <1>10 DEF Next

-----------------------------------------------------------------------------
\* The inductive invariant holds in every reachable state.
THEOREM TripInvariant == Spec => []TInv
BY InitTInv, NextTInv, PTL DEF Spec

\* Every variable keeps its type.
THEOREM TripTypeCorrect == Spec => []TypeOK
<1>1. TInv => TypeOK
    BY DEF TInv
<1> QED
    BY <1>1, TripInvariant, PTL

\* The watchdog closes every trip within its timeout and one poll.
THEOREM TripBoundedIdle == Spec => []BoundedIdle
<1>1. TInv => BoundedIdle
    BY Durations DEF TInv, TypeOK, IdleInv, BoundedIdle, Ages
<1> QED
    BY <1>1, TripInvariant, PTL

\* The timers only measure the current session.
THEOREM TripTimersHonest == Spec => []TimersHonest
<1>1. TInv => TimersHonest
    BY DEF TInv
<1> QED
    BY <1>1, TripInvariant, PTL

\* No false end, from the honest timers and the guards of the two end paths.
THEOREM TripNoEarlyEnd == Spec => NoEarlyEnd
<1> DEFINE Early == Ends => /\ idleAge >= VOLTAGE_DROP_DURATION_S
                            /\ idleAge < RPM_ZERO_DURATION_S => voltage = "low"
                            /\ idleAge < TRIP_WATCHDOG_TIMEOUT_S => EngineOffConfirmed
<1>1. TInv /\ [Next]_vars => [Early]_vars
    <2> SUFFICES ASSUME TInv, Next, Ends
                 PROVE  /\ idleAge >= VOLTAGE_DROP_DURATION_S
                        /\ idleAge < RPM_ZERO_DURATION_S => voltage = "low"
                        /\ idleAge < TRIP_WATCHDOG_TIMEOUT_S => EngineOffConfirmed
        OBVIOUS
    <2>1. idleAge \in Nat /\ zeroAge \in Ages /\ zeroAge <= idleAge
        BY Durations DEF TInv, TypeOK, IdleInv, TimersHonest, Ends, Ages
    <2>2. \/ OnRpmZero /\ active /\ EndDue
          \/ WatchdogCheck /\ idleAge >= TRIP_WATCHDOG_TIMEOUT_S
        BY DEF Next, Ends, KeyOn, KeyOff, LinkUp, LinkDrop, Tick, OnRpmRunning, OnRpmZero,
               OnVoltage, WatchdogCheck, state
    <2>3. CASE EndDue
        <3>1. Elapsed \in Nat /\ Elapsed <= idleAge
            BY <2>1, Durations DEF Elapsed, Ages
        <3> QED
            BY <2>1, <2>3, <3>1, Durations DEF EndDue, EngineOffConfirmed
    <2>4. CASE idleAge >= TRIP_WATCHDOG_TIMEOUT_S
        BY <2>1, <2>4, Durations
    <2> QED
        BY <2>2, <2>3, <2>4
<1> QED
    BY <1>1, TripInvariant, PTL DEF Spec, NoEarlyEnd

-----------------------------------------------------------------------------
RowsInv ==
    /\ buffer \in [Columns -> {"none", "own", "trip"}]
    /\ flushAge \in 0..interval_s /\ rowAge \in 0..interval_s
    /\ IF buffer = Empty THEN flushAge = interval_s ELSE flushAge <= rowAge
    /\ \A c \in Columns : buffer[c] = "trip" => first
    /\ late => ~active /\ first /\ hand # Nothing
    /\ hand # Nothing => hand \in Columns /\ row = {}

LEMMA Interval == interval_s \in Nat /\ interval_s > 0
BY IntervalAssumption

LEMMA UpToInterval == ASSUME NEW n \in 0..interval_s PROVE UpTo(n + 1, interval_s) \in 0..interval_s
BY Interval DEF UpTo

LEMMA UpToOrder ==
    ASSUME NEW n \in 0..interval_s, NEW k \in 0..interval_s, n <= k
    PROVE  UpTo(n + 1, interval_s) <= UpTo(k + 1, interval_s)
BY Interval DEF UpTo

\* A new connection leaves nothing in the buffers.
LEMMA NothingSurvives == Survives(Empty) = Empty
BY DEF Survives, Empty

LEMMA RowsInit == TablesInit => RowsInv
BY Interval DEF TablesInit, RowsInv, Empty, Nothing

\* The collector's steps leave the trip alone; the others are steps of trip.py.
LEMMA StepOfTrips == [TablesNext]_allVars => [Next]_vars
BY DEF TablesNext, allVars, Callback, Watchdog, TimePasses, Outside, Connect, ReadTripId,
       HandleResponse, Flush, OpenWindow, Accumulate, Next

\* What is left in the buffer when a trip ends, or does not.
LEMMA TripEndKeepsRows ==
    ASSUME RowsInv, AtTripEnd, row' = {}, UNCHANGED <<flushAge, hand, rowAge>>,
           active' => active \/ hand = Nothing
    PROVE  RowsInv'
<1>1. CASE active /\ ~active'
  <2>1. /\ buffer' = [c \in Columns |-> IF buffer[c] = "own" THEN "trip" ELSE buffer[c]]
        /\ late' = (hand # Nothing) /\ first' = TRUE
    BY <1>1 DEF AtTripEnd
  <2>2. buffer' \in [Columns -> {"none", "own", "trip"}]
    BY <2>1 DEF RowsInv
  <2>3. buffer' = Empty <=> buffer = Empty
    <3>1. ASSUME buffer' = Empty, NEW c \in Columns PROVE buffer[c] = "none"
      BY <2>1, <3>1 DEF RowsInv, Empty
    <3>2. buffer = Empty => buffer' = Empty
      BY <2>1 DEF Empty
    <3>3. buffer' = Empty => buffer = Empty
      BY <3>1 DEF RowsInv, Empty
    <3> QED
      BY <3>2, <3>3
  <2> QED
    BY <1>1, <2>1, <2>2, <2>3 DEF RowsInv
<1>2. CASE ~(active /\ ~active')
  BY <1>2 DEF AtTripEnd, RowsInv
<1> QED
  BY <1>1, <1>2

\* Each action preserves the invariant.
LEMMA RowsStep == RowsInv /\ [TablesNext]_allVars => RowsInv'
<1> SUFFICES ASSUME RowsInv, [TablesNext]_allVars
             PROVE  RowsInv'
  OBVIOUS
<1>1. CASE UNCHANGED allVars
  BY <1>1 DEF allVars, vars, state, table, RowsInv
<1>2. CASE Callback
  <2>1. AtTripEnd /\ row' = {} /\ UNCHANGED <<flushAge, hand, rowAge>> /\ hand = Nothing
    BY <1>2 DEF Callback
  <2> QED
    BY <2>1, TripEndKeepsRows
<1>3. CASE Watchdog
  <2>1. AtTripEnd /\ row' = {} /\ UNCHANGED <<flushAge, hand, rowAge>>
    BY <1>3 DEF Watchdog
  <2>2. active' => active
    BY <1>3 DEF Watchdog, WatchdogCheck, EndTrip, state
  <2> QED
    BY <2>1, <2>2, TripEndKeepsRows
<1>4. CASE TimePasses
  <2>1. /\ flushAge' = UpTo(flushAge + 1, interval_s) /\ rowAge' = UpTo(rowAge + 1, interval_s)
        /\ row' = {} /\ UNCHANGED <<buffer, hand, late, first, active>>
    BY <1>4 DEF TimePasses, Tick
  <2>2. /\ flushAge' \in 0..interval_s /\ rowAge' \in 0..interval_s
        /\ flushAge <= rowAge => flushAge' <= rowAge'
        /\ flushAge = interval_s => flushAge' = interval_s
    BY <2>1, Interval, UpToInterval, UpToOrder DEF RowsInv, UpTo
  <2> QED
    BY <2>1, <2>2 DEF RowsInv
<1>5. CASE Outside
  BY <1>5 DEF Outside, KeyOn, KeyOff, LinkDrop, state, RowsInv
<1>6. CASE Connect
  <2>1. /\ buffer' = Empty /\ flushAge' = interval_s /\ row' = {} /\ hand = Nothing
        /\ UNCHANGED <<hand, late, first, rowAge, active>>
    BY <1>6, NothingSurvives DEF Connect, LinkUp, state
  <2>2. Empty \in [Columns -> {"none", "own", "trip"}] /\ \A c \in Columns : Empty[c] = "none"
    BY DEF Empty
  <2> QED
    BY <2>1, <2>2, Interval DEF RowsInv
<1>7. ASSUME NEW c \in Columns, ReadTripId(c)
      PROVE  RowsInv'
  BY <1>7 DEF ReadTripId, RowsInv, vars, state
<1>8. CASE HandleResponse
  <2>1. /\ hand \in Columns /\ hand' = Nothing /\ late' = FALSE /\ UNCHANGED active
    BY <1>8 DEF HandleResponse, Flush, OpenWindow, Accumulate, vars, state, RowsInv
  <2>2. CASE Flush \/ OpenWindow
    <3>1. /\ flushAge' = 0 /\ rowAge' \in {0, rowAge}
          /\ buffer' = [Empty EXCEPT ![hand] = IF late THEN "trip" ELSE "own"]
      BY <2>2 DEF Flush, OpenWindow, Store
    <3>4. buffer' # Empty
      BY <2>1, <3>1 DEF Empty
    <3>5. late /\ first => first'
      BY <2>2, Zenon DEF Flush, OpenWindow
    <3>2. buffer' \in [Columns -> {"none", "own", "trip"}]
      BY <3>1 DEF Empty
    <3>3. \A c \in Columns : buffer'[c] = "trip" => late
      BY <2>1, <3>1 DEF Empty
    <3> QED
      BY <2>1, <3>1, <3>2, <3>3, <3>4, <3>5, Interval DEF RowsInv
  <2>3. CASE Accumulate
    <3>1. /\ ~(flushAge >= interval_s) /\ UNCHANGED <<flushAge, first, rowAge>>
          /\ buffer' = [buffer EXCEPT ![hand] = IF late THEN "trip" ELSE "own"]
      BY <2>3 DEF Accumulate, Store, Due
    <3>2. buffer # Empty /\ flushAge <= rowAge
      BY <3>1, Interval DEF RowsInv
    <3>3. buffer' # Empty /\ buffer' \in [Columns -> {"none", "own", "trip"}]
      BY <2>1, <3>1 DEF Empty, RowsInv
    <3>4. ASSUME NEW c \in Columns, buffer'[c] = "trip" PROVE first'
      BY <2>1, <3>1, <3>4 DEF RowsInv
    <3> QED
      BY <2>1, <3>1, <3>2, <3>3, <3>4 DEF RowsInv
  <2> QED
    BY <1>8, <2>2, <2>3 DEF HandleResponse
<1> QED
  BY <1>1, <1>2, <1>3, <1>4, <1>5, <1>6, <1>7, <1>8 DEF TablesNext

THEOREM TablesInvariant == TablesSpec => []RowsInv
BY RowsInit, RowsStep, PTL DEF TablesSpec

\* The trips of the composed system are those of TripManager: "the current
\* trip_id is preserved across reconnects" (collector.py:285), as far as the
\* collector's steps go.
THEOREM TablesImplementTrips == TablesSpec => Spec
<1>1. TablesInit => Init
  BY DEF TablesInit
<1> QED
  BY <1>1, StepOfTrips, PTL DEF TablesSpec, Spec

\* So the bound of the watchdog holds in the composed system too.
THEOREM TablesBoundedIdle == TablesSpec => []BoundedIdle
BY TablesImplementTrips, TripBoundedIdle, PTL

\* Rows hold values of their own connection and trip, but for the leftovers in
\* the first row of a trip.
THEOREM TablesRowsOwn == TablesSpec => RowsOwn
<1>1. ASSUME RowsInv, [TablesNext]_allVars, row' # row
      PROVE  "connection" \notin row' /\ ("trip" \in row' => first)
  <2>1. row' = {} \/ (Flush /\ row' = IF late THEN {"ended"} ELSE {buffer[c] : c \in Columns} \ {"none"})
    BY <1>1 DEF TablesNext, allVars, table, Callback, Watchdog, TimePasses, Outside, Connect,
                ReadTripId, HandleResponse, Flush, OpenWindow, Accumulate
  <2> QED
    BY <1>1, <2>1 DEF RowsInv
<1> QED
  BY <1>1, TablesInvariant, PTL DEF TablesSpec, RowsOwn

\* Two rows of a table are an interval apart.
THEOREM TablesRowsApart == TablesSpec => RowsApart
<1>1. ASSUME RowsInv, [TablesNext]_allVars
      PROVE  [row' # {} => rowAge >= interval_s]_allVars
  <2>1. CASE UNCHANGED allVars
    BY <2>1
  <2>2. CASE TablesNext /\ row' # {}
    <3>1. Due /\ buffer # Empty
      BY <2>2 DEF TablesNext, Callback, Watchdog, TimePasses, Outside, Connect,
                  ReadTripId, HandleResponse, Flush, OpenWindow, Accumulate
    <3> QED
      BY <1>1, <3>1, Interval DEF RowsInv, Due
  <2> QED
    BY <1>1, <2>1, <2>2
<1> QED
  BY <1>1, TablesInvariant, PTL DEF TablesSpec, RowsApart

-----------------------------------------------------------------------------
\* The rest of the types.
FlagInv ==
    /\ late \in BOOLEAN /\ first \in BOOLEAN
    /\ row \subseteq Sources \cup {"ended"}

LEMMA FlagInit == TablesInit => FlagInv
<1> SUFFICES ASSUME TablesInit
             PROVE  FlagInv
  OBVIOUS
<1>1. late \in BOOLEAN /\ first \in BOOLEAN
  BY Zenon DEF TablesInit
<1> QED
  BY <1>1 DEF TablesInit, FlagInv

LEMMA FlagStep == RowsInv /\ FlagInv /\ [TablesNext]_allVars => FlagInv'
<1> SUFFICES ASSUME RowsInv, FlagInv, [TablesNext]_allVars
             PROVE  FlagInv'
  OBVIOUS
<1>1. CASE UNCHANGED allVars
  <2>1. late' = late /\ first' = first /\ row' = row
    BY <1>1 DEF allVars, table
  <2> QED
    BY <2>1, Zenon DEF FlagInv
<1>2. CASE Callback \/ Watchdog
  <2>1. row' = {} /\ AtTripEnd
    BY <1>2 DEF Callback, Watchdog
  <2>2. late' \in BOOLEAN /\ first' \in BOOLEAN
    BY <2>1, Zenon DEF AtTripEnd, FlagInv
  <2> QED
    BY <2>1, <2>2 DEF FlagInv
<1>3. CASE TimePasses \/ Outside \/ Connect \/ \E c \in Columns : ReadTripId(c)
  <2>1. row' = {}
    BY <1>3 DEF TimePasses, Outside, Connect, ReadTripId
  <2>2. late' \in BOOLEAN /\ first' \in BOOLEAN
    BY <1>3, Zenon DEF TimePasses, Outside, Connect, ReadTripId, FlagInv
  <2> QED
    BY <2>1, <2>2 DEF FlagInv
<1>4. CASE HandleResponse
  <2>1. late' \in BOOLEAN /\ first' \in BOOLEAN
    BY <1>4, Zenon DEF HandleResponse, Flush, OpenWindow, Accumulate, FlagInv
  <2>2. row' \in {{}, {"ended"}, {buffer[c] : c \in Columns} \ {"none"}}
    BY <1>4 DEF HandleResponse, Flush, OpenWindow, Accumulate
  <2>3. {buffer[c] : c \in Columns} \ {"none"} \subseteq Sources
    BY DEF RowsInv, Sources
  <2> QED
    BY <2>1, <2>2, <2>3 DEF FlagInv
<1> QED
  BY <1>1, <1>2, <1>3, <1>4 DEF TablesNext

\* Every variable keeps its type, and only an ended trip makes a callback late.
THEOREM TablesTypeCorrect == TablesSpec => []TablesTypeOK
<1>1. TypeOK /\ RowsInv /\ FlagInv => TablesTypeOK
  BY DEF RowsInv, FlagInv, TablesTypeOK, Sources
<1>2. TablesSpec => []FlagInv
  <2>1. TablesSpec => [][TablesNext]_allVars /\ TablesInit
    BY PTL DEF TablesSpec
  <2> QED
    BY <2>1, TablesInvariant, FlagInit, FlagStep, PTL
<1> QED
  BY <1>1, <1>2, TablesInvariant, TablesImplementTrips, TripTypeCorrect, PTL

-----------------------------------------------------------------------------
\* A word, its high byte signed or not.
LEMMA WordIsInt == ASSUME NEW hi \in Int, NEW lo \in Bytes PROVE Word(hi, lo) \in Int
BY DEF Bytes, Word

\* Words are ordered as their bytes are, the high byte being signed or not.
LEMMA WordOrder ==
    ASSUME NEW hi \in Int, NEW lo \in Bytes, NEW k \in Int, NEW l \in Bytes,
           hi < k \/ (hi = k /\ lo <= l)
    PROVE  Word(hi, lo) <= Word(k, l)
BY DEF Bytes, Word

LEMMA WordOrderStrict ==
    ASSUME NEW hi \in Int, NEW lo \in Bytes, NEW k \in Int, NEW l \in Bytes, hi < k
    PROVE  Word(hi, lo) < Word(k, l)
BY DEF Bytes, Word

\* A word whose high byte stands for a negative number.
LEMMA WordBelow ==
    ASSUME NEW hi \in Int, NEW lo \in Bytes
    PROVE  Word(hi, lo) - Words = Word(hi - 256, lo)
BY DEF Bytes, Word, Words

LEMMA WordRange ==
    ASSUME NEW hi \in Bytes, NEW lo \in Bytes
    PROVE  Word(hi, lo) \in 0..Word(255, 255)
<1>1. Word(0, 0) = 0 /\ hi \in 0..255 /\ lo \in 0..255 /\ 255 \in Bytes /\ 0 \in Bytes
  BY DEF Word, Bytes
<1>2. 0 < hi \/ (0 = hi /\ 0 <= lo)
  BY <1>1
<1>3. hi < 255 \/ (hi = 255 /\ lo <= 255)
  BY <1>1
<1>4. Word(0, 0) <= Word(hi, lo)
  BY <1>1, <1>2, WordOrder
<1>5. Word(hi, lo) <= Word(255, 255)
  BY <1>1, <1>3, WordOrder
<1>6. Word(hi, lo) \in Int /\ Word(255, 255) \in Int
  BY <1>1, WordIsInt
<1> QED
  BY <1>1, <1>4, <1>5, <1>6

LEMMA SignedByte ==
    ASSUME NEW b \in Bytes
    PROVE  S8(b) \in -128..127 /\ b - S8(b) \in {0, 256}
BY DEF Bytes, S8

\* A signed word has the signed high byte.
LEMMA SignedHigh ==
    ASSUME NEW hi \in Bytes, NEW lo \in Bytes
    PROVE  S16(hi, lo) = Word(S8(hi), lo)
<1>1. hi \in Int /\ 255 \in Bytes /\ 127 \in Int /\ lo \in 0..255
  BY DEF Bytes
<1>2. CASE hi <= 127
  <2>1. hi < 127 \/ (hi = 127 /\ lo <= 255)
    BY <1>1, <1>2
  <2>2. Word(hi, lo) <= Word(127, 255)
    BY <1>1, <2>1, WordOrder
  <2>3. Word(hi, lo) \in Int /\ Word(127, 255) \in Int
    BY <1>1, WordIsInt
  <2> QED
    BY <1>1, <1>2, <2>2, <2>3 DEF S8, S16
<1>3. CASE hi > 127
  <2>1. Word(hi, lo) > Word(127, 255) /\ Word(hi, lo) \in Int
    BY <1>1, <1>3, WordOrderStrict, WordIsInt
  <2> QED
    BY <1>1, <1>3, <2>1, WordBelow DEF S8, S16
<1> QED
  BY <1>1, <1>2, <1>3

LEMMA SignedWord ==
    ASSUME NEW h \in -128..127, NEW lo \in Bytes
    PROVE  Word(h, lo) \in -Word(128, 0)..Word(127, 255)
<1>1. h \in Int /\ 0 \in Bytes /\ 255 \in Bytes /\ lo \in 0..255
  BY DEF Bytes
<1>2. -Word(128, 0) = Word(-128, 0) /\ -128 \in Int /\ 127 \in Int
  BY DEF Word
<1>3. (-128 < h \/ (h = -128 /\ 0 <= lo)) /\ (h < 127 \/ (h = 127 /\ lo <= 255))
  BY <1>1
<1>4. Word(-128, 0) <= Word(h, lo)
  BY <1>1, <1>2, <1>3, WordOrder
<1>5. Word(h, lo) <= Word(127, 255)
  BY <1>1, <1>2, <1>3, WordOrder
<1>6. Word(-128, 0) \in Int /\ Word(h, lo) \in Int /\ Word(127, 255) \in Int
  BY <1>1, <1>2, WordIsInt
<1> QED
  BY <1>2, <1>4, <1>5, <1>6

\* S8 and S16 give the number in two's complement, on every byte and word.
LEMMA SignedBytes == SignedWords
<1>1. SUFFICES ASSUME NEW hi \in Bytes, NEW lo \in Bytes
               PROVE  /\ S16(hi, lo) \in -Word(128, 0)..Word(127, 255)
                      /\ Word(hi, lo) - S16(hi, lo) \in {0, Words}
                      /\ S8(hi) \in -128..127 /\ hi - S8(hi) \in {0, 256}
  BY DEF SignedWords
<1>2. Word(hi, lo) - S16(hi, lo) \in {0, Words}
  <2>1. Word(hi, lo) \in Int /\ Words \in Int
    BY DEF Word, Words, Bytes
  <2> QED
    BY <2>1 DEF S16
<1> QED
  BY <1>2, SignedByte, SignedHigh, SignedWord

\* The range that every formula over two bytes keeps.
LEMMA SensorRange ==
    /\ \A hi, lo \in Bytes : Word(hi, lo) \in WordValues
    /\ \A hi, lo \in Bytes : Word(hi, lo) - Word(114, 103) \in WordValues
    /\ \A hi, lo \in Bytes : S16(hi, lo) \in WordValues
    /\ \A hi, lo \in Bytes : 256 * S8(hi) + lo \in WordValues
<1>1. /\ Word(114, 103) \in Nat /\ Word(128, 0) \in Nat /\ Word(114, 103) <= Word(128, 0)
      /\ Word(127, 255) \in Nat /\ Word(255, 255) \in Nat /\ Word(127, 255) <= Word(255, 255)
  BY DEF Word
<1>2. ASSUME NEW hi \in Bytes, NEW lo \in Bytes
      PROVE  /\ Word(hi, lo) \in WordValues
             /\ Word(hi, lo) - Word(114, 103) \in WordValues
  BY <1>1, WordRange DEF WordValues
<1>3. ASSUME NEW h \in -128..127, NEW lo \in Bytes
      PROVE  Word(h, lo) \in WordValues
  BY <1>1, SignedWord DEF WordValues
<1>4. ASSUME NEW hi \in Bytes, NEW lo \in Bytes
      PROVE  /\ S16(hi, lo) \in WordValues
             /\ 256 * S8(hi) + lo \in WordValues
  <2>1. PICK h \in -128..127 : h = S8(hi)
    BY SignedByte
  <2>2. Word(h, lo) = 256 * h + lo
    BY DEF Word, Bytes
  <2> QED
    BY <1>3, <2>1, <2>2, SignedHigh
<1> QED
  BY <1>2, <1>4

\* How many data bytes each answer has.
LEMMA DataLengths ==
    ASSUME NEW pid \in Pids22
    PROVE  /\ DataBytes[pid] \in 1..4
           /\ pid \in {"vct_intake_deg"} => DataBytes[pid] = 4
           /\ pid \notin {"cac_temp_c", "trans_gear", "tcc_ratio"} => DataBytes[pid] >= 2
BY DEF Pids22, DataBytes

\* A frame of any bytes and of any length: the decoder that _mode22 makes gives a
\* value only for a positive answer that is long enough, and then one of the
\* sensor's values.
THEOREM Mode22Decodes ==
    ASSUME NEW pid \in Pids22, NEW data \in Seq(Bytes)
    PROVE  \/ Mode22(pid, data) = Null
           \/ /\ Byte(data, 1) = 98 /\ Len(data) >= 4 + DataBytes[pid]
              /\ Mode22(pid, data) \in ValuesOf(pid)
<1> DEFINE a == data[5]
           b == data[6]
<1>1. SUFFICES ASSUME Byte(data, 1) = 98, Len(data) >= 4 + DataBytes[pid], Formula(pid, data) # Null
               PROVE  Formula(pid, data) \in ValuesOf(pid)
  <2>1. Len(data) \in Nat /\ DataBytes[pid] \in Nat
    BY DataLengths, LenProperties
  <2> QED
    BY <2>1 DEF Mode22
<1>2. /\ Len(data) \in Nat /\ Len(data) >= 5
      /\ pid \notin {"cac_temp_c", "trans_gear", "tcc_ratio"} => Len(data) >= 6
      /\ pid = "vct_intake_deg" => Len(data) >= 8
  BY <1>1, DataLengths, LenProperties
<1>3. a \in Bytes /\ Byte(data, 4) = a /\ Byte(data, 5) = b
  BY <1>2, ElementOfSeq DEF Byte
<1>4. CASE pid = "cac_temp_c"
  <2>1. Formula(pid, data) = S8(a)
    BY <1>3, <1>4 DEF Formula
  <2> QED
    <3>1. ValuesOf(pid) = -128..127
      BY <1>4 DEF ValuesOf
    <3>2. ASSUME NEW x \in Bytes PROVE S8(x) \in -128..127
      BY SignedByte
    <3>3. a \in Bytes
      BY <1>3
    <3>4. S8(a) \in ValuesOf(pid)
      BY <3>1, <3>2, <3>3
    <3> QED
      BY <2>1, <3>4
<1>5. CASE pid = "trans_gear"
  <2>1. Formula(pid, data) = IF a \in 1..8 THEN a ELSE Null
    BY <1>3, <1>5 DEF Formula
  <2> QED
    BY <1>1, <1>5, <2>1 DEF ValuesOf
<1>6. CASE pid = "tcc_ratio"
  <2>1. Formula(pid, data) = IF a = TCM_PARK_STATE THEN Null ELSE a
    BY <1>3, <1>6 DEF Formula, tcm_drive_value
  <2> QED
    BY <1>1, <1>3, <1>6, <2>1 DEF ValuesOf
<1>7. CASE pid \notin {"cac_temp_c", "trans_gear", "tcc_ratio"}
  <2>1. ValuesOf(pid) = WordValues
    BY <1>7 DEF ValuesOf
  <2>2. b \in Bytes
    BY <1>2, <1>7, ElementOfSeq
  <2>3. CASE pid = "knock_retard_deg"
    <3>1. Formula(pid, data) = 256 * S8(a) + b
      BY <1>3, <2>3 DEF Formula
    <3> QED
      BY <1>3, <2>1, <2>2, <3>1, SensorRange
  <2>4. CASE pid = "vct_intake_deg"
    <3>1. Formula(pid, data) = S16(data[7], data[8])
      BY <2>4 DEF Formula, Byte
    <3>2. data[7] \in Bytes /\ data[8] \in Bytes
      BY <1>2, <2>4, ElementOfSeq
    <3> QED
      BY <2>1, <3>1, <3>2, SensorRange
  <2>5. CASE pid = "vct_exhaust_deg"
    <3>1. Formula(pid, data) = Word(a, b) - Word(114, 103)
      BY <1>3, <2>5 DEF Formula
    <3> QED
      BY <1>3, <2>1, <2>2, <3>1, SensorRange
  <2>6. CASE pid = "trans_temp_c"
    <3>1. Formula(pid, data) = S16(a, b)
      BY <1>3, <2>6 DEF Formula
    <3> QED
      BY <1>3, <2>1, <2>2, <3>1, SensorRange
  <2>7. CASE pid \notin {"knock_retard_deg", "vct_intake_deg", "vct_exhaust_deg", "trans_temp_c"}
    <3>1. Formula(pid, data) = Word(a, b)
      BY <1>3, <1>7, <2>7 DEF Formula
    <3> QED
      BY <1>3, <2>1, <2>2, <3>1, SensorRange
  <2> QED
    BY <2>3, <2>4, <2>5, <2>6, <2>7
<1> QED
  BY <1>4, <1>5, <1>6, <1>7

\* A frame that is cut off.
LEMMA CutOff ==
    ASSUME NEW s \in Seq(Bytes), NEW n \in Nat, n <= Len(s)
    PROVE  /\ SubSeq(s, 1, n) \in Seq(Bytes) /\ Len(SubSeq(s, 1, n)) = n
           /\ \A i \in 1..n : SubSeq(s, 1, n)[i] = s[i]
<1>1. Len(s) \in Nat
  BY LenProperties
<1>2. \A i \in 1..n : s[i] \in Bytes
  BY <1>1, ElementOfSeq
<1> QED
  BY <1>1, <1>2, SubSeqProperties

\* The frames of the run.
LEMMA EdgesAreBytes == Edges \subseteq Bytes
BY DEF Edges, Bytes, TCM_PARK_STATE

LEMMA FrameBytes ==
    ASSUME NEW body \in Bodies, NEW n \in 0..8, NEW mode \in Bytes
    PROVE  /\ Frame(mode, body, n) \in Seq(Bytes) /\ Len(Frame(mode, body, n)) = n
           /\ n >= 2 => Byte(Frame(mode, body, n), 1) = mode
           /\ n >= 3 => Byte(Frame(mode, body, n), 2) = 0
<1>1. body \in Seq(Bytes) /\ Len(body) = 4
  <2>1. PICK x, y, z \in Edges : body = <<x, y, z, y>>
    BY DEF Bodies
  <2> QED
    BY <2>1, EdgesAreBytes
<1>2. PICK head : head = <<8, mode, 0, 0>>
  OBVIOUS
<1>3. head \in Seq(Bytes) /\ Len(head) = 4 /\ head[2] = mode /\ head[3] = 0
  <2>1. 8 \in Bytes /\ 0 \in Bytes
    BY DEF Bytes
  <2> QED
    BY <1>2, <2>1
<1>4. PICK whole : whole = head \o body
  OBVIOUS
<1>5. /\ whole \in Seq(Bytes) /\ Len(whole) = 8
      /\ whole[2] = head[2] /\ whole[3] = head[3]
  <2>1. /\ head \o body \in Seq(Bytes) /\ Len(head \o body) = Len(head) + Len(body)
        /\ \A i \in 1..Len(head) + Len(body) :
              (head \o body)[i] = IF i <= Len(head) THEN head[i] ELSE body[i - Len(head)]
    BY <1>1, <1>3, ConcatProperties
  <2>2. whole \in Seq(Bytes) /\ Len(whole) = 8
    BY <1>1, <1>3, <1>4, <2>1
  <2>3. \A i \in 1..8 : whole[i] = IF i <= 4 THEN head[i] ELSE body[i - 4]
    BY <1>1, <1>3, <1>4, <2>1
  <2> QED
    BY <2>2, <2>3
<1>6. PICK frame : frame = SubSeq(whole, 1, n)
  OBVIOUS
<1>7. frame \in Seq(Bytes) /\ Len(frame) = n /\ \A i \in 1..n : frame[i] = whole[i]
  BY <1>5, <1>6, CutOff
<1>8. frame = Frame(mode, body, n)
  BY <1>2, <1>4, <1>6 DEF Frame
<1>9. /\ n >= 2 => frame[2] = mode
      /\ n >= 3 => frame[3] = 0
  BY <1>3, <1>5, <1>7
<1> QED
  BY <1>7, <1>8, <1>9 DEF Byte

LEMMA AllFramesDecode == FramesDecode
<1>1. ASSUME NEW pid \in Pids22, NEW body \in Bodies, NEW n \in 0..8, NEW mode \in {98, 127}
      PROVE  LET value == Mode22(pid, Frame(mode, body, n)) IN
             value = Null \/ (mode = 98 /\ n >= 4 + DataBytes[pid] /\ value \in ValuesOf(pid))
  <2>1. mode \in Bytes /\ DataBytes[pid] \in 1..4
    BY DataLengths DEF Bytes
  <2>2. PICK frame : frame = Frame(mode, body, n)
    OBVIOUS
  <2>3. frame \in Seq(Bytes) /\ Len(frame) = n /\ (n >= 2 => Byte(frame, 1) = mode)
    BY <2>1, <2>2, FrameBytes
  <2>4. \/ Mode22(pid, frame) = Null
        \/ /\ Byte(frame, 1) = 98 /\ Len(frame) >= 4 + DataBytes[pid]
           /\ Mode22(pid, frame) \in ValuesOf(pid)
    BY <2>3, Mode22Decodes
  <2> QED
    BY <2>1, <2>2, <2>3, <2>4
<1>2. ASSUME NEW body \in Bodies, NEW n \in 0..8
      PROVE  Mode06(Frame(70, body, n)) = Null
  <2>1. 70 \in Bytes
    BY DEF Bytes
  <2>2. Len(Frame(70, body, n)) = n /\ (n >= 3 => Byte(Frame(70, body, n), 2) = 0)
    BY <2>1, FrameBytes
  <2> QED
    BY <2>2 DEF Mode06
<1>3. ASSUME NEW a \in Edges, NEW b \in Edges, NEW n \in 0..8
      PROVE  Mode06(SubSeq(<<16, 37, 70, 162, 11, 36, a, b>>, 1, n)) = IF n = 8 THEN Word(a, b) ELSE Null
  <2> DEFINE whole == <<16, 37, 70, 162, 11, 36, a, b>>
  <2>1. whole \in Seq(Bytes) /\ Len(whole) = 8
    BY DEF Edges, Bytes, TCM_PARK_STATE
  <2>2. /\ Len(SubSeq(whole, 1, n)) = n
        /\ \A i \in 1..n : SubSeq(whole, 1, n)[i] = whole[i]
    BY <2>1, CutOff
  <2>3. CASE n = 8
    <3>1. /\ SubSeq(whole, 1, n)[3] = 70 /\ SubSeq(whole, 1, n)[5] = 11
          /\ SubSeq(whole, 1, n)[7] = a /\ SubSeq(whole, 1, n)[8] = b
      BY <2>2, <2>3
    <3> QED
      BY <2>2, <2>3, <3>1 DEF Mode06, Byte
  <2>4. CASE n # 8
    BY <2>2, <2>4 DEF Mode06
  <2> QED
    BY <2>3, <2>4
<1> QED
  BY <1>1, <1>2, <1>3 DEF FramesDecode

\* A callback gets a value that the decoders made of a frame: they are right on
\* every word and safe on every frame, also one that was cut off.
THEOREM TripDecodersSound == TablesSpec => []DecodersSound
<1>1. DecodersSound
  BY SignedBytes, AllFramesDecode DEF DecodersSound
<1> QED
  BY <1>1, PTL
=============================================================================
