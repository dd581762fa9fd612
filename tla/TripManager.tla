---------------------------- MODULE TripManager ----------------------------
(***************************************************************************)
(* pi/src/trip.py: the trip state machine, fed by the RPM and voltage      *)
(* callbacks of the OBD polling thread and by its own watchdog thread.     *)
(* All of them hold _lock, so each is one action.  A monotonic timestamp   *)
(* is kept as its age: Tick lets one unit of time pass, and ages stop at   *)
(* MaxAge, beyond which the code makes no difference.  Each unit stands    *)
(* for some seconds; the constants keep the order of the source's values.  *)
(***************************************************************************)
EXTENDS Integers

CONSTANTS
    VOLTAGE_DROP_DURATION_S,  \* 5
    RPM_ZERO_DURATION_S,      \* 30
    TRIP_WATCHDOG_TIMEOUT_S,  \* 300
    TRIP_WATCHDOG_POLL_S,     \* 30
    Drops,     \* the Bluetooth link may drop
    Glitches   \* a poll of a running engine may be late, empty or read rpm=0

ASSUME DurationAssumption ==
    /\ VOLTAGE_DROP_DURATION_S \in Nat
    /\ RPM_ZERO_DURATION_S \in Nat
    /\ TRIP_WATCHDOG_TIMEOUT_S \in Nat
    /\ TRIP_WATCHDOG_POLL_S \in Nat \ {0}
    /\ VOLTAGE_DROP_DURATION_S <= RPM_ZERO_DURATION_S
    /\ RPM_ZERO_DURATION_S <= TRIP_WATCHDOG_TIMEOUT_S
    /\ Drops \in BOOLEAN /\ Glitches \in BOOLEAN

MaxAge == TRIP_WATCHDOG_TIMEOUT_S + TRIP_WATCHDOG_POLL_S + 1
NoAge  == -1
Ages   == 0..MaxAge \cup {NoAge}

VARIABLES
    active,    \* current_trip_id is not None
    zeroAge,   \* age of _rpm_zero_since
    voltage,   \* _last_voltage: "none", "low" (< 12.5), "rest" or "high" (> 13.0)
    voltAge,   \* age of _last_voltage_mono
    idleAge,   \* age of _last_activity_mono
    pollAge,   \* time since the last watchdog check
    engine,    \* the engine runs
    link,      \* the OBD link is up
    polled     \* the RPM callback came in this unit of time

state == <<active, zeroAge, voltage, voltAge, idleAge>>
world == <<engine, link>>
vars  == <<state, pollAge, world, polled>>

TypeOK ==
    /\ active \in BOOLEAN
    /\ zeroAge \in Ages /\ voltAge \in Ages /\ idleAge \in Ages
    /\ voltage \in {"none", "low", "rest", "high"}
    /\ pollAge \in 0..TRIP_WATCHDOG_POLL_S
    /\ engine \in BOOLEAN /\ link \in BOOLEAN 
    /\ polled \in BOOLEAN

Init ==
    /\ active = FALSE
    /\ zeroAge = NoAge /\ voltage = "none" /\ voltAge = NoAge /\ idleAge = NoAge
    /\ pollAge = 0
    /\ engine = FALSE /\ link = FALSE
    /\ polled = FALSE

-----------------------------------------------------------------------------
(* The car and the clock.                                                  *)

KeyOn ==
    /\ ~engine /\ engine' = TRUE
    /\ UNCHANGED <<state, pollAge, link, polled>>

KeyOff ==
    /\ engine /\ engine' = FALSE
    /\ UNCHANGED <<state, pollAge, link, polled>>

LinkUp ==
    /\ ~link /\ link' = TRUE
    /\ UNCHANGED <<state, pollAge, engine, polled>>

LinkDrop ==
    /\ Drops
    /\ link /\ link' = FALSE
    /\ UNCHANGED <<state, pollAge, engine, polled>>

Older(age) == IF age \in {NoAge, MaxAge} THEN age ELSE age + 1

\* Mutant: the watchdog thread wakes up whenever it likes.
TickOverslept ==
    /\ link /\ ~Glitches => polled
    /\ polled' = FALSE
    /\ pollAge' = pollAge + 1
    /\ zeroAge' = Older(zeroAge) /\ voltAge' = Older(voltAge) /\ idleAge' = Older(idleAge)
    /\ UNCHANGED <<active, voltage, world>>

\* Time passes; the watchdog's wait is never overslept.
Tick ==
    /\ pollAge < TRIP_WATCHDOG_POLL_S
    /\ link /\ ~Glitches => polled
    /\ polled' = FALSE
    /\ pollAge' = pollAge + 1
    /\ zeroAge' = Older(zeroAge) /\ voltAge' = Older(voltAge) /\ idleAge' = Older(idleAge)
    /\ UNCHANGED <<active, voltage, world>>

-----------------------------------------------------------------------------
(* The callbacks.                                                          *)

\* _engine_off_confirmed: a low voltage, or a voltage PID that has gone silent.
EngineOffConfirmed ==
    \/ voltage = "low"
    \/ voltAge # NoAge /\ voltAge >= RPM_ZERO_DURATION_S

\* _end_trip: every value of the session is dropped.
EndTrip ==
    /\ active' = FALSE
    /\ zeroAge' = NoAge
    /\ voltage' = "none" /\ voltAge' = NoAge
    /\ idleAge' = NoAge

\* Mutant: rpm > 0 does not stop the zero timer.
OnRpmKeepsTimer ==
    /\ link /\ engine
    /\ idleAge' = 0
    /\ polled' = TRUE
    /\ active' = (active \/ voltage = "high")
    /\ UNCHANGED <<zeroAge, voltage, voltAge, pollAge, world>>

\* on_rpm with rpm > 0; _start_trip once the alternator is seen running.
OnRpmRunning ==
    /\ link /\ engine
    /\ zeroAge' = NoAge
    /\ idleAge' = 0
    /\ polled' = TRUE
    /\ active' = (active \/ voltage = "high")
    /\ UNCHANGED <<voltage, voltAge, pollAge, world>>

\* The zero timer as on_rpm reads it: started now unless it runs.
Elapsed == IF zeroAge = NoAge THEN 0 ELSE zeroAge

\* Mutant: the standard end does not ask for the voltage.
EndDueOnRpmAlone ==
    \/ voltage = "low" /\ Elapsed >= VOLTAGE_DROP_DURATION_S
    \/ Elapsed >= RPM_ZERO_DURATION_S

EndDue ==
    \/ voltage = "low" /\ Elapsed >= VOLTAGE_DROP_DURATION_S
    \/ Elapsed >= RPM_ZERO_DURATION_S /\ EngineOffConfirmed

\* on_rpm with rpm = 0 or a null response.
OnRpmZero ==
    /\ link /\ (engine => Glitches)
    /\ \/ /\ active /\ EndDue
          /\ EndTrip
       \/ /\ ~(active /\ EndDue)
          /\ zeroAge' = Elapsed
          /\ UNCHANGED <<active, voltage, voltAge, idleAge>>
    /\ polled' = TRUE
    /\ UNCHANGED <<pollAge, world>>

\* on_voltage with a value; a null response changes nothing.  A failing alternator
\* leaves the voltage of a running engine low.
OnVoltage ==
    /\ link
    /\ voltage' \in IF engine THEN {"high", "rest", "low"} ELSE {"low", "rest"}
    /\ voltAge' = 0
    /\ UNCHANGED <<active, zeroAge, idleAge, pollAge, world, polled>>

\* Mutant: the watchdog looks at the zero timer, which freezes with the callbacks.
WatchdogOnZeroTimer ==
    /\ pollAge = TRIP_WATCHDOG_POLL_S
    /\ pollAge' = 0
    /\ \/ /\ active /\ zeroAge # NoAge /\ zeroAge >= TRIP_WATCHDOG_TIMEOUT_S
          /\ EndTrip
       \/ /\ ~(active /\ zeroAge # NoAge /\ zeroAge >= TRIP_WATCHDOG_TIMEOUT_S)
          /\ UNCHANGED state
    /\ UNCHANGED <<world, polled>>

\* _watchdog_loop wakes up and runs _watchdog_check.
WatchdogCheck ==
    /\ pollAge = TRIP_WATCHDOG_POLL_S
    /\ pollAge' = 0
    /\ \/ /\ active /\ idleAge # NoAge /\ idleAge >= TRIP_WATCHDOG_TIMEOUT_S
          /\ EndTrip
       \/ /\ ~(active /\ idleAge # NoAge /\ idleAge >= TRIP_WATCHDOG_TIMEOUT_S)
          /\ UNCHANGED state
    /\ UNCHANGED <<world, polled>>

Next ==
    \/ KeyOn \/ KeyOff \/ LinkUp \/ LinkDrop \/ Tick
    \/ OnRpmRunning \/ OnRpmZero \/ OnVoltage
    \/ WatchdogCheck

Spec == Init /\ [][Next]_vars

\* The clock runs, and the watchdog thread with it.
FairSpec == Spec /\ WF_vars(Tick) /\ WF_vars(WatchdogCheck)

-----------------------------------------------------------------------------
\* The watchdog keeps drives apart (trip.py:63-67): however the callbacks
\* freeze, no trip stays open for longer than the timeout and one poll without
\* engine activity, so two drives further apart never share a trip.
BoundedIdle ==
    active => idleAge \in 0..TRIP_WATCHDOG_TIMEOUT_S + TRIP_WATCHDOG_POLL_S

\* The timer that ends a trip never counts time from before the last rpm > 0,
\* and a silent voltage PID is only ever one that spoke in this session.
TimersHonest ==
    /\ active => zeroAge <= idleAge
    /\ voltage = "none" <=> voltAge = NoAge
    /\ active => voltage # "none"

Ends == active /\ ~active'

\* No false end: a trip outlives every stop of the engine that is shorter than
\* the fast limit, and every one shorter than the standard limit unless the
\* voltage was seen low; until the watchdog's timeout it ends only on a low
\* or a silent voltage (a red light keeps it high).
NoEarlyEnd ==
    [][Ends => /\ idleAge >= VOLTAGE_DROP_DURATION_S
               /\ idleAge < RPM_ZERO_DURATION_S => voltage = "low"
               /\ idleAge < TRIP_WATCHDOG_TIMEOUT_S => EngineOffConfirmed]_vars

\* Once the engine is off for good the trip ends, whatever the link does.
TripsEnd == active /\ ~engine ~> ~active \/ engine
=============================================================================
