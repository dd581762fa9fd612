--------------------------------- MODULE Led ---------------------------------
(***************************************************************************)
(* pi/src/led_status.py: the process that shows the state of the collector *)
(* on two LEDs.  The world it looks at is a record of signals that may     *)
(* change at any moment, also between two reads of one poll.  Time is      *)
(* counted in polls.                                                       *)
(***************************************************************************)
EXTENDS Integers

CONSTANTS
    SLOW_POLLS,   \* LED_SLOW_POLL_S in units of LED_POLL_S (15)
    Worlds,       \* the states of the world
    MaxErrors     \* bound: exceptions, failing SELECTs, deaths of the process

\* hot: the CPU; low_drive: little space, or rtc_ok = 0 in its file.
Signals == [collector_active : BOOLEAN, usb_mounted : BOOLEAN, bt_adapter_present : BOOLEAN,
            data_fresh : BOOLEAN, trip_active : BOOLEAN, hot : BOOLEAN, low_drive : BOOLEAN,
            sync_behind : BOOLEAN, dtc_present : BOOLEAN]

ASSUME LedAssumption ==
    /\ SLOW_POLLS \in Nat \ {0} /\ MaxErrors \in Nat
    /\ Worlds \subseteq Signals /\ Worlds # {}

VARIABLES
    world,     \* what is the case
    pc,        \* the position in run: "wait", "trip", "rest", "apply"; or "down"
    seen,      \* the Signals read so far in this poll
    full,      \* this poll refreshes the slow signals
    slow,      \* SlowSignals, or None
    slowAge,   \* polls since they were read
    cur,       \* LedDriver._cur_a and _cur_b
    shown,     \* what the LEDs show
    steady,    \* history: whole polls since the world changed or one failed
    whole,     \* history: neither has happened since this poll began
    halfSet,   \* history: LEDs that a failing _set changed, until they are set again
    errors

polling == <<pc, seen, full, slow, slowAge>>
driver  == <<cur, shown, halfSet>>
Leds    == {1, 2}
vars    == <<world, polling, driver, steady, whole, errors>>

SlowOf(s) == [known |-> TRUE, collector_active |-> s.collector_active, sync_behind |-> s.sync_behind]
None      == [known |-> FALSE, collector_active |-> FALSE, sync_behind |-> FALSE]
Unset     == "unset"
ColoursA  == {"off", "red", "amber", "green", "blue"}
ColoursB  == {"off", "magenta", "blue", "blinking green"}
Unlit     == <<"off", "off">>

Unread == [collector_active |-> FALSE, usb_mounted |-> FALSE, bt_adapter_present |-> FALSE,
           data_fresh |-> FALSE, trip_active |-> FALSE, pi_warning |-> FALSE,
           sync_behind |-> FALSE, dtc_present |-> FALSE]

TypeOK ==
    /\ world \in Worlds
    /\ pc \in {"wait", "trip", "rest", "apply", "down"}
    /\ seen \in [DOMAIN Unread -> BOOLEAN] /\ full \in BOOLEAN
    /\ slow \in [DOMAIN None -> BOOLEAN] /\ slowAge \in 0..SLOW_POLLS
    /\ cur \in (ColoursA \cup {Unset}) \X (ColoursB \cup {Unset})
    /\ shown \in ColoursA \X ColoursB
    /\ steady \in 0..SLOW_POLLS /\ whole \in BOOLEAN /\ halfSet \subseteq Leds
    /\ errors \in 0..MaxErrors

Init ==
    /\ world \in Worlds
    /\ pc = "down" /\ seen = Unread /\ full = FALSE
    /\ slow = None /\ slowAge = 0
    /\ cur = <<Unset, Unset>> /\ shown = Unlit
    /\ steady = 0 /\ whole = FALSE /\ halfSet = {}
    /\ errors = 0

-----------------------------------------------------------------------------
(* evaluate_state.                                                         *)

LedA(s) ==
    IF ~s.collector_active THEN "off"
    ELSE IF ~s.usb_mounted \/ ~s.bt_adapter_present \/ (s.trip_active /\ ~s.data_fresh) THEN "red"
    ELSE IF s.pi_warning THEN "amber"
    ELSE IF s.data_fresh THEN "green"
    ELSE "blue"

LedB(s) ==
    IF s.dtc_present THEN "magenta"
    ELSE IF s.sync_behind THEN "blue"
    ELSE IF s.trip_active THEN "blinking green"
    ELSE "off"

evaluate_state(s) == <<LedA(s), LedB(s)>>

-----------------------------------------------------------------------------
Disturbed == steady' = 0 /\ whole' = FALSE

WorldChanges ==
    /\ world' \in Worlds \ {world}
    /\ Disturbed
    /\ UNCHANGED <<polling, driver, errors>>

Fault ==
    /\ errors < MaxErrors /\ errors' = errors + 1
    /\ Disturbed

\* A new driver switches the LEDs off; nothing is cached.
Start ==
    /\ pc = "down" /\ pc' = "wait"
    /\ slow' = None /\ slowAge' = 0
    /\ cur' = <<Unset, Unset>> /\ shown' = Unlit /\ halfSet' = {}
    /\ UNCHANGED <<world, seen, full, steady, whole, errors>>

\* The process dies; systemd starts another.  The pins may keep their state.
Die ==
    /\ pc # "down" /\ pc' = "down"
    /\ Fault
    /\ seen' = Unread /\ full' = FALSE
    /\ shown' \in {shown, Unlit}
    /\ UNCHANGED <<world, slow, slowAge, cur, halfSet>>

-----------------------------------------------------------------------------
(* One turn of LedStatus.run.                                              *)

\* Whether to refresh (a slow poll makes it happen after fewer polls), then the
\* mount and, in a read transaction of its own, the newest obd_1s row.
StartPoll ==
    /\ pc = "wait" /\ pc' = "trip"
    /\ full' \in {f \in BOOLEAN : ~slow.known \/ slowAge >= SLOW_POLLS => f}
    /\ seen' = [Unread EXCEPT !.usb_mounted = world.usb_mounted,
                              !.data_fresh = world.usb_mounted /\ world.data_fresh]
    /\ whole' = TRUE
    /\ UNCHANGED <<world, slow, slowAge, driver, steady, errors>>

\* Mutant: a recent DTC is looked for with the slow signals.
ReadTripSlowly ==
    /\ pc = "trip" /\ pc' = "rest"
    /\ seen' = [seen EXCEPT
          !.trip_active = seen.usb_mounted /\ world.trip_active,
          !.dtc_present = full /\ seen.usb_mounted /\ world.dtc_present,
          !.sync_behind = IF full THEN seen.usb_mounted /\ world.sync_behind ELSE slow.sync_behind]
    /\ UNCHANGED <<world, full, slow, slowAge, driver, steady, whole, errors>>

\* The other SELECTs.
ReadTrip ==
    /\ pc = "trip" /\ pc' = "rest"
    /\ seen' = [seen EXCEPT
          !.trip_active = seen.usb_mounted /\ world.trip_active,
          !.dtc_present = seen.usb_mounted /\ world.dtc_present,
          !.sync_behind = IF full THEN seen.usb_mounted /\ world.sync_behind ELSE slow.sync_behind]
    /\ UNCHANGED <<world, full, slow, slowAge, driver, steady, whole, errors>>

\* sqlite3.Error in some of the SELECTs, the first one included, or in the
\* opening: their signals are False.
ReadTripFails ==
    /\ pc = "trip" /\ pc' = "rest"
    /\ seen.usb_mounted
    /\ Fault
    /\ \E done \in SUBSET {"fresh", "trip", "dtc", "backlog"} :
         seen' = [seen EXCEPT
            !.data_fresh  = @ /\ "fresh" \in done,
            !.trip_active = world.trip_active /\ "trip" \in done,
            !.dtc_present = world.dtc_present /\ "dtc" \in done,
            !.sync_behind = IF full THEN world.sync_behind /\ "backlog" \in done ELSE slow.sync_behind]
    /\ UNCHANGED <<world, full, slow, slowAge, driver>>

\* _pi_warning.
PiWarning == world.hot \/ (world.usb_mounted /\ world.low_drive)

\* Mutant: the state of the unit is read once.
ReadRestOnce ==
    /\ pc = "rest" /\ pc' = "apply"
    /\ seen' = [seen EXCEPT
          !.collector_active = IF slow.known THEN slow.collector_active ELSE world.collector_active,
          !.bt_adapter_present = world.bt_adapter_present,
          !.pi_warning = PiWarning]
    /\ slow' = IF full THEN SlowOf(seen') ELSE slow
    /\ slowAge' = IF full THEN 0 ELSE slowAge
    /\ UNCHANGED <<world, full, driver, steady, whole, errors>>

\* systemctl is-active, the adapter, _pi_warning; run keeps the slow signals.
ReadRest ==
    /\ pc = "rest" /\ pc' = "apply"
    /\ seen' = [seen EXCEPT
          !.collector_active = IF full THEN world.collector_active ELSE slow.collector_active,
          !.bt_adapter_present = world.bt_adapter_present,
          !.pi_warning = PiWarning]
    /\ slow' = IF full THEN SlowOf(seen') ELSE slow
    /\ slowAge' = IF full THEN 0 ELSE slowAge
    /\ UNCHANGED <<world, full, driver, steady, whole, errors>>

AtMost(n, bound) == IF n > bound THEN bound ELSE n

\* The thread waits LED_POLL_S.
EndPoll ==
    /\ pc' = "wait"
    /\ seen' = Unread /\ full' = FALSE
    /\ slowAge' = AtMost(slowAge + 1, SLOW_POLLS)
    /\ UNCHANGED <<world, slow>>

\* A read raises: nothing is shown, nothing is cached.
ReadRaises ==
    /\ pc \in {"trip", "rest"}
    /\ Fault
    /\ EndPoll
    /\ UNCHANGED driver

\* The LEDs whose target is not the last one set.
Due(target) == {led \in Leds : target[led] # cur[led]}

\* The LEDs after those in S were set.
Set(S, target) == [led \in Leds |-> IF led \in S THEN target[led] ELSE shown[led]]

\* LedDriver.apply.
Apply ==
    /\ pc = "apply"
    /\ cur' = evaluate_state(seen)
    /\ shown' = Set(Due(cur'), cur')
    /\ halfSet' = halfSet \ Due(cur')
    /\ steady' = IF whole THEN AtMost(steady + 1, SLOW_POLLS) ELSE 0
    /\ EndPoll
    /\ UNCHANGED <<whole, errors>>

\* The LEDs that apply sets before the given one.
Before(led) == {l \in Leds : l < led}

\* Mutant: _cur_a and _cur_b are assigned before the LEDs are set.
ApplyForgets ==
    /\ pc = "apply"
    /\ LET target == evaluate_state(seen) IN
       \E led \in Due(target) :
          /\ cur' = target
          /\ shown' = Set(Due(target) \cap Before(led), target)
          /\ halfSet' = halfSet \ (Due(target) \cap Before(led))
    /\ Fault
    /\ EndPoll

\* _set raises for one of the LEDs, before or after it has changed.
ApplyRaises ==
    /\ pc = "apply"
    /\ LET target == evaluate_state(seen) IN
       \E led \in Due(target) :
          LET done == Due(target) \cap Before(led) IN
          /\ cur' = [l \in Leds |-> IF l \in Before(led) THEN target[l] ELSE cur[l]]
          /\ \/ shown' = Set(done, target) /\ halfSet' = halfSet \ done
             \/ shown' = Set(done \cup {led}, target) /\ halfSet' = (halfSet \ done) \cup {led}
    /\ Fault
    /\ EndPoll

Run  == StartPoll \/ ReadTrip \/ ReadRest \/ Apply
Next == WorldChanges \/ Start \/ Die \/ Run \/ ReadTripFails \/ ReadRaises \/ ApplyRaises

Spec == Init /\ [][Next]_vars

\* The loop and systemd go on, whatever failed.
FairSpec == Spec /\ WF_vars(Start) /\ WF_vars(Run)

-----------------------------------------------------------------------------
\* The world as the LEDs' legend has it: what is on an absent drive does not count.
Real == [collector_active |-> world.collector_active,
         usb_mounted |-> world.usb_mounted,
         bt_adapter_present |-> world.bt_adapter_present,
         pi_warning |-> PiWarning,
         data_fresh  |-> world.usb_mounted /\ world.data_fresh,
         trip_active |-> world.usb_mounted /\ world.trip_active,
         sync_behind |-> world.usb_mounted /\ world.sync_behind,
         dtc_present |-> world.usb_mounted /\ world.dtc_present]

Shows(s) == \A led \in Leds \ halfSet : shown[led] = evaluate_state(s)[led]

\* The LEDs come to show what is the case after at most SLOW_POLLS polls of an
\* unchanged world, whatever was cached, half read or left by a failed poll.
\* (And every variable has its type.)
\* Excepted is an LED that a failing _set changed although it raised: apply
\* does not set it again before its target differs from the one before.
ShowsTheWorld == TypeOK /\ (steady = SLOW_POLLS => Shows(Real))

\* "The fast signals are always read so the LEDs stay responsive"
\* (led_status.py:282): after one whole poll no fault, trip or DTC is hidden by
\* a cached value; only the two slow signals may be old.
FastSignalsFresh ==
    pc = "wait" /\ steady >= 1 => Shows(
        [Real EXCEPT !.collector_active = slow.collector_active, !.sync_behind = slow.sync_behind])

\* "Never let a transient read error kill the daemon" (led_status.py:399): in a
\* world that stays as it is, the LEDs end up right and stay so.
Settles == \A w \in Worlds : <>[](world = w) => <>[]Shows(Real)
=============================================================================
