----------------------------- MODULE Led_proofs ------------------------------
(***************************************************************************)
(* The LEDs for every SLOW_POLLS, every set of worlds and any number of    *)
(* errors.  ShowsTheWorld is not inductive: what the LEDs will show is in  *)
(* the signals read so far and in the cached slow ones, and how old these  *)
(* are decides whether the world may have changed since.                   *)
(***************************************************************************)
EXTENDS Led, TLAPS

\* The cached slow signals are those of the world.
SlowRight ==
    /\ slow.collector_active = Real.collector_active
    /\ slow.sync_behind = Real.sync_behind

\* What a poll that trusts the cache takes for the world.
Semi == [Real EXCEPT !.collector_active = slow.collector_active, !.sync_behind = slow.sync_behind]

\* Polls are only counted while they are whole.
CountInv ==
    /\ ~whole => steady = 0
    /\ pc = "down" => ~whole

\* Slow signals that were read before the world changed are older than that.
CacheInv ==
    /\ ~slow.known => steady = 0
    /\ pc = "apply" => slow.known
    /\ pc \in {"wait", "trip", "rest"} /\ slow.known =>
          /\ slowAge >= 1
          /\ slowAge <= steady => SlowRight
    /\ pc \in {"trip", "rest", "apply"} /\ ~full =>
          /\ slow.known
          /\ slowAge \in 1..SLOW_POLLS - 1
    /\ pc = "apply" /\ whole /\ (full \/ slowAge <= steady) => SlowRight
    /\ pc = "apply" /\ full => slowAge = 0

\* What a whole poll has read so far is the case.
SeenInv ==
    /\ pc \in {"trip", "rest", "apply"} /\ whole =>
          /\ seen.usb_mounted = Real.usb_mounted
          /\ seen.data_fresh = Real.data_fresh
    /\ pc \in {"rest", "apply"} /\ whole =>
          /\ seen.trip_active = Real.trip_active
          /\ seen.dtc_present = Real.dtc_present
          /\ seen.sync_behind = IF full THEN Real.sync_behind ELSE slow.sync_behind
    /\ pc = "apply" /\ whole =>
          /\ seen.collector_active = slow.collector_active
          /\ seen.bt_adapter_present = Real.bt_adapter_present
          /\ seen.pi_warning = Real.pi_warning
          /\ seen.sync_behind = slow.sync_behind

\* The targets last set are those of the world; and the LEDs show them, but for
\* those that a failing _set has changed.
TargetInv ==
    /\ pc \in {"wait", "trip", "rest"} /\ steady >= 1 => cur = evaluate_state(Semi)
    /\ steady = SLOW_POLLS => cur = evaluate_state(Real)

ShownInv ==
    pc # "down" => \A led \in Leds \ halfSet : cur[led] # Unset => shown[led] = cur[led]

LedInv == TypeOK /\ CountInv /\ CacheInv /\ SeenInv /\ TargetInv /\ ShownInv

LEMMA Params == SLOW_POLLS \in Nat /\ SLOW_POLLS >= 1 /\ MaxErrors \in Nat /\ Leds = {1, 2}
BY LedAssumption DEF Leds

LEMMA Colours ==
    ASSUME NEW s
    PROVE  /\ evaluate_state(s) \in ColoursA \X ColoursB
           /\ evaluate_state(s)[1] # Unset /\ evaluate_state(s)[2] # Unset
BY DEF evaluate_state, LedA, LedB, ColoursA, ColoursB, Unset

LEMMA WorldTypes ==
    ASSUME TypeOK
    PROVE  /\ world.collector_active \in BOOLEAN /\ world.usb_mounted \in BOOLEAN
           /\ world.bt_adapter_present \in BOOLEAN /\ world.data_fresh \in BOOLEAN
           /\ world.trip_active \in BOOLEAN /\ world.hot \in BOOLEAN /\ world.low_drive \in BOOLEAN
           /\ world.sync_behind \in BOOLEAN /\ world.dtc_present \in BOOLEAN
BY LedAssumption DEF TypeOK, Signals

\* Two states with the same signals have the same colours.
LEMMA SameColours ==
    ASSUME NEW s, NEW t,
           s.collector_active = t.collector_active, s.usb_mounted = t.usb_mounted,
           s.bt_adapter_present = t.bt_adapter_present, s.data_fresh = t.data_fresh,
           s.trip_active = t.trip_active, s.pi_warning = t.pi_warning,
           s.sync_behind = t.sync_behind, s.dtc_present = t.dtc_present
    PROVE  evaluate_state(s) = evaluate_state(t)
BY DEF evaluate_state, LedA, LedB

SeenType == [DOMAIN Unread -> BOOLEAN]
SlowType == [DOMAIN None -> BOOLEAN]

LEMMA SeenFields ==
    DOMAIN Unread = {"collector_active", "usb_mounted", "bt_adapter_present", "data_fresh",
                     "trip_active", "pi_warning", "sync_behind", "dtc_present"}
BY DEF Unread

LEMMA SlowFields == DOMAIN None = {"known", "collector_active", "sync_behind"}
BY DEF None

LEMMA SlowRecord == SlowType = [known : BOOLEAN, collector_active : BOOLEAN, sync_behind : BOOLEAN]
BY DEF SlowType, None

LEMMA UnreadType == Unread \in SeenType /\ None \in SlowType /\ None.known = FALSE
<1>1. SeenType = [collector_active : BOOLEAN, usb_mounted : BOOLEAN, bt_adapter_present : BOOLEAN,
                  data_fresh : BOOLEAN, trip_active : BOOLEAN, pi_warning : BOOLEAN,
                  sync_behind : BOOLEAN, dtc_present : BOOLEAN]
  BY DEF SeenType, Unread
<1>2. Unread \in SeenType
  BY <1>1 DEF Unread
<1> QED
  BY <1>2, SlowRecord DEF None

LEMMA LedInit == Init => LedInv
<1> SUFFICES ASSUME Init
             PROVE  LedInv
  OBVIOUS
<1>1. TypeOK
  <2>1. full \in BOOLEAN /\ whole \in BOOLEAN
    BY DEF Init
  <2>2. seen \in SeenType /\ slow \in SlowType
    BY UnreadType DEF Init
  <2>3. cur \in (ColoursA \cup {Unset}) \X (ColoursB \cup {Unset}) /\ shown \in ColoursA \X ColoursB
    BY DEF Init, Unlit, ColoursA, ColoursB, Unset
  <2> QED
    BY <2>1, <2>2, <2>3, Params DEF Init, TypeOK, SeenType, SlowType
<1>2. pc = "down" /\ whole = FALSE /\ steady = 0 /\ slow = None
  BY DEF Init
<1> QED
  BY <1>1, <1>2, Params, UnreadType DEF LedInv, CountInv, CacheInv, SeenInv, TargetInv, ShownInv

\* A turn of the loop reads into seen what there is to be read, and nothing else.
LEMMA StartPollReads ==
    ASSUME TypeOK, StartPoll
    PROVE  /\ seen' \in SeenType /\ full' \in BOOLEAN /\ whole' = TRUE
           /\ seen'.usb_mounted = Real'.usb_mounted /\ seen'.data_fresh = Real'.data_fresh
           /\ ~full' => slow.known /\ slowAge < SLOW_POLLS
           /\ pc = "wait" /\ pc' = "trip"
           /\ UNCHANGED <<world, slow, slowAge, driver, steady, errors>>
<1>1. seen' = [Unread EXCEPT !.usb_mounted = world.usb_mounted,
                             !.data_fresh = world.usb_mounted /\ world.data_fresh]
  BY DEF StartPoll
<1>2. seen' \in SeenType
  BY <1>1, UnreadType, WorldTypes DEF SeenType, Unread
<1>3. full' \in BOOLEAN /\ (~full' => slow.known /\ slowAge < SLOW_POLLS)
  <2>1. slowAge \in Int /\ SLOW_POLLS \in Int
    BY Params DEF TypeOK
  <2>2. full' \in BOOLEAN /\ (~slow.known \/ slowAge >= SLOW_POLLS => full')
    BY DEF StartPoll
  <2> QED
    BY <2>1, <2>2
<1>4. seen'.usb_mounted = world.usb_mounted /\ seen'.data_fresh = (world.usb_mounted /\ world.data_fresh)
  BY <1>1, UnreadType DEF SeenType, Unread
<1> QED
  BY <1>2, <1>3, <1>4 DEF StartPoll, Real

LEMMA ReadTripReads ==
    ASSUME TypeOK, ReadTrip
    PROVE  /\ seen' \in SeenType
           /\ seen'.usb_mounted = seen.usb_mounted /\ seen'.data_fresh = seen.data_fresh
           /\ seen.usb_mounted = Real.usb_mounted =>
                /\ seen'.trip_active = Real.trip_active
                /\ seen'.dtc_present = Real.dtc_present
                /\ seen'.sync_behind = IF full THEN Real.sync_behind ELSE slow.sync_behind
<1>1. seen' = [seen EXCEPT
          !.trip_active = seen.usb_mounted /\ world.trip_active,
          !.dtc_present = seen.usb_mounted /\ world.dtc_present,
          !.sync_behind = IF full THEN seen.usb_mounted /\ world.sync_behind ELSE slow.sync_behind]
  BY DEF ReadTrip
<1>2. seen \in SeenType /\ slow.sync_behind \in BOOLEAN
  BY SlowFields DEF TypeOK, SeenType
<1>3. seen' \in SeenType
  BY <1>1, <1>2, WorldTypes DEF SeenType, Unread
<1>4. /\ seen'.usb_mounted = seen.usb_mounted /\ seen'.data_fresh = seen.data_fresh
      /\ seen'.trip_active = (seen.usb_mounted /\ world.trip_active)
      /\ seen'.dtc_present = (seen.usb_mounted /\ world.dtc_present)
      /\ seen'.sync_behind = IF full THEN seen.usb_mounted /\ world.sync_behind ELSE slow.sync_behind
  BY <1>1, <1>2 DEF SeenType, Unread
<1> QED
  BY <1>3, <1>4 DEF Real

LEMMA ReadTripFailsType == ASSUME TypeOK, ReadTripFails PROVE seen' \in SeenType
<1>1. PICK done \in SUBSET {"fresh", "trip", "dtc", "backlog"} :
        seen' = [seen EXCEPT
            !.data_fresh  = @ /\ "fresh" \in done,
            !.trip_active = world.trip_active /\ "trip" \in done,
            !.dtc_present = world.dtc_present /\ "dtc" \in done,
            !.sync_behind = IF full THEN world.sync_behind /\ "backlog" \in done ELSE slow.sync_behind]
  BY DEF ReadTripFails
<1>2. seen \in SeenType /\ slow.sync_behind \in BOOLEAN
  BY SlowFields DEF TypeOK, SeenType
<1>3. PICK sync \in BOOLEAN :
        sync = IF full THEN world.sync_behind /\ "backlog" \in done ELSE slow.sync_behind
  BY <1>2, WorldTypes
<1>4. PICK fresh \in BOOLEAN : fresh = (seen.data_fresh /\ "fresh" \in done)
  BY <1>2 DEF SeenType, Unread
<1> QED
  BY <1>1, <1>2, <1>3, <1>4, WorldTypes DEF SeenType, Unread

LEMMA ReadRestReads ==
    ASSUME TypeOK, ReadRest
    PROVE  /\ seen' \in SeenType /\ slow' \in SlowType
           /\ seen'.usb_mounted = seen.usb_mounted /\ seen'.data_fresh = seen.data_fresh
           /\ seen'.trip_active = seen.trip_active /\ seen'.dtc_present = seen.dtc_present
           /\ seen'.sync_behind = seen.sync_behind
           /\ seen'.bt_adapter_present = Real.bt_adapter_present
           /\ seen'.pi_warning = Real.pi_warning
           /\ full => /\ seen'.collector_active = Real.collector_active /\ slowAge' = 0
                      /\ slow'.known /\ slow'.collector_active = seen'.collector_active
                      /\ slow'.sync_behind = seen'.sync_behind
           /\ ~full => seen'.collector_active = slow.collector_active /\ UNCHANGED <<slow, slowAge>>
<1>1. seen' = [seen EXCEPT
          !.collector_active = IF full THEN world.collector_active ELSE slow.collector_active,
          !.bt_adapter_present = world.bt_adapter_present,
          !.pi_warning = PiWarning]
  BY DEF ReadRest
<1>2. seen \in SeenType /\ slow \in SlowType /\ slow.collector_active \in BOOLEAN /\ PiWarning \in BOOLEAN
  BY SlowFields DEF TypeOK, SeenType, SlowType, PiWarning
<1>3. seen' \in SeenType
  BY <1>1, <1>2, WorldTypes DEF SeenType, Unread
<1>4. /\ seen'.usb_mounted = seen.usb_mounted /\ seen'.data_fresh = seen.data_fresh
      /\ seen'.trip_active = seen.trip_active /\ seen'.dtc_present = seen.dtc_present
      /\ seen'.sync_behind = seen.sync_behind
      /\ seen'.bt_adapter_present = world.bt_adapter_present
      /\ seen'.pi_warning = PiWarning
      /\ seen'.collector_active = IF full THEN world.collector_active ELSE slow.collector_active
  BY <1>1, <1>2 DEF SeenType, Unread
<1>5. seen'.collector_active \in BOOLEAN /\ seen'.sync_behind \in BOOLEAN
  BY <1>3, SeenFields DEF SeenType
<1>6. /\ slow' = IF full THEN SlowOf(seen') ELSE slow
      /\ slowAge' = IF full THEN 0 ELSE slowAge
  BY DEF ReadRest
<1>7. /\ Real.bt_adapter_present = world.bt_adapter_present /\ Real.pi_warning = PiWarning
      /\ Real.collector_active = world.collector_active
  BY DEF Real
<1>8. CASE full
  <2>1. slow' = SlowOf(seen') /\ slowAge' = 0 /\ seen'.collector_active = world.collector_active
    BY <1>4, <1>6, <1>8
  <2>2. /\ slow' \in SlowType /\ slow'.known = TRUE
        /\ slow'.collector_active = seen'.collector_active /\ slow'.sync_behind = seen'.sync_behind
    <3>1. slow' = [known |-> TRUE, collector_active |-> seen'.collector_active,
                   sync_behind |-> seen'.sync_behind]
      BY <2>1 DEF SlowOf
    <3> QED
      BY <1>5, <3>1, SlowRecord
  <2> QED
    BY <1>3, <1>4, <1>7, <1>8, <2>1, <2>2
<1>9. CASE ~full
  <2>1. slow' = slow /\ slowAge' = slowAge /\ seen'.collector_active = slow.collector_active
    BY <1>4, <1>6, <1>9
  <2> QED
    BY <1>2, <1>3, <1>4, <1>7, <1>9, <2>1
<1> QED
  BY <1>8, <1>9

-----------------------------------------------------------------------------
(* The types.                                                              *)

\* The LEDs as a pair, after some of them were given new colours.
LEMMA PairType ==
    ASSUME NEW A, NEW B, NEW f, f = [l \in Leds |-> f[l]], f[1] \in A, f[2] \in B
    PROVE  f \in A \X B
<1>1. f = <<f[1], f[2]>>
  BY Params
<1> QED
  BY <1>1

LEMMA SetType ==
    ASSUME TypeOK, NEW s, NEW S
    PROVE  Set(S, evaluate_state(s)) \in ColoursA \X ColoursB
<1>1. evaluate_state(s)[1] \in ColoursA /\ evaluate_state(s)[2] \in ColoursB
  BY Colours
<1>2. shown[1] \in ColoursA /\ shown[2] \in ColoursB
  BY DEF TypeOK
<1>3. /\ Set(S, evaluate_state(s)) = [l \in Leds |-> Set(S, evaluate_state(s))[l]]
      /\ Set(S, evaluate_state(s))[1] \in ColoursA /\ Set(S, evaluate_state(s))[2] \in ColoursB
  BY <1>1, <1>2, Params DEF Set
<1> QED
  BY <1>3, PairType

LEMMA FaultType ==
    ASSUME TypeOK, Fault
    PROVE  /\ errors' \in 0..MaxErrors /\ steady' = 0 /\ steady' \in 0..SLOW_POLLS
           /\ whole' = FALSE /\ whole' \in BOOLEAN
<1>1. whole' = FALSE /\ whole' \in BOOLEAN
  BY Zenon DEF Fault, Disturbed
<1> QED
  BY <1>1, Params DEF Fault, Disturbed, TypeOK

LEMMA EndPollType ==
    ASSUME TypeOK, EndPoll
    PROVE  /\ pc' = "wait" /\ seen' \in SeenType /\ full' \in BOOLEAN
           /\ slowAge' = AtMost(slowAge + 1, SLOW_POLLS)
           /\ slowAge' \in 0..SLOW_POLLS /\ UNCHANGED <<world, slow>>
<1>1. AtMost(slowAge + 1, SLOW_POLLS) \in 0..SLOW_POLLS
  BY Params DEF AtMost, TypeOK
<1>2. full' \in BOOLEAN
  BY Zenon DEF EndPoll
<1> QED
  BY <1>1, <1>2, UnreadType DEF EndPoll

LEMMA TypeStep == TypeOK /\ [Next]_vars => TypeOK'
<1> SUFFICES ASSUME TypeOK, [Next]_vars
             PROVE  TypeOK'
  OBVIOUS
<1> DEFINE Set1 == ColoursA \cup {Unset}
           Set2 == ColoursB \cup {Unset}
<1> USE Params
<1>1. CASE UNCHANGED vars
  <2>1. full' \in BOOLEAN /\ whole' \in BOOLEAN
    BY <1>1, Zenon DEF vars, polling, TypeOK
  <2> QED
    BY <1>1, <2>1 DEF vars, polling, driver, TypeOK
<1>2. CASE WorldChanges
  <2>1. whole' \in BOOLEAN /\ full' \in BOOLEAN
    BY <1>2, Zenon DEF WorldChanges, Disturbed, polling, TypeOK
  <2> QED
    BY <1>2, <2>1 DEF WorldChanges, Disturbed, polling, driver, TypeOK
<1>3. CASE Start
  <2>1. cur' \in Set1 \X Set2 /\ shown' \in ColoursA \X ColoursB
    BY <1>3 DEF Start, Unlit, ColoursA, ColoursB
  <2>2. slow' \in SlowType
    BY <1>3, UnreadType DEF Start
  <2>3. full' \in BOOLEAN /\ whole' \in BOOLEAN
    BY <1>3, Zenon DEF Start, TypeOK
  <2> QED
    BY <1>3, <2>1, <2>2, <2>3 DEF Start, TypeOK, SlowType
<1>4. CASE Die
  <2>1. seen' \in SeenType /\ pc' = "down" /\ UNCHANGED <<world, slow, slowAge, cur, halfSet>>
    BY <1>4, UnreadType DEF Die
  <2>2. shown' \in ColoursA \X ColoursB
    <3>1. Unlit \in ColoursA \X ColoursB
      BY DEF Unlit, ColoursA, ColoursB
    <3>2. shown \in ColoursA \X ColoursB
      BY DEF TypeOK
    <3> QED
      BY <1>4, <3>1, <3>2 DEF Die
  <2>3. full' \in BOOLEAN
    BY <1>4, Zenon DEF Die
  <2>4. Fault
    BY <1>4 DEF Die
  <2> QED
    BY <2>1, <2>2, <2>3, <2>4, FaultType DEF TypeOK, SeenType
<1>5. CASE StartPoll
  BY <1>5, StartPollReads DEF TypeOK, SeenType, driver
<1>6. CASE ReadTrip
  BY <1>6, ReadTripReads DEF ReadTrip, TypeOK, SeenType, driver
<1>7. CASE ReadTripFails
  <2>1. /\ pc' = "rest" /\ seen' \in SeenType /\ Fault
        /\ UNCHANGED <<world, full, slow, slowAge, cur, shown, halfSet>>
    BY <1>7, ReadTripFailsType DEF ReadTripFails, driver
  <2> QED
    BY <2>1, FaultType DEF TypeOK, SeenType
<1>8. CASE ReadRest
  BY <1>8, ReadRestReads DEF ReadRest, TypeOK, SeenType, SlowType, driver
<1>9. CASE ReadRaises
  <2>1. EndPoll /\ Fault /\ UNCHANGED <<cur, shown, halfSet>>
    BY <1>9 DEF ReadRaises, driver
  <2> QED
    BY <2>1, EndPollType, FaultType DEF TypeOK, SeenType
<1>10. CASE Apply
  <2>1. cur' \in Set1 \X Set2 /\ shown' \in ColoursA \X ColoursB
    BY <1>10, Colours, SetType DEF Apply
  <2>2. steady' \in 0..SLOW_POLLS
    BY <1>10 DEF Apply, AtMost, TypeOK
  <2> QED
    BY <1>10, <2>1, <2>2, EndPollType DEF Apply, TypeOK, SeenType
<1>11. CASE ApplyRaises
  <2> DEFINE target == evaluate_state(seen)
  <2>1. PICK led \in Due(target) :
           /\ cur' = [l \in Leds |-> IF l \in Before(led) THEN target[l] ELSE cur[l]]
           /\ shown' \in {Set(Due(target) \cap Before(led), target),
                          Set((Due(target) \cap Before(led)) \cup {led}, target)}
           /\ halfSet' \in {halfSet \ (Due(target) \cap Before(led)),
                            (halfSet \ (Due(target) \cap Before(led))) \cup {led}}
    BY <1>11 DEF ApplyRaises
  <2>2. shown' \in ColoursA \X ColoursB
    BY <2>1, SetType
  <2>3. cur' \in Set1 \X Set2
    <3>1. target[1] \in Set1 /\ target[2] \in Set2 /\ cur[1] \in Set1 /\ cur[2] \in Set2
      BY Colours DEF TypeOK
    <3>2. cur' = [l \in Leds |-> cur'[l]] /\ cur'[1] \in Set1 /\ cur'[2] \in Set2
      BY <2>1, <3>1
    <3> QED
      BY <3>2, PairType
  <2>4. halfSet' \subseteq Leds
    BY <2>1 DEF Due, TypeOK
  <2>5. EndPoll /\ Fault
    BY <1>11 DEF ApplyRaises
  <2> QED
    BY <2>2, <2>3, <2>4, <2>5, EndPollType, FaultType DEF TypeOK, SeenType
<1> QED
  BY <1>1, <1>2, <1>3, <1>4, <1>5, <1>6, <1>7, <1>8, <1>9, <1>10, <1>11 DEF Next, Run

-----------------------------------------------------------------------------
(* The world, the cache and the LEDs.                                      *)

LEMMA SameWorld ==
    ASSUME UNCHANGED world
    PROVE  Real' = Real
BY DEF Real, PiWarning

\* The counters, in the form the arithmetic needs.
LEMMA Counters ==
    ASSUME TypeOK
    PROVE  /\ steady \in Nat /\ steady <= SLOW_POLLS /\ slowAge \in Nat /\ slowAge <= SLOW_POLLS
           /\ SLOW_POLLS \in Nat /\ SLOW_POLLS >= 1
BY Params DEF TypeOK

\* A step that fails, or a change of the world, discards the count.
LEMMA FaultDisturbs ==
    ASSUME TypeOK, \/ WorldChanges \/ Die \/ ReadTripFails \/ ReadRaises \/ ApplyRaises
    PROVE  steady' = 0 /\ ~whole' /\ ~(steady' >= 1) /\ steady' # SLOW_POLLS
<1>1. Disturbed
  BY DEF WorldChanges, Die, ReadTripFails, ReadRaises, ApplyRaises, Fault
<1>2. steady' = 0 /\ ~whole'
  BY <1>1, Zenon DEF Disturbed
<1> QED
  BY <1>2, Params

LEMMA ApplyCounts ==
    ASSUME TypeOK, Apply
    PROVE  /\ pc = "apply" /\ pc' = "wait" /\ UNCHANGED <<world, slow, whole>>
           /\ slowAge' = AtMost(slowAge + 1, SLOW_POLLS)
           /\ cur' = evaluate_state(seen)
           /\ whole => steady' = AtMost(steady + 1, SLOW_POLLS)
           /\ ~whole => steady' = 0
BY DEF Apply, EndPoll

LEMMA CountStep == TypeOK /\ CountInv /\ [Next]_vars => CountInv'
<1> SUFFICES ASSUME TypeOK, CountInv, [Next]_vars
             PROVE  CountInv'
  OBVIOUS
<1>1. CASE UNCHANGED vars
  BY <1>1, Zenon DEF vars, polling, CountInv
<1>2. CASE WorldChanges \/ Die \/ ReadTripFails \/ ReadRaises \/ ApplyRaises
  BY <1>2, FaultDisturbs DEF CountInv
<1>3. CASE Start
  <2>1. pc' = "wait" /\ UNCHANGED <<steady, whole>>
    BY <1>3 DEF Start
  <2> QED
    BY <2>1 DEF CountInv
<1>4. CASE StartPoll
  BY <1>4, StartPollReads DEF CountInv
<1>5. CASE ReadTrip \/ ReadRest
  <2>1. pc' # "down" /\ UNCHANGED <<steady, whole>>
    BY <1>5 DEF ReadTrip, ReadRest
  <2> QED
    BY <2>1 DEF CountInv
<1>6. CASE Apply
  BY <1>6, ApplyCounts DEF CountInv
<1> QED
  BY <1>1, <1>2, <1>3, <1>4, <1>5, <1>6 DEF Next, Run

LEMMA CacheStep == TypeOK /\ CountInv /\ CacheInv /\ SeenInv /\ [Next]_vars => CacheInv'
<1> SUFFICES ASSUME TypeOK, CountInv, CacheInv, SeenInv, [Next]_vars
             PROVE  CacheInv'
  OBVIOUS
<1> USE Counters
<1>1. CASE UNCHANGED vars
  BY <1>1 DEF vars, polling, CacheInv, SlowRight, Real, PiWarning
<1>2. CASE WorldChanges
  <2>1. UNCHANGED <<pc, full, slow, slowAge>>
    BY <1>2 DEF WorldChanges, polling
  <2> QED
    BY <1>2, <2>1, FaultDisturbs DEF CacheInv
<1>3. CASE Start \/ Die
  <2>1. steady' = 0
    BY <1>3, FaultDisturbs DEF Start, CountInv
  <2>2. pc' = "down" \/ (pc' = "wait" /\ slow' = None)
    BY <1>3 DEF Start, Die
  <2> QED
    BY <2>1, <2>2, UnreadType DEF CacheInv
<1>4. CASE StartPoll
  <2>1. SlowRight' <=> SlowRight
    BY <1>4, StartPollReads, SameWorld DEF SlowRight
  <2> QED
    BY <1>4, <2>1, StartPollReads DEF CacheInv
<1>5. CASE ReadTrip \/ ReadTripFails
  <2>1. /\ pc = "trip" /\ pc' = "rest" /\ UNCHANGED <<world, full, slow, slowAge>>
        /\ steady' = steady \/ steady' = 0
    BY <1>5, FaultDisturbs DEF ReadTrip, ReadTripFails
  <2>2. SlowRight' <=> SlowRight
    BY <2>1, SameWorld DEF SlowRight
  <2> QED
    BY <2>1, <2>2 DEF CacheInv
<1>6. CASE ReadRest
  <2>1. pc = "rest" /\ pc' = "apply" /\ UNCHANGED <<world, full, steady, whole>>
    BY <1>6 DEF ReadRest
  <2>2. CASE full
    <3>1. slow'.known /\ slowAge' = 0
      BY <1>6, <2>2, ReadRestReads
    <3>2. whole => SlowRight'
      <4>1. Real' = Real
        BY <2>1, SameWorld
      <4>2. slow'.collector_active = Real.collector_active /\ slow'.sync_behind = seen.sync_behind
        BY <1>6, <2>2, ReadRestReads
      <4>3. whole => seen.sync_behind = Real.sync_behind
        BY <2>1, <2>2 DEF SeenInv
      <4> QED
        BY <4>1, <4>2, <4>3 DEF SlowRight
    <3> QED
      BY <2>1, <2>2, <3>1, <3>2 DEF CacheInv
  <2>3. CASE ~full
    <3>1. UNCHANGED <<slow, slowAge>>
      BY <1>6, <2>3, ReadRestReads
    <3>2. SlowRight' <=> SlowRight
      BY <2>1, <3>1, SameWorld DEF SlowRight
    <3> QED
      BY <2>1, <2>3, <3>1, <3>2 DEF CacheInv
  <2> QED
    BY <2>2, <2>3
<1>7. CASE ReadRaises \/ ApplyRaises
  <2>1. EndPoll
    BY <1>7 DEF ReadRaises, ApplyRaises
  <2>2. pc' = "wait" /\ slowAge' >= 1 /\ slowAge' \in Nat
    BY <2>1, EndPollType DEF AtMost
  <2> QED
    BY <1>7, <2>2, FaultDisturbs DEF CacheInv
<1>8. CASE Apply
  <2>1. /\ pc = "apply" /\ pc' = "wait" /\ UNCHANGED <<world, slow, whole>>
        /\ slowAge' = AtMost(slowAge + 1, SLOW_POLLS)
        /\ whole => steady' = AtMost(steady + 1, SLOW_POLLS)
        /\ ~whole => steady' = 0
    BY <1>8, ApplyCounts
  <2>2. SlowRight' <=> SlowRight
    BY <2>1, SameWorld DEF SlowRight
  <2>3. slow'.known /\ slowAge' >= 1 /\ slowAge' \in Nat
    BY <2>1 DEF CacheInv, AtMost
  <2>4. ASSUME slowAge' <= steady'
        PROVE  SlowRight
    <3>1. whole
      BY <2>1, <2>3, <2>4
    <3>2. full \/ slowAge <= steady
      <4>1. CASE ~full
        <5>1. slowAge \in 1..SLOW_POLLS - 1
          BY <2>1, <4>1 DEF CacheInv
        <5> QED
          BY <2>1, <2>4, <3>1, <5>1 DEF AtMost
      <4> QED
        BY <4>1
    <3> QED
      BY <2>1, <3>1, <3>2 DEF CacheInv
  <2> QED
    BY <2>1, <2>2, <2>3, <2>4 DEF CacheInv
<1> QED
  BY <1>1, <1>2, <1>3, <1>4, <1>5, <1>6, <1>7, <1>8 DEF Next, Run

LEMMA SeenStep == TypeOK /\ CacheInv /\ SeenInv /\ [Next]_vars => SeenInv'
<1> SUFFICES ASSUME TypeOK, CacheInv, SeenInv, [Next]_vars
             PROVE  SeenInv'
  OBVIOUS
<1>1. CASE UNCHANGED vars
  BY <1>1, SameWorld DEF vars, polling, SeenInv
<1>2. CASE WorldChanges \/ Die \/ ReadTripFails \/ ReadRaises \/ ApplyRaises
  BY <1>2, FaultDisturbs DEF SeenInv
<1>3. CASE Start
  BY <1>3 DEF Start, SeenInv
<1>4. CASE StartPoll
  BY <1>4, StartPollReads DEF SeenInv
<1>5. CASE ReadTrip
  <2>1. pc = "trip" /\ pc' = "rest" /\ UNCHANGED <<world, full, slow, whole>>
    BY <1>5 DEF ReadTrip
  <2>2. Real' = Real
    BY <2>1, SameWorld
  <2>3. CASE ~whole
    BY <2>1, <2>3 DEF SeenInv
  <2>4. CASE whole
    <3>1. seen.usb_mounted = Real.usb_mounted /\ seen.data_fresh = Real.data_fresh
      BY <2>1, <2>4 DEF SeenInv
    <3>2. /\ seen'.usb_mounted = Real.usb_mounted /\ seen'.data_fresh = Real.data_fresh
          /\ seen'.trip_active = Real.trip_active /\ seen'.dtc_present = Real.dtc_present
          /\ seen'.sync_behind = IF full THEN Real.sync_behind ELSE slow.sync_behind
      BY <1>5, <3>1, ReadTripReads
    <3> QED
      BY <2>1, <2>2, <3>2 DEF SeenInv
  <2> QED
    BY <2>3, <2>4
<1>6. CASE ReadRest
  <2>1. pc = "rest" /\ pc' = "apply" /\ UNCHANGED <<world, full, whole>>
    BY <1>6 DEF ReadRest
  <2>2. Real' = Real
    BY <2>1, SameWorld
  <2>3. CASE ~whole
    BY <2>1, <2>3 DEF SeenInv
  <2>4. CASE whole
    <3>1. /\ seen.usb_mounted = Real.usb_mounted /\ seen.data_fresh = Real.data_fresh
          /\ seen.trip_active = Real.trip_active /\ seen.dtc_present = Real.dtc_present
          /\ seen.sync_behind = IF full THEN Real.sync_behind ELSE slow.sync_behind
      BY <2>1, <2>4 DEF SeenInv
    <3>2. /\ seen'.usb_mounted = seen.usb_mounted /\ seen'.data_fresh = seen.data_fresh
          /\ seen'.trip_active = seen.trip_active /\ seen'.dtc_present = seen.dtc_present
          /\ seen'.sync_behind = seen.sync_behind
          /\ seen'.bt_adapter_present = Real.bt_adapter_present /\ seen'.pi_warning = Real.pi_warning
      BY <1>6, ReadRestReads
    <3>3. seen'.collector_active = slow'.collector_active
      BY <1>6, ReadRestReads
    <3>4. seen.sync_behind = slow'.sync_behind /\ (~full => slow' = slow)
      BY <1>6, <3>1, ReadRestReads
    <3> QED
      BY <2>1, <2>2, <3>1, <3>2, <3>3, <3>4 DEF SeenInv
  <2> QED
    BY <2>3, <2>4
<1>7. CASE Apply
  BY <1>7, ApplyCounts DEF SeenInv
<1> QED
  BY <1>1, <1>2, <1>3, <1>4, <1>5, <1>6, <1>7 DEF Next, Run

LEMMA SemiFields ==
    /\ Semi.collector_active = slow.collector_active /\ Semi.sync_behind = slow.sync_behind
    /\ Semi.usb_mounted = Real.usb_mounted /\ Semi.bt_adapter_present = Real.bt_adapter_present
    /\ Semi.pi_warning = Real.pi_warning /\ Semi.data_fresh = Real.data_fresh
    /\ Semi.trip_active = Real.trip_active /\ Semi.dtc_present = Real.dtc_present
BY DEF Semi, Real

\* With slow signals that are right, nothing is left to be wrong.
LEMMA SemiIsReal ==
    ASSUME SlowRight
    PROVE  evaluate_state(Semi) = evaluate_state(Real)
BY SemiFields, SameColours DEF SlowRight

LEMMA TargetStep == TypeOK /\ CountInv /\ CacheInv /\ SeenInv /\ TargetInv /\ [Next]_vars => TargetInv'
<1> SUFFICES ASSUME TypeOK, CountInv, CacheInv, SeenInv, TargetInv, [Next]_vars
             PROVE  TargetInv'
  OBVIOUS
<1> USE Counters
<1>1. CASE UNCHANGED vars
  BY <1>1, SameWorld DEF vars, polling, driver, TargetInv, Semi
<1>2. CASE WorldChanges \/ Die \/ ReadTripFails \/ ReadRaises \/ ApplyRaises
  BY <1>2, FaultDisturbs DEF TargetInv
<1>3. CASE Start
  BY <1>3 DEF Start, CountInv, TargetInv
<1>4. CASE StartPoll \/ ReadTrip \/ ReadRest
  <2>1. /\ UNCHANGED <<world, cur, steady>>
        /\ pc \in {"wait", "trip", "rest"}
        /\ pc' = "apply" \/ UNCHANGED slow
    BY <1>4 DEF StartPoll, ReadTrip, ReadRest, driver
  <2>2. Real' = Real /\ (UNCHANGED slow => Semi' = Semi)
    BY <2>1, SameWorld DEF Semi
  <2> QED
    BY <2>1, <2>2 DEF TargetInv
<1>5. CASE Apply
  <2>1. /\ pc = "apply" /\ pc' = "wait" /\ UNCHANGED <<world, slow, whole>>
        /\ cur' = evaluate_state(seen)
        /\ whole => steady' = AtMost(steady + 1, SLOW_POLLS)
        /\ ~whole => steady' = 0
    BY <1>5, ApplyCounts
  <2>2. Real' = Real /\ Semi' = Semi
    BY <2>1, SameWorld DEF Semi
  <2>3. CASE ~whole
    BY <2>1, <2>3 DEF TargetInv
  <2>4. CASE whole
    <3>1. cur' = evaluate_state(Semi)
      BY <2>1, <2>4, SemiFields, SameColours DEF SeenInv
    <3>2. ASSUME steady' = SLOW_POLLS
          PROVE  SlowRight
      <4>1. full \/ slowAge <= steady
        BY <2>1, <2>4, <3>2 DEF CacheInv, AtMost
      <4> QED
        BY <2>1, <2>4, <4>1 DEF CacheInv
    <3> QED
      BY <2>1, <2>2, <3>1, <3>2, SemiIsReal DEF TargetInv
  <2> QED
    BY <2>3, <2>4
<1> QED
  BY <1>1, <1>2, <1>3, <1>4, <1>5 DEF Next, Run

LEMMA ShownStep == TypeOK /\ ShownInv /\ [Next]_vars => ShownInv'
<1> SUFFICES ASSUME TypeOK, ShownInv, [Next]_vars
             PROVE  ShownInv'
  OBVIOUS
<1>1. CASE UNCHANGED driver /\ (pc = "down" => pc' = "down")
  BY <1>1 DEF driver, ShownInv
<1>2. CASE Start
  BY <1>2, Params DEF Start, ShownInv
<1>3. CASE Die
  BY <1>3 DEF Die, ShownInv
<1>4. CASE Apply
  <2>1. /\ pc = "apply" /\ cur' = evaluate_state(seen) /\ shown' = Set(Due(cur'), cur')
        /\ halfSet' = halfSet \ Due(cur')
    BY <1>4 DEF Apply
  <2>2. ASSUME NEW led \in Leds \ halfSet', cur'[led] # Unset
        PROVE  shown'[led] = cur'[led]
    <3>1. shown'[led] = IF led \in Due(cur') THEN cur'[led] ELSE shown[led]
      BY <2>1 DEF Set
    <3>2. led \notin Due(cur') => led \notin halfSet /\ cur'[led] = cur[led]
      BY <2>1, <2>2 DEF Due
    <3> QED
      BY <2>1, <2>2, <3>1, <3>2 DEF ShownInv
  <2> QED
    BY <2>2 DEF ShownInv
<1>5. CASE ApplyRaises
  <2> DEFINE target == evaluate_state(seen)
  <2>0. pc = "apply"
    BY <1>5 DEF ApplyRaises
  <2>1. PICK last \in Due(target) :
           /\ cur' = [l \in Leds |-> IF l \in Before(last) THEN target[l] ELSE cur[l]]
           /\ \/ /\ shown' = Set(Due(target) \cap Before(last), target)
                 /\ halfSet' = halfSet \ (Due(target) \cap Before(last))
              \/ /\ shown' = Set((Due(target) \cap Before(last)) \cup {last}, target)
                 /\ halfSet' = (halfSet \ (Due(target) \cap Before(last))) \cup {last}
    BY <1>5 DEF ApplyRaises
  <2>2. ASSUME NEW led \in Leds \ halfSet', cur'[led] # Unset
        PROVE  shown'[led] = cur'[led]
    <3>1. cur'[led] = IF led \in Before(last) THEN target[led] ELSE cur[led]
      BY <2>1, <2>2
    <3>2. shown'[led] = IF led \in Due(target) \cap Before(last) THEN target[led] ELSE shown[led]
      BY <2>1, <2>2 DEF Set
    <3>3. led \notin Due(target) \cap Before(last) => led \notin halfSet
      BY <2>1, <2>2
    <3>4. led \notin Due(target) => target[led] = cur[led]
      BY <2>2 DEF Due
    <3> QED
      BY <2>0, <2>2, <3>1, <3>2, <3>3, <3>4 DEF ShownInv
  <2> QED
    BY <2>2 DEF ShownInv
<1>6. \/ UNCHANGED driver /\ (pc = "down" => pc' = "down")
      \/ Start \/ Die \/ Apply \/ ApplyRaises
  BY DEF Next, Run, vars, polling, WorldChanges, StartPoll, ReadTrip, ReadTripFails, ReadRest, ReadRaises, EndPoll
<1> QED
  BY <1>1, <1>2, <1>3, <1>4, <1>5, <1>6

THEOREM LedInvariant == Spec => []LedInv
<1>1. LedInv /\ [Next]_vars => LedInv'
  BY TypeStep, CountStep, CacheStep, SeenStep, TargetStep, ShownStep DEF LedInv
<1> QED
  BY <1>1, LedInit, PTL DEF Spec

\* The LEDs come to show what is the case after SLOW_POLLS whole polls of an
\* unchanged world, whatever was cached or left by a failed poll: for all values
\* of SLOW_POLLS, and every set of worlds.
THEOREM LedShowsTheWorld == Spec => []ShowsTheWorld
<1>1. LedInv => ShowsTheWorld
  <2> SUFFICES ASSUME LedInv, steady = SLOW_POLLS
               PROVE  Shows(Real)
    BY DEF LedInv, ShowsTheWorld
  <2>1. pc # "down" /\ cur = evaluate_state(Real)
    BY Counters DEF LedInv, CountInv, TargetInv
  <2>2. \A led \in Leds : cur[led] # Unset
    BY <2>1, Colours, Params
  <2> QED
    BY <2>1, <2>2 DEF Shows, LedInv, ShownInv
<1> QED
  BY <1>1, LedInvariant, PTL

\* After one whole poll no fault, trip or DTC is hidden by a cached value.
THEOREM LedFastSignalsFresh == Spec => []FastSignalsFresh
<1>1. LedInv => FastSignalsFresh
  <2> SUFFICES ASSUME LedInv, pc = "wait", steady >= 1
               PROVE  Shows(Semi)
    BY DEF FastSignalsFresh, Semi
  <2>1. cur = evaluate_state(Semi)
    BY DEF LedInv, TargetInv
  <2>2. \A led \in Leds : cur[led] # Unset
    BY <2>1, Colours, Params
  <2> QED
    BY <2>1, <2>2 DEF Shows, LedInv, ShownInv
<1> QED
  BY <1>1, LedInvariant, PTL
=============================================================================
