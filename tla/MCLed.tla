------------------------------- MODULE MCLed -------------------------------
(* Worlds that reach every colour, several of them for more than one reason. *)
EXTENDS Led

Driving == [collector_active |-> TRUE, usb_mounted |-> TRUE, bt_adapter_present |-> TRUE,
            data_fresh |-> TRUE, trip_active |-> TRUE, hot |-> FALSE, low_drive |-> FALSE,
            sync_behind |-> FALSE, dtc_present |-> FALSE]
Parked  == [Driving EXCEPT !.data_fresh = FALSE, !.trip_active = FALSE, !.sync_behind = TRUE]

MCWorlds ==
    { Driving, Parked,
      [Driving EXCEPT !.collector_active = FALSE, !.data_fresh = FALSE],
      [Driving EXCEPT !.usb_mounted = FALSE, !.sync_behind = TRUE, !.low_drive = TRUE],
      [Driving EXCEPT !.data_fresh = FALSE, !.hot = TRUE, !.dtc_present = TRUE],
      [Parked EXCEPT !.low_drive = TRUE, !.sync_behind = FALSE] }
============================================================================
