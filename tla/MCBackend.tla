----------------------------- MODULE MCBackend ------------------------------
(***************************************************************************)
(* Backend, bounded for TLC.                                               *)
(***************************************************************************)
EXTENDS Backend

\* A behaviour has the faults of one side or those of the other.
OneSideFails == (deaths' + deploys') * (faults' + onces') = 0

MCNext ==
    /\ Next
    /\ OneSideFails

MCSpec == Init /\ [][MCNext]_vars /\ Fairness
=============================================================================
