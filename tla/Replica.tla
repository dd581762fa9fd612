------------------------------ MODULE Replica ------------------------------
(***************************************************************************)
(* What the store-and-forward path promises, whatever the network, the    *)
(* power and the collector do: the server only ever holds rows the car     *)
(* recorded, in the version the car wrote, parents before children; and a  *)
(* row the car counts as delivered is on the server.  Sync.tla is shown to *)
(* implement this specification.                                           *)
(***************************************************************************)
CONSTANTS
    Trips,     \* ids of trips rows
    Rows,      \* ids of the rows of every other table
    NoTrip,    \* stands for a NULL trip_id (pi_health_log has no trip column)
    Parent     \* trip_id of each child row

Ids == Trips \cup Rows

VARIABLES
    made,       \* rows the car ever recorded
    ended,      \* trips whose end the car ever recorded
    onServer,   \* rows in PostgreSQL
    srvClosed,  \* trips whose end_time is set in PostgreSQL
    acked       \* rows the car counts as delivered

vars == <<made, ended, onServer, srvClosed, acked>>

\* The foreign key trip_id REFERENCES trips(id).
ParentsIn(S, held) ==
    \A r \in S \cap Rows : Parent[r] # NoTrip => Parent[r] \in held

Init ==
    /\ made = {} /\ ended = {}
    /\ onServer = {} /\ srvClosed = {}
    /\ acked = {}

\* The car records new rows, or ends trips, which it may then have to deliver
\* again.
Record ==
    /\ made' \in SUBSET Ids
    /\ made \subseteq made'
    /\ ended' \in SUBSET (Trips \cap made')
    /\ ended \subseteq ended'
    /\ acked' \in SUBSET acked
    /\ UNCHANGED <<onServer, srvClosed>>

\* The server stores one batch, all of it or nothing; C is the set of trips
\* whose delivered version is closed.
Receive ==
    \E S \in SUBSET made, C \in SUBSET ended :
        /\ ParentsIn(S, onServer)
        /\ C \subseteq S
        /\ onServer' = onServer \cup S
        /\ srvClosed' = srvClosed \cup C
        /\ UNCHANGED <<made, ended, acked>>

\* The car learns of deliveries, or forgets some when a power cut undoes its
\* latest commits.
Acknowledge ==
    /\ acked' \in SUBSET onServer
    /\ UNCHANGED <<made, ended, onServer, srvClosed>>

Next == Record \/ Receive \/ Acknowledge

Spec == Init /\ [][Next]_vars
=============================================================================
