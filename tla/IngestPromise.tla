---------------------------- MODULE IngestPromise ---------------------------
(***************************************************************************)
(* What request ingest promises (services/request_ingest_service.py): a    *)
(* completion event that the gateway may deliver any number of times makes *)
(* one Request row, and the dashboard is told of that row at most once,    *)
(* after it was committed.                                                 *)
(***************************************************************************)
EXTENDS Naturals

CONSTANT Events

VARIABLES
    stored,      \* Request rows of each event
    announced    \* dashboard deltas published for each event

vars == <<stored, announced>>

Init ==
    /\ stored = [v \in Events |-> 0]
    /\ announced = [v \in Events |-> 0]

Store(v) ==
    /\ stored[v] = 0
    /\ stored' = [stored EXCEPT ![v] = 1]
    /\ UNCHANGED announced

Announce(v) ==
    /\ stored[v] = 1 /\ announced[v] = 0
    /\ announced' = [announced EXCEPT ![v] = 1]
    /\ UNCHANGED stored

Next == \E v \in Events : Store(v) \/ Announce(v)

Spec == Init /\ [][Next]_vars
=============================================================================
