-------------------------- MODULE BenchmarkPromise --------------------------
(***************************************************************************)
(* What a benchmark run promises (workers/tasks/benchmark.py, docstring):  *)
(* every item of the grid is answered once, with success or failure, and   *)
(* only then, once, the run is closed: COMPLETE if some item succeeded,    *)
(* FAILED if none did.                                                     *)
(***************************************************************************)
EXTENDS FiniteSets

CONSTANTS Items, None

VARIABLES
    phase,    \* of the run
    answer    \* of each item, None until it has one

vars == <<phase, answer>>

Init ==
    /\ phase = "open"
    /\ answer = [i \in Items |-> None]

Answer(i) ==
    /\ phase = "open"
    /\ answer[i] = None
    /\ \E a \in {"complete", "failed"} : answer' = [answer EXCEPT ![i] = a]
    /\ UNCHANGED phase

Close ==
    /\ phase = "open"
    /\ \A i \in Items : answer[i] # None
    /\ phase' = IF \E i \in Items : answer[i] = "complete"
                THEN "COMPLETE" ELSE "FAILED"
    /\ UNCHANGED answer

Next == Close \/ \E i \in Items : Answer(i)

Spec == Init /\ [][Next]_vars
=============================================================================
