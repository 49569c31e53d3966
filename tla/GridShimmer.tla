---------------------------- MODULE GridShimmer ----------------------------
(* The light that runs over the lines of a chart's grid while it loads          *)
(* (use-grid-shimmer.ts, grid.tsx): one effect, that starts a shine, and the     *)
(* timer between two of them.  An effect is known by its number; progress is in  *)
(* steps.  The sweep that is run once is asked for by no caller.  Bounds:        *)
(* MaxEffects.                                                                   *)
EXTENDS Naturals

CONSTANTS Cycle, MaxEffects

ASSUME ShimmerAssumption == Cycle \in Nat \ {0} /\ MaxEffects \in Nat

VARIABLES
    grid,       \* [shimmer, sync, loading, sized]: its props, the phase and the plot
    effect,     \* the number of the last effect
    shining,    \* the effects whose shine moves progress
    pauses,     \* the effects whose timer is armed
    cancelled,
    shine       \* progress

shimmerVars == <<grid, effect, shining, pauses, cancelled, shine>>

\* shimmerEnabled: in the loading chrome, and where there is a width.
ShimmerEnabled(g) == g.shimmer /\ g.loading /\ g.sized

\* Mutant: the cleanup of the loop that is not in step, taken for both.
CleanUpShineOnly == UNCHANGED <<cancelled, pauses>>

\* The cleanup stops the shine, and the timer of a loop in step with the pulse.
CleanUp ==
    IF grid.sync THEN cancelled' = cancelled \cup {effect} /\ pauses' = pauses \ {effect}
    ELSE UNCHANGED <<cancelled, pauses>>

\* Another value of what the effect reads: cleanup, and the effect anew.
Rerun ==
    /\ effect < MaxEffects /\ effect' = effect + 1
    /\ CleanUp
    /\ shining' = IF ShimmerEnabled(grid') THEN {effect'} ELSE {}
    /\ shine' = IF ShimmerEnabled(grid') THEN 0 ELSE shine

ShimmerInit ==
    /\ grid \in [shimmer : {TRUE}, sync : BOOLEAN, loading : BOOLEAN, sized : BOOLEAN]
    /\ effect = 0 /\ shining = IF ShimmerEnabled(grid) THEN {0} ELSE {}
    /\ pauses = {} /\ cancelled = {} /\ shine = 0

\* The phase or the size changes, or a prop; the effect runs if it read it.
ChangeGrid ==
    /\ \E field \in {"shimmer", "sync", "loading", "sized"} :
        grid' = [grid EXCEPT ![field] = ~grid[field]]
    /\ IF ShimmerEnabled(grid) # ShimmerEnabled(grid') \/ grid.sync # grid'.sync THEN Rerun
       ELSE UNCHANGED <<effect, shining, pauses, cancelled, shine>>

\* The speed changes.
ChangeSpeed == UNCHANGED grid /\ Rerun

\* A frame of every animation that moves progress.
ShineStep ==
    /\ shining # {} /\ shine < Cycle /\ shine' = shine + 1
    /\ UNCHANGED <<grid, effect, shining, pauses, cancelled>>

\* onComplete of a loop in step arms the timer; the other repeats by itself.
ShineDone ==
    /\ shining # {} /\ shine = Cycle
    /\ IF grid.sync THEN shining' = {} /\ pauses' = pauses \cup (shining \ cancelled) /\ UNCHANGED shine
       ELSE shine' = 0 /\ UNCHANGED <<shining, pauses>>
    /\ UNCHANGED <<grid, effect, cancelled>>

\* runSyncedCycle after its pause: the animation it starts ends any other of progress.
PauseOver ==
    /\ \E e \in pauses :
        /\ pauses' = pauses \ {e}
        /\ IF e \in cancelled THEN UNCHANGED <<shining, shine>> ELSE shining' = {e} /\ shine' = 0
    /\ UNCHANGED <<grid, effect, cancelled>>

ShimmerNext == ChangeGrid \/ ChangeSpeed \/ ShineStep \/ ShineDone \/ PauseOver

-----------------------------------------------------------------------------
\* The light runs while the grid loads and can be seen, and no longer: no timer
\* of an effect before brings it back, and while it loads something goes on.
ShinesWhileLoading ==
    LET going == shining \cup pauses
    IN IF ShimmerEnabled(grid) THEN going = {effect} /\ shining \cap pauses = {} ELSE going = {}

(* A shine is never cut short: unless the effect is another, it begins anew     *)
(* only from the end of its way.                                                *)
ShineRunsOut == [][effect' = effect /\ shine' < shine => shine = Cycle]_shimmerVars
=============================================================================
