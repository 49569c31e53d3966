----------------------------- MODULE ChartPhase -----------------------------
(* The life of a time series chart (components/charts/): the phases between    *)
(* "loading" and "ready" (use-chart-phase-orchestrator.ts), the clip, the      *)
(* pulse and the tween of the y domains that move it on, and the path that is  *)
(* animated when the data changes (time-series-chart-shell.tsx and its hooks). *)
(* A commit of React applies what was queued and runs the effects; animations  *)
(* and timers call back between commits, and so between an effect that queues  *)
(* a phase and the commit that applies it.  Data is a version and whether it   *)
(* has more than one point; MaxData bounds the versions and MaxChanges the     *)
(* changes of the chart's other props.                                         *)
EXTENDS Naturals

CONSTANTS MaxData, MaxChanges

ASSUME ChartAssumption == {MaxData, MaxChanges} \subseteq Nat

VARIABLES
    setup,      \* the props that stay
    chartStatus,
    target,     \* the data: its version, and whether there is more than a point
    changes,    \* how often a prop has changed
    chartPhase, \* as rendered, phaseRef.current
    isLoaded,
    queued,     \* the phase that was set and not rendered yet, with isLoaded
    plotData,
    revealTimer,    \* the timer of "revealing" is armed
    yDomains,   \* animatedByAxis: of which data, or in between
    tween,      \* the tween of the y domains that runs: where to, NoTween
    path,       \* animatedPoints: none, on the way, left where they stopped
    raced,      \* a callback has come between a set phase and its commit
    retuned     \* the duration was changed while something was moving

chartVars == <<setup, chartStatus, target, changes, chartPhase, isLoaded, queued, plotData,
               revealTimer, yDomains, tween, path, raced, retuned>>

Statuses == {"loading", "ready"}
Phases == {"loading", "exiting", "gridTweenReady", "revealing", "ready", "exitingReady",
           "gridTweenLoading"}
NoUpdate == [phase |-> "none", loaded |-> FALSE]
Update(phase, loaded) == [phase |-> phase, loaded |-> loaded]

Skeleton(v) == [kind |-> "skeleton", of |-> v]
Target(v) == [kind |-> "target", of |-> v]
Between == [kind |-> "between", of |-> 0]
NoTween == [kind |-> "none", of |-> 0]
Shapes == [kind : {"skeleton", "target"}, of : 0..MaxData]

ChartTypeOK ==
    /\ setup \in [animates : BOOLEAN, tweens : BOOLEAN, yDomainTween : BOOLEAN, close : BOOLEAN,
                  preview : BOOLEAN, pulse : BOOLEAN]
    /\ chartStatus \in Statuses /\ chartPhase \in Phases
    /\ target \in [of : 0..MaxData, many : BOOLEAN] /\ changes \in 0..MaxChanges
    /\ isLoaded \in BOOLEAN
    /\ queued \in {NoUpdate} \cup [phase : Phases, loaded : BOOLEAN]
    /\ plotData \in Shapes
    /\ revealTimer \in BOOLEAN /\ (revealTimer => chartPhase = "revealing")
    /\ yDomains \in Shapes \cup {Between} /\ tween \in Shapes \cup {NoTween}
    /\ path \in {"still", "armed", "moving", "stopped"}
    /\ raced \in BOOLEAN /\ retuned \in BOOLEAN

-----------------------------------------------------------------------------
(* What is mounted.                                                            *)

\* useClipReveal, and the mode of its ChartRevealClip.
Clips == ~setup.preview /\ target.many /\ setup.animates
Concealing == Clips /\ chartPhase = "exitingReady"

\* resolveLineLoadingPulseMode for a series that draws one: while "exiting" the pulse
\* or the sweep runs out.
PulseExits == setup.pulse /\ chartPhase = "exiting"

\* canInteract
CanInteract == isLoaded /\ chartPhase = "ready"

-----------------------------------------------------------------------------
(* The effects of a commit that shows phase p and, if it changed, status s.    *)

\* The effect on chartStatus.
StatusPhase(s) ==
    IF s = "ready"
    THEN IF setup.animates THEN "exiting" ELSE IF setup.tweens THEN "gridTweenReady" ELSE "revealing"
    ELSE IF setup.animates THEN "exitingReady" ELSE IF setup.tweens THEN "gridTweenLoading" ELSE "loading"

\* The enter reveal, on a change of the status or of the signature: it is only for
\* a chart that rests.
Reveals(p, s) == ~setup.preview /\ s = "ready" /\ p = "ready"

\* Mutant: a chart at rest keeps what it plots.
PlotStale(p, s, v) ==
    CASE p = "loading" -> IF s = "loading" THEN Skeleton(v) ELSE plotData
      [] p = "exiting" -> Skeleton(v)
      [] p = "ready" -> plotData
      [] OTHER -> Target(v)

\* The effect on the plotted data.
Plot(p, s, v) ==
    CASE p = "loading" -> IF s = "loading" THEN Skeleton(v) ELSE plotData
      [] p = "exiting" -> Skeleton(v)
      [] OTHER -> Target(v)

\* resolveAnimatedYDestinationDomains and the phases that snap to it.
Destination(p, v) == IF p \in {"loading", "exiting", "gridTweenLoading"} THEN Skeleton(v) ELSE Target(v)
TweenPhase(p) == p \in {"gridTweenLoading", "gridTweenReady"}

DomainsEqual(from, to) == from = to
\* Every axis moves by less than the threshold; not so from the middle of a tween.
ShouldTweenYDomain(from) == ~setup.close \/ from = Between

\* tweenDomains: nothing to do, a snap, or an animation.
Tweens(from, to) == ~DomainsEqual(from, to) /\ setup.yDomainTween /\ ShouldTweenYDomain(from)
AfterTweenReveals(p) == Update("revealing", FALSE)      \* mutant

AfterTween(p) == IF p = "gridTweenLoading" THEN Update("loading", FALSE) ELSE Update("revealing", FALSE)

\* A commit without a change of phase: the domains and the path stay.
SamePhase == UNCHANGED <<yDomains, tween, revealTimer, path>>

\* Mutant: the timer of "revealing" is not cleared with its phase.
EnterTimerKept(p, v, after) ==
    /\ LET moves == TweenPhase(p) /\ Tweens(yDomains, Destination(p, v))
       IN /\ tween' = IF moves THEN Destination(p, v) ELSE NoTween
          /\ yDomains' = IF moves THEN yDomains ELSE Destination(p, v)
          /\ queued' = IF after # NoUpdate THEN after
                       ELSE IF TweenPhase(p) /\ ~moves THEN AfterTween(p)
                       ELSE IF p = "revealing" /\ ~setup.animates THEN Update("ready", TRUE)
                       ELSE NoUpdate
    /\ revealTimer' = (revealTimer \/ (p = "revealing" /\ setup.animates))
    /\ path' = "still"

\* A commit of phase p: tweens are stopped, the domains snap or start to move, the
\* timer of "revealing" is armed, and `after` is what the effects queue.
Enter(p, v, after) ==
    /\ LET moves == TweenPhase(p) /\ Tweens(yDomains, Destination(p, v))
       IN /\ tween' = IF moves THEN Destination(p, v) ELSE NoTween
          /\ yDomains' = IF moves THEN yDomains ELSE Destination(p, v)
          /\ queued' = IF after # NoUpdate THEN after
                       ELSE IF TweenPhase(p) /\ ~moves THEN AfterTween(p)
                       ELSE IF p = "revealing" /\ ~setup.animates THEN Update("ready", TRUE)
                       ELSE NoUpdate
    /\ revealTimer' = (p = "revealing" /\ setup.animates)
    /\ path' = "still"

\* What every commit applies.
Shown == IF queued = NoUpdate THEN chartPhase ELSE queued.phase
Apply == /\ chartPhase' = Shown
         /\ isLoaded' = IF queued = NoUpdate THEN isLoaded ELSE queued.loaded

\* Nothing moves before the first change: the y domains are the phase's, and the path is
\* that of the data until its signature, or the phase, changes.
DomainsAtRest == yDomains = Destination(chartPhase, 0) /\ tween = NoTween
PathAtRest == path = "still"

ChartInit ==
    /\ setup \in [animates : BOOLEAN, tweens : BOOLEAN, yDomainTween : BOOLEAN, close : BOOLEAN,
                  preview : BOOLEAN, pulse : BOOLEAN]
    /\ chartStatus \in Statuses /\ chartPhase = chartStatus
    /\ target \in [of : {0}, many : BOOLEAN] /\ changes = 0
    /\ isLoaded = (chartStatus = "ready")
    /\ queued = IF Reveals(chartPhase, chartStatus) THEN Update("revealing", FALSE) ELSE NoUpdate
    /\ plotData = IF chartStatus = "loading" THEN Skeleton(0) ELSE Target(0)
    /\ revealTimer = FALSE
    /\ DomainsAtRest /\ PathAtRest
    /\ raced = FALSE /\ retuned = FALSE

-----------------------------------------------------------------------------
(* Commits.                                                                    *)

\* The phase that was set is rendered.
RenderPhase ==
    /\ queued # NoUpdate
    /\ Apply
    /\ IF Shown # chartPhase THEN Enter(Shown, target.of, NoUpdate)
       ELSE SamePhase /\ queued' = NoUpdate
    /\ plotData' = Plot(Shown, chartStatus, target.of)
    /\ UNCHANGED <<setup, chartStatus, target, changes, raced, retuned>>

\* The prop chartStatus changes: the effect sets the phase whatever the phase is.
ChangeStatus ==
    /\ changes < MaxChanges
    /\ changes' = changes + 1
    /\ chartStatus' = IF chartStatus = "ready" THEN "loading" ELSE "ready"
    /\ Apply
    /\ LET next == Update(IF Reveals(Shown, chartStatus') THEN "revealing" ELSE StatusPhase(chartStatus'), FALSE)
       IN IF Shown # chartPhase THEN Enter(Shown, target.of, next)
          ELSE SamePhase /\ queued' = next
    /\ plotData' = Plot(Shown, chartStatus', target.of)
    /\ UNCHANGED <<setup, target, raced, retuned>>

\* The signature changes, and the reveal is replayed.
ChangeSignature ==
    /\ changes < MaxChanges /\ queued = NoUpdate
    /\ changes' = changes + 1
    /\ queued' = IF Reveals(chartPhase, chartStatus) THEN Update("revealing", FALSE) ELSE NoUpdate
    /\ UNCHANGED <<setup, chartStatus, target, chartPhase, isLoaded, plotData, revealTimer, yDomains,
                   tween, path, raced, retuned>>

\* Mutant: the y domains on their way are left to arrive where they were sent.
ChangeDataUnderTween ==
    /\ queued = NoUpdate /\ target.of < MaxData
    /\ \E many \in BOOLEAN : target' = [of |-> target.of + 1, many |-> many]
    /\ plotData' = Plot(chartPhase, chartStatus, target'.of)
    /\ LET to == Target(target'.of)
           moves == chartPhase = "ready" /\ Tweens(yDomains, to)
       IN IF chartPhase \in {"ready", "revealing"} /\ tween = NoTween
          THEN /\ tween' = IF moves THEN to ELSE NoTween
               /\ yDomains' = IF moves THEN yDomains ELSE to
          ELSE UNCHANGED <<tween, yDomains>>
    /\ path' = IF ~(chartPhase = "ready" /\ setup.tweens) THEN "still"
               ELSE IF path = "still" THEN "armed" ELSE "moving"
    /\ UNCHANGED <<setup, chartStatus, changes, chartPhase, isLoaded, queued, revealTimer, raced, retuned>>

\* The data changes: a chart that is shown follows it with its domains (at once
\* while it is being revealed) and, at rest, moves its path.
ChangeData ==
    /\ queued = NoUpdate /\ target.of < MaxData
    /\ \E many \in BOOLEAN : target' = [of |-> target.of + 1, many |-> many]
    /\ plotData' = Plot(chartPhase, chartStatus, target'.of)
    /\ LET to == Target(target'.of)
           moves == chartPhase = "ready" /\ Tweens(yDomains, to)
       IN IF chartPhase \in {"ready", "revealing"}
          THEN /\ tween' = IF moves THEN to ELSE NoTween
               /\ yDomains' = IF moves THEN yDomains ELSE to
          ELSE UNCHANGED <<tween, yDomains>>
    /\ path' = IF ~(chartPhase = "ready" /\ setup.tweens) THEN "still"
               ELSE IF path = "still" THEN "armed" ELSE "moving"
    /\ UNCHANGED <<setup, chartStatus, changes, chartPhase, isLoaded, queued, revealTimer, raced, retuned>>

\* The duration of the tween changes: what runs is stopped, and the effects, whose
\* phase and data are the same, do not start it again.
Retune ==
    /\ changes < MaxChanges /\ queued = NoUpdate
    /\ tween # NoTween \/ path \in {"armed", "moving"}
    /\ changes' = changes + 1
    /\ tween' = NoTween /\ retuned' = TRUE
    /\ path' = CASE path = "armed" -> "still" [] path = "moving" -> "stopped" [] OTHER -> path
    /\ UNCHANGED <<setup, chartStatus, target, chartPhase, isLoaded, queued, plotData, revealTimer,
                   yDomains, raced>>

-----------------------------------------------------------------------------
(* Callbacks: setChartPhase on top of what is queued.                          *)

SetPhase(u) == queued' = u /\ raced' = (raced \/ queued # NoUpdate)
props == <<setup, chartStatus, target, changes, plotData>>

\* notifyLoadingPulseComplete
PulseComplete ==
    /\ PulseExits
    /\ SetPhase(Update("gridTweenReady", FALSE))
    /\ UNCHANGED <<props, chartPhase, isLoaded, revealTimer, yDomains, tween, path, retuned>>

\* notifyRevealConcealComplete
RevealConcealComplete ==
    /\ Concealing
    /\ SetPhase(Update("gridTweenLoading", FALSE))
    /\ UNCHANGED <<props, chartPhase, isLoaded, revealTimer, yDomains, tween, path, retuned>>

\* A frame of the tween: the scales change, which stops the path's animation and
\* leaves its points where they are.
StopPath == path' = CASE path = "armed" -> "still" [] path = "moving" -> "stopped" [] OTHER -> path
TweenFrame ==
    /\ tween # NoTween /\ yDomains # Between
    /\ yDomains' = Between /\ StopPath
    /\ UNCHANGED <<props, chartPhase, isLoaded, queued, revealTimer, tween, raced, retuned>>

\* notifyYDomainTweenComplete, which does nothing in other phases.
YDomainTweenComplete ==
    /\ tween # NoTween
    /\ yDomains' = tween /\ tween' = NoTween /\ StopPath
    /\ IF TweenPhase(chartPhase) THEN SetPhase(AfterTween(chartPhase)) ELSE UNCHANGED <<queued, raced>>
    /\ UNCHANGED <<props, chartPhase, isLoaded, revealTimer, retuned>>

RevealTimer ==
    /\ revealTimer
    /\ revealTimer' = FALSE
    /\ SetPhase(Update("ready", TRUE))
    /\ UNCHANGED <<props, chartPhase, isLoaded, yDomains, tween, path, retuned>>

PathFrame ==
    /\ path = "armed"
    /\ path' = "moving"
    /\ UNCHANGED <<props, chartPhase, isLoaded, queued, revealTimer, yDomains, tween, raced, retuned>>

PathComplete ==
    /\ path = "moving"
    /\ path' = "still"
    /\ UNCHANGED <<props, chartPhase, isLoaded, queued, revealTimer, yDomains, tween, raced, retuned>>

ChartNext ==
    \/ RenderPhase \/ ChangeStatus \/ ChangeSignature \/ ChangeData \/ Retune
    \/ PulseComplete \/ RevealConcealComplete \/ TweenFrame \/ YDomainTweenComplete
    \/ RevealTimer \/ PathFrame \/ PathComplete

ChartSpec == ChartInit /\ [][ChartNext]_chartVars

-----------------------------------------------------------------------------
AtRest == queued = NoUpdate /\ tween = NoTween

\* A chart between two phases has something under way that brings it to the next,
\* and one that rests rests in the phase of its status.  Set aside are a callback
\* between a set phase and its commit, a duration that changes in flight, the clip
\* that is not mounted for a preview or for at most one point, and a series
\* without a pulse.
NotStranded ==
    \/ queued # NoUpdate \/ raced \/ retuned
    \/ CASE chartPhase = "exiting" -> TRUE
         [] chartPhase = "exitingReady" -> Clips \/ setup.preview \/ ~target.many
         [] chartPhase \in {"gridTweenLoading", "gridTweenReady"} -> tween # NoTween
         [] chartPhase = "revealing" -> revealTimer
         [] OTHER -> chartPhase = chartStatus

\* The y domains of a chart that rests are those of the data it shows, however
\* the data changed under a tween.
DomainsFit == AtRest /\ chartPhase = "ready" => yDomains = Target(target.of) \/ retuned

\* A chart takes the pointer only with its own data on its own scales: never while
\* the skeleton is plotted, and never before its reveal has ended.
InteractsWithData == CanInteract => plotData = Target(target.of) /\ ~revealTimer
=============================================================================
