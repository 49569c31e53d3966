----------------------------- MODULE ChartProofs -----------------------------
(* What is proved of the charts of the console for every value of their        *)
(* constants: a chart's parts, like the others, have an invariant each, and a  *)
(* theorem of Console combines those it is about.                              *)
EXTENDS ConsoleProofs

-----------------------------------------------------------------------------
(* Products and quotients.                                                     *)

\* A part of a whole, as rounded pixels of a length.
LEMMA RoundedPart ==
  ASSUME NEW h \in Nat, NEW s \in Nat \ {0}, NEW d \in 0..s
  PROVE  (2 * h * d + s) \div (2 * s) \in 0..h
<1> DEFINE a == 2 * h * d + s
           b == 2 * s
           q == a \div b
           w == h * s
           v == h * d
<1>1. v \in Nat /\ w \in Nat /\ v <= w
  BY ProductsInOrder
<1>2. a = 2 * v + s
  OBVIOUS
<1>3. a \in Nat /\ b \in Nat \ {0} /\ b = 2 * s
  BY <1>1, <1>2
<1> HIDE DEF a, v, b
<1>4. q \in Int /\ b * q <= a /\ a < b * q + b
  BY <1>3
<1> HIDE DEF q
<1>5. q >= 0
  <2>1. CASE q <= -1
    <3>1. b * q <= b * (-1)
      BY <1>3, <1>4, <2>1, ProductsInOrder
    <3> QED BY <1>3, <1>4, <3>1
  <2> QED BY <1>4, <2>1
<1>6. q <= h
  <2>1. CASE q >= h + 1
    <3>1. b * (h + 1) <= b * q
      BY <1>3, <1>4, <2>1, ProductsInOrder
    <3>2. b * (h + 1) = 2 * w + 2 * s
      BY <1>3
    <3> DEFINE z == b * q  y == b * (h + 1)
    <3>3. z \in Int /\ y \in Int /\ y <= z /\ z <= a /\ y = 2 * w + 2 * s
      BY <1>3, <1>4, <3>1, <3>2
    <3> HIDE DEF z, y, w
    <3> QED BY <1>1, <1>2, <3>3
  <2> QED BY <1>4, <2>1
<1> QED BY <1>4, <1>5, <1>6 DEF q, a, b

-----------------------------------------------------------------------------
(* The phases of a chart.                                                      *)

\* The status a phase leads to.
LeadsTo(p) == IF p \in {"loading", "exitingReady", "gridTweenLoading"} THEN "loading" ELSE "ready"

\* The phase that a chart which was not interrupted is in, or is to be rendered in, is
\* on the way to its status; what is queued is another phase than the one shown; and
\* what moves a chart at rest moves it to its data.
PhaseInv ==
    /\ ChartTypeOK
    /\ "exitingReady" \in {chartPhase, queued.phase} => setup.animates
    /\ ~raced => LeadsTo(Shown) = chartStatus
    /\ ~raced /\ queued # NoUpdate => queued.phase # chartPhase
    /\ chartPhase = "ready" /\ ~retuned =>
         IF tween = NoTween THEN yDomains = Target(target.of) ELSE tween = Target(target.of)
    /\ chartPhase = "ready" => plotData = Target(target.of)
    /\ NotStranded

LEMMA PhaseTells == PhaseInv => NotStranded /\ InteractsWithData /\ DomainsFit
  BY DEF PhaseInv, ChartTypeOK, InteractsWithData, CanInteract, DomainsFit, AtRest

LEMMA PhaseInitInv == ChartInit => PhaseInv
<1> SUFFICES ASSUME ChartInit
             PROVE  PhaseInv
  OBVIOUS
<1> USE ChartAssumption DEF ChartInit, Statuses, Phases, NoUpdate, Update, Skeleton, Target, NoTween, Between,
        DomainsAtRest, PathAtRest, Destination, Reveals
<1>1. 0 \in 0..MaxData /\ 0 \in 0..MaxChanges
  OBVIOUS
<1>2. plotData \in Shapes /\ yDomains \in Shapes
  BY <1>1 DEF Shapes
<1>3. ChartTypeOK
  BY <1>1, <1>2 DEF ChartTypeOK
<1>4. LeadsTo(Shown) = chartStatus
  BY DEF LeadsTo, Shown
<1>5. NotStranded
  BY DEF NotStranded
<1> QED BY <1>3, <1>4, <1>5 DEF PhaseInv
Updates == {NoUpdate} \cup [phase : Phases, loaded : BOOLEAN]

\* What a commit of another phase leaves.
LEMMA EnterTells ==
  ASSUME ChartTypeOK, NEW p \in Phases, NEW v \in 0..MaxData, NEW after \in Updates, Enter(p, v, after)
  PROVE  /\ tween' \in Shapes \cup {NoTween} /\ yDomains' \in Shapes \cup {Between} /\ queued' \in Updates
         /\ path' = "still" /\ revealTimer' \in BOOLEAN /\ (revealTimer' => p = "revealing")
         /\ after # NoUpdate => queued' = after
         /\ after = NoUpdate /\ queued' # NoUpdate =>
              LeadsTo(queued'.phase) = LeadsTo(p) /\ queued'.phase # p /\ queued'.phase # "exitingReady"
         /\ p = "ready" => tween' = NoTween /\ yDomains' = Target(v)
         /\ queued' = NoUpdate /\ TweenPhase(p) => tween' # NoTween
         /\ queued' = NoUpdate /\ p = "revealing" => revealTimer'
<1> USE DEF ChartTypeOK, Updates, NoUpdate, Update, NoTween
<1>1. Destination(p, v) \in Shapes /\ Destination(p, v) # NoTween
  BY DEF Destination, Shapes, Skeleton, Target
<1>2. tween' \in Shapes \cup {NoTween} /\ yDomains' \in Shapes \cup {Between}
  BY <1>1 DEF Enter
<1>3. path' = "still" /\ revealTimer' = (p = "revealing" /\ setup.animates)
  BY DEF Enter
<1>4. after # NoUpdate => queued' = after
  BY DEF Enter
<1>5. ASSUME after = NoUpdate
      PROVE  /\ queued' \in Updates
             /\ queued' # NoUpdate =>
                  LeadsTo(queued'.phase) = LeadsTo(p) /\ queued'.phase # p /\ queued'.phase # "exitingReady"
             /\ queued' = NoUpdate /\ TweenPhase(p) => tween' # NoTween
             /\ queued' = NoUpdate /\ p = "revealing" => revealTimer'
  BY <1>1, <1>3, <1>5 DEF Enter, AfterTween, TweenPhase, LeadsTo, Phases
<1>6. p = "ready" => tween' = NoTween /\ yDomains' = Target(v)
  BY DEF Enter, TweenPhase, Destination
<1> QED BY <1>2, <1>3, <1>4, <1>5, <1>6

LEMMA PhaseStep == PhaseInv /\ [ChartNext]_chartVars => PhaseInv'
<1> SUFFICES ASSUME PhaseInv, [ChartNext]_chartVars
             PROVE  PhaseInv'
  OBVIOUS
<1> USE ChartAssumption DEF PhaseInv, ChartTypeOK
<1>u. queued \in Updates /\ Shown \in Phases /\ target.of \in 0..MaxData
  BY DEF Updates, Shown, NoUpdate
<1>1. CASE RenderPhase
  <2>1. /\ queued # NoUpdate /\ chartPhase' = Shown /\ Shown = queued.phase /\ isLoaded' = queued.loaded
        /\ plotData' = Plot(Shown, chartStatus, target.of)
        /\ UNCHANGED <<setup, chartStatus, target, changes, raced, retuned>>
    BY <1>1 DEF RenderPhase, Apply, Shown
  <2>2. plotData' \in Shapes /\ (Shown = "ready" => plotData' = Target(target.of))
    BY <2>1, <1>u DEF Plot, Shapes, Skeleton, Target
  <2>3. CASE Shown # chartPhase
    <3>1. Enter(Shown, target.of, NoUpdate)
      BY <1>1, <2>3 DEF RenderPhase
    <3>2. NoUpdate \in Updates
      BY DEF Updates
    <3>3. /\ tween' \in Shapes \cup {NoTween} /\ yDomains' \in Shapes \cup {Between} /\ queued' \in Updates
          /\ path' = "still" /\ revealTimer' \in BOOLEAN /\ (revealTimer' => Shown = "revealing")
          /\ queued' # NoUpdate =>
               LeadsTo(queued'.phase) = LeadsTo(Shown) /\ queued'.phase # Shown /\ queued'.phase # "exitingReady"
          /\ Shown = "ready" => tween' = NoTween /\ yDomains' = Target(target.of)
          /\ queued' = NoUpdate /\ TweenPhase(Shown) => tween' # NoTween
          /\ queued' = NoUpdate /\ Shown = "revealing" => revealTimer'
      BY <1>u, <3>1, <3>2, EnterTells
    <3>4. ChartTypeOK'
      BY <1>u, <2>1, <2>2, <3>3 DEF Updates, NoUpdate
    <3>5. "exitingReady" \in {chartPhase', queued'.phase} => setup'.animates
      BY <2>1, <3>3 DEF NoUpdate
    <3>6. ~raced' => LeadsTo(Shown') = chartStatus'
      BY <2>1, <3>3 DEF Shown
    <3>7. NotStranded'
      BY <2>1, <3>3, <3>5, <3>6 DEF NotStranded, Clips, Shown, LeadsTo, TweenPhase, Phases, Statuses
    <3> QED BY <2>1, <2>2, <3>3, <3>4, <3>5, <3>6, <3>7
  <2>4. CASE Shown = chartPhase
    <3>1. queued' = NoUpdate /\ UNCHANGED <<yDomains, tween, revealTimer, path>>
      BY <1>1, <2>4 DEF RenderPhase, SamePhase
    <3>2. raced
      BY <2>1, <2>4
    <3>3. ChartTypeOK'
      BY <2>1, <2>2, <2>4, <3>1
    <3>4. NotStranded'
      BY <2>1, <3>2 DEF NotStranded
    <3>5. queued'.phase # "exitingReady"
      BY <3>1 DEF NoUpdate
    <3> QED BY <2>1, <2>2, <2>4, <3>1, <3>2, <3>3, <3>4, <3>5
  <2> QED BY <2>3, <2>4
<1>2. CASE ChangeStatus
  <2> DEFINE next == Update(IF Reveals(Shown, chartStatus') THEN "revealing" ELSE StatusPhase(chartStatus'), FALSE)
  <2>1. /\ changes < MaxChanges /\ changes' = changes + 1
        /\ chartStatus' = IF chartStatus = "ready" THEN "loading" ELSE "ready"
        /\ chartPhase' = Shown /\ isLoaded' = IF queued = NoUpdate THEN isLoaded ELSE queued.loaded
        /\ plotData' = Plot(Shown, chartStatus', target.of)
        /\ UNCHANGED <<setup, target, raced, retuned>>
    BY <1>2 DEF ChangeStatus, Apply
  <2>2. plotData' \in Shapes /\ (Shown = "ready" => plotData' = Target(target.of))
    BY <2>1, <1>u DEF Plot, Shapes, Skeleton, Target
  <2>3. /\ next \in Updates /\ next # NoUpdate
        /\ next.phase = IF Reveals(Shown, chartStatus') THEN "revealing" ELSE StatusPhase(chartStatus')
    BY DEF Updates, Update, NoUpdate, StatusPhase, Phases
  <2>4. LeadsTo(next.phase) = chartStatus' /\ (next.phase = "exitingReady" => setup.animates)
    BY <2>1, <2>3 DEF LeadsTo, StatusPhase, Reveals, Statuses
  <2>5. ~raced => next.phase # Shown
    BY <2>1, <2>4 DEF Statuses
  <2>6. Shown = "exitingReady" => setup.animates
    BY DEF Shown
  <2>7. /\ queued' = next /\ chartStatus' \in Statuses /\ changes' \in 0..MaxChanges /\ isLoaded' \in BOOLEAN
        /\ tween' \in Shapes \cup {NoTween} /\ yDomains' \in Shapes \cup {Between}
        /\ path' \in {"still", "armed", "moving", "stopped"}
        /\ revealTimer' \in BOOLEAN /\ (revealTimer' => Shown = "revealing")
        /\ Shown = "ready" /\ ~retuned =>
             IF tween' = NoTween THEN yDomains' = Target(target.of) ELSE tween' = Target(target.of)
    <3>1. changes' \in 0..MaxChanges /\ chartStatus' \in Statuses
      BY <2>1 DEF Statuses
    <3>2. isLoaded' \in BOOLEAN
      BY <2>1 DEF NoUpdate
    <3>3. CASE Shown # chartPhase
      <4>1. Enter(Shown, target.of, next)
        BY <1>2, <3>3 DEF ChangeStatus
      <4> HIDE DEF next
      <4> QED BY <1>u, <2>3, <3>1, <3>2, <4>1, EnterTells
    <3>4. CASE Shown = chartPhase
      <4>1. queued' = next /\ UNCHANGED <<yDomains, tween, revealTimer, path>>
        BY <1>2, <3>4 DEF ChangeStatus, SamePhase
      <4> HIDE DEF next
      <4> QED BY <3>1, <3>2, <3>4, <4>1
    <3> QED BY <3>3, <3>4
  <2> HIDE DEF next
  <2>8. ChartTypeOK'
    BY <1>u, <2>1, <2>2, <2>3, <2>7 DEF Updates
  <2>9. NotStranded'
    BY <2>3, <2>7 DEF NotStranded
  <2>10. Shown' = next.phase
    BY <2>3, <2>7 DEF Shown
  <2> QED BY <2>1, <2>2, <2>3, <2>4, <2>5, <2>6, <2>7, <2>8, <2>9, <2>10
<1>3. CASE ChangeSignature
  <2>1. /\ changes < MaxChanges /\ queued = NoUpdate /\ changes' = changes + 1
        /\ queued' = IF Reveals(chartPhase, chartStatus) THEN Update("revealing", FALSE) ELSE NoUpdate
        /\ UNCHANGED <<setup, chartStatus, target, chartPhase, isLoaded, plotData, revealTimer, yDomains,
                       tween, path, raced, retuned>>
    BY <1>3 DEF ChangeSignature
  <2>2. queued' \in Updates /\ changes' \in 0..MaxChanges
    BY <2>1 DEF Updates, Update, Phases
  <2>3. ChartTypeOK'
    <3>1. UNCHANGED <<setup, chartStatus, target, chartPhase, isLoaded, plotData, revealTimer, yDomains,
                      tween, path, raced, retuned>>
      BY <2>1
    <3> QED BY <2>2, <3>1 DEF Updates
  <2>4. NotStranded'
    BY <2>1 DEF NotStranded, Clips
  <2>5. LeadsTo(Shown') = LeadsTo(Shown)
    BY <2>1 DEF Shown, LeadsTo, Reveals, Update, NoUpdate
  <2> QED BY <2>1, <2>3, <2>4, <2>5 DEF Reveals, Update, NoUpdate
<1>4. CASE ChangeData
  <2> DEFINE to == Target(target'.of)  moves == chartPhase = "ready" /\ Tweens(yDomains, to)
  <2>1. /\ queued = NoUpdate /\ target' \in [of : 0..MaxData, many : BOOLEAN]
        /\ plotData' = Plot(chartPhase, chartStatus, target'.of)
        /\ path' \in {"still", "armed", "moving", "stopped"}
        /\ UNCHANGED <<setup, chartStatus, changes, chartPhase, isLoaded, queued, revealTimer, raced, retuned>>
    BY <1>4 DEF ChangeData
  <2>2. IF chartPhase \in {"ready", "revealing"}
        THEN /\ tween' = IF moves THEN to ELSE NoTween
             /\ yDomains' = IF moves THEN yDomains ELSE to
        ELSE UNCHANGED <<tween, yDomains>>
    BY <1>4 DEF ChangeData
  <2>3. to \in Shapes /\ to # NoTween
    BY <2>1 DEF Shapes, Target, NoTween
  <2> HIDE DEF to
  <2>4. plotData' \in Shapes /\ (chartPhase = "ready" => plotData' = Target(target'.of))
    BY <2>1 DEF Plot, Shapes, Skeleton, Target
  <2>5. tween' \in Shapes \cup {NoTween} /\ yDomains' \in Shapes \cup {Between}
    BY <2>2, <2>3
  <2>6. chartPhase = "ready" => IF tween' = NoTween THEN yDomains' = Target(target'.of) ELSE tween' = Target(target'.of)
    BY <2>2, <2>3 DEF to
  <2>7. ChartTypeOK'
    BY <2>1, <2>4, <2>5
  <2>8. Shown' = Shown
    BY <2>1 DEF Shown
  <2>9. chartPhase \in {"gridTweenLoading", "gridTweenReady"} => tween' = tween
    BY <2>2
  <2>10. NotStranded'
    BY <2>1, <2>9 DEF NotStranded, Clips
  <2> QED BY <2>1, <2>4, <2>6, <2>7, <2>8, <2>10
<1>5. CASE Retune
  <2>1. /\ changes < MaxChanges /\ queued = NoUpdate /\ changes' = changes + 1
        /\ tween' = NoTween /\ retuned' = TRUE /\ path' \in {"still", "armed", "moving", "stopped"}
        /\ UNCHANGED <<setup, chartStatus, target, chartPhase, isLoaded, queued, plotData, revealTimer, yDomains, raced>>
    BY <1>5 DEF Retune
  <2>2. changes' \in 0..MaxChanges
    BY <2>1
  <2>3. Shown' = Shown
    BY <2>1 DEF Shown
  <2>4. NotStranded'
    BY <2>1 DEF NotStranded
  <2> QED BY <2>1, <2>2, <2>3, <2>4
\* A callback that sets a phase on the way to the status of the one that is shown.
<1>c. ASSUME NEW u \in Updates, SetPhase(u), u # NoUpdate, u.phase # chartPhase, u.phase # "exitingReady",
             LeadsTo(u.phase) = LeadsTo(chartPhase), UNCHANGED <<setup, chartStatus, target, changes, plotData>>,
             UNCHANGED <<chartPhase, isLoaded, retuned>>,
             revealTimer' \in BOOLEAN, revealTimer' => revealTimer,
             yDomains' \in Shapes \cup {Between}, tween' \in Shapes \cup {NoTween},
             path' \in {"still", "armed", "moving", "stopped"},
             chartPhase = "ready" => UNCHANGED <<yDomains, tween>>
      PROVE  PhaseInv'
  <2>1. queued' = u /\ raced' = (raced \/ queued # NoUpdate)
    BY <1>c DEF SetPhase
  <2>2. ChartTypeOK'
    BY <1>c, <2>1 DEF Updates
  <2>3. NotStranded'
    BY <1>c, <2>1 DEF NotStranded
  <2>4. Shown' = u.phase /\ (~raced' => Shown = chartPhase)
    BY <1>c, <2>1 DEF Shown
  <2> QED BY <1>c, <2>1, <2>2, <2>3, <2>4
<1>6. CASE PulseComplete
  <2>1. Update("gridTweenReady", FALSE) \in Updates /\ Update("gridTweenReady", FALSE).phase = "gridTweenReady"
    BY DEF Update, Updates, Phases
  <2>2. Update("gridTweenReady", FALSE) # NoUpdate
    BY DEF Update, NoUpdate
  <2>3. chartPhase = "exiting" /\ LeadsTo("gridTweenReady") = LeadsTo(chartPhase)
    BY <1>6 DEF PulseComplete, PulseExits, LeadsTo
  <2> QED BY <1>6, <2>1, <2>2, <2>3, <1>c DEF PulseComplete, props
<1>7. CASE RevealConcealComplete
  <2>1. Update("gridTweenLoading", FALSE) \in Updates /\ Update("gridTweenLoading", FALSE).phase = "gridTweenLoading"
    BY DEF Update, Updates, Phases
  <2>2. Update("gridTweenLoading", FALSE) # NoUpdate
    BY DEF Update, NoUpdate
  <2>3. chartPhase = "exitingReady" /\ LeadsTo("gridTweenLoading") = LeadsTo(chartPhase)
    BY <1>7 DEF RevealConcealComplete, Concealing, LeadsTo
  <2> QED BY <1>7, <2>1, <2>2, <2>3, <1>c DEF RevealConcealComplete, props
<1>8. CASE TweenFrame
  <2>1. /\ tween # NoTween /\ yDomains' = Between /\ path' \in {"still", "armed", "moving", "stopped"}
        /\ UNCHANGED <<setup, chartStatus, target, changes, plotData, chartPhase, isLoaded, queued, revealTimer, tween, raced, retuned>>
    BY <1>8 DEF TweenFrame, StopPath, props
  <2>2. Shown' = Shown
    BY <2>1 DEF Shown
  <2>3. NotStranded'
    BY <2>1 DEF NotStranded, Clips
  <2>4. ChartTypeOK'
    BY <2>1
  <2> QED BY <2>1, <2>2, <2>3, <2>4
<1>9. CASE YDomainTweenComplete
  <2>1. /\ tween # NoTween /\ yDomains' = tween /\ tween' = NoTween /\ path' \in {"still", "armed", "moving", "stopped"}
        /\ UNCHANGED <<setup, chartStatus, target, changes, plotData, chartPhase, isLoaded, revealTimer, retuned>>
    BY <1>9 DEF YDomainTweenComplete, StopPath, props
  <2>2. CASE TweenPhase(chartPhase)
    <3>1. AfterTween(chartPhase) \in Updates /\ AfterTween(chartPhase) # NoUpdate
      BY DEF AfterTween, Update, Updates, Phases, NoUpdate
    <3>2. /\ AfterTween(chartPhase).phase \notin {chartPhase, "exitingReady"}
          /\ LeadsTo(AfterTween(chartPhase).phase) = LeadsTo(chartPhase)
          /\ chartPhase # "ready"
      BY <2>2 DEF AfterTween, Update, LeadsTo, TweenPhase
    <3>3. SetPhase(AfterTween(chartPhase))
      BY <1>9, <2>2 DEF YDomainTweenComplete
    <3> QED BY <2>1, <3>1, <3>2, <3>3, <1>c
  <2>3. CASE ~TweenPhase(chartPhase)
    <3>1. UNCHANGED <<queued, raced>>
      BY <1>9, <2>3 DEF YDomainTweenComplete
    <3>2. Shown' = Shown
      BY <2>1, <3>1 DEF Shown
    <3>3. NotStranded'
      BY <2>1, <2>3, <3>1 DEF NotStranded, Clips, TweenPhase
    <3>4. ChartTypeOK'
      BY <2>1, <3>1
    <3> QED BY <2>1, <3>1, <3>2, <3>3, <3>4
  <2> QED BY <2>2, <2>3
<1>10. CASE RevealTimer
  <2>1. Update("ready", TRUE) \in Updates /\ Update("ready", TRUE).phase = "ready"
    BY DEF Update, Updates, Phases
  <2>2. Update("ready", TRUE) # NoUpdate
    BY DEF Update, NoUpdate
  <2>3. chartPhase = "revealing" /\ LeadsTo("ready") = LeadsTo(chartPhase)
    BY <1>10 DEF RevealTimer, LeadsTo
  <2> QED BY <1>10, <2>1, <2>2, <2>3, <1>c DEF RevealTimer, props
<1>11. CASE PathFrame \/ PathComplete
  <2>1. /\ path' \in {"still", "armed", "moving", "stopped"}
        /\ UNCHANGED <<setup, chartStatus, target, changes, plotData, chartPhase, isLoaded, queued, revealTimer, yDomains,
                       tween, raced, retuned>>
    BY <1>11 DEF PathFrame, PathComplete, props
  <2>2. Shown' = Shown /\ NotStranded'
    BY <2>1 DEF Shown, NotStranded, Clips
  <2>3. ChartTypeOK'
    BY <2>1
  <2> QED BY <2>1, <2>2, <2>3
<1>12. CASE UNCHANGED chartVars
  BY <1>12 DEF chartVars, Shown, NotStranded, Clips
<1> QED
  BY <1>1, <1>2, <1>3, <1>4, <1>5, <1>6, <1>7, <1>8, <1>9, <1>10, <1>11, <1>12 DEF ChartNext
-----------------------------------------------------------------------------
(* The live line.                                                              *)

\* The dot is the point of the frame: the last but one of what the line is drawn of.
\* The two points of a frame end what they are appended to.
LEMMA WithTips ==
  ASSUME NEW s \in Seq(LivePoints), NEW f \in LiveFrame
  PROVE  /\ s \o Tips(f) \in Seq([time : Int, value : Int])
         /\ Len(s \o Tips(f)) = Len(s) + 2
         /\ \A i \in 1..Len(s) : (s \o Tips(f))[i] = s[i]
         /\ (s \o Tips(f))[Len(s) + 1] = [time |-> f.now, value |-> f.value]
         /\ (s \o Tips(f))[Len(s) + 2] = [time |-> f.now + TickUnit, value |-> f.value]
<1> DEFINE two == Tips(f)  R == [time : Int, value : Int]  n == Len(s)
<1>1. /\ two \in Seq(R) /\ Len(two) = 2
      /\ two[1] = [time |-> f.now, value |-> f.value] /\ two[2] = [time |-> f.now + TickUnit, value |-> f.value]
  <2>1. f.now \in Int /\ f.value \in Int /\ f.now + TickUnit \in Int
    <3>1. f.now \in Int /\ f.value \in Int
      BY DEF LiveFrame
    <3> QED BY <3>1, LiveChartAssumption
  <2> QED BY <2>1 DEF Tips
<1>2. s \in Seq(R) /\ n \in Nat
  <2>1. LivePoints \subseteq R
    BY DEF LivePoints
  <2>2. s \in Seq(R)
    <3> HIDE DEF R
    <3> QED BY <2>1, SeqMonotonic
  <2> QED BY <2>2, LenProperties
<1> HIDE DEF two, R, n
<1>3. /\ s \o two \in Seq(R) /\ Len(s \o two) = n + 2
      /\ \A i \in 1..(n + 2) : (s \o two)[i] = IF i <= n THEN s[i] ELSE two[i - n]
  <2>1. /\ s \o two \in Seq(R) /\ Len(s \o two) = Len(s) + Len(two)
        /\ \A i \in 1..(Len(s) + Len(two)) : (s \o two)[i] = IF i <= Len(s) THEN s[i] ELSE two[i - Len(s)]
    BY <1>1, <1>2, ConcatProperties
  <2> QED BY <1>1, <2>1 DEF n
<1>4. /\ n + 1 \in 1..(n + 2) /\ ~(n + 1 <= n) /\ (n + 1) - n = 1
      /\ n + 2 \in 1..(n + 2) /\ ~(n + 2 <= n) /\ (n + 2) - n = 2
  BY <1>2
<1>5. (s \o two)[n + 1] = two[1] /\ (s \o two)[n + 2] = two[2]
  BY <1>3, <1>4
<1>6. \A i \in 1..n : (s \o two)[i] = s[i]
  BY <1>2, <1>3
<1> QED BY <1>1, <1>3, <1>5, <1>6 DEF two, R, n

LEMMA DotOfFrame ==
  ASSUME NEW f \in LiveFrame, NEW s \in Seq(LivePoints)
  PROVE  LiveDot(f, s) = [x |-> XAt(f, f.now), y |-> YAt(f, 100 * f.value)]
<1> USE LiveChartAssumption
<1> DEFINE n == Len(s)  B == {i \in 1..n : s[i].time < WindowStart(f)}  start == Max({1} \cup B)
           earlier == SubSeq(s, start, n)  data == ContextData(f, s)
<1>1. n \in Nat
  BY LenProperties
<1>2. start \in Nat /\ start >= 1
  <2>1. {1} \cup B \subseteq 1..(n + 1) /\ 1 \in {1} \cup B
    BY <1>1
  <2> DEFINE T == {1} \cup B
  <2>2. T \subseteq 1..(n + 1) /\ 1 \in T
    BY <2>1
  <2> HIDE DEF T
  <2>3. PICK x \in T : \A y \in T : y <= x
    <3>1. T \subseteq Int /\ T # {} /\ n + 1 \in Int /\ \A y \in T : y <= n + 1
      BY <1>1, <2>2
    <3> QED BY <3>1, GreatestIn
  <2>4. Max(T) = x /\ x >= 1 /\ x \in Nat
    BY <1>1, <2>2, <2>3, MaxIs
  <2> QED BY <2>4 DEF T
<1> HIDE DEF start
<1>3. earlier \in Seq(LivePoints)
  <2>1. \A i \in start..n : s[i] \in LivePoints
    BY <1>1, <1>2, ElementOfSeq
  <2> QED BY <1>1, <1>2, <2>1, SubSeqProperties
<1>4. data = earlier \o Tips(f)
  BY DEF ContextData, start
<1> HIDE DEF earlier, data
<1>5. Len(earlier) \in Nat
  BY <1>3, LenProperties
<1>6. Len(data) = Len(earlier) + 2 /\ data[Len(earlier) + 1] = [time |-> f.now, value |-> f.value]
  BY <1>3, <1>4, WithTips
<1>7. Len(data) - 1 = Len(earlier) + 1
  BY <1>5, <1>6
<1>8. data[Len(data) - 1] = [time |-> f.now, value |-> f.value]
  BY <1>6, <1>7
<1> QED BY <1>8 DEF LiveDot, data

LEMMA LiveTells == LiveInv => DotInView /\ KeyTellsTooltip /\ PillAmongLabels
<1> SUFFICES ASSUME LiveInv
             PROVE  DotInView /\ KeyTellsTooltip /\ PillAmongLabels
  OBVIOUS
<1> USE LiveChartAssumption
<1>1. frame \in LiveFrame /\ Holds(frame, frame.value) /\ feed.points \in Seq(LivePoints) /\ tip.x \in Int
  BY DEF LiveInv, LiveTypeOK
<1>2. frame.now \in Int /\ frame.min \in Int /\ frame.max \in Int /\ frame.value \in Int
  BY <1>1 DEF LiveFrame
<1>3. /\ anim.min <= anim.value /\ anim.value <= anim.max
      /\ transition.frame => transition.drawn.min <= transition.drawn.value /\ transition.drawn.value <= transition.drawn.max
  BY DEF LiveInv, Holds
<1>4. YAt(frame, 100 * frame.value) \in 0..Height
  <2> DEFINE s == 100 * (frame.max - frame.min)  d == 100 * frame.value - 100 * frame.min
  <2>1. s \in Nat \ {0} /\ d \in 0..s
    <3>1. frame.min <= frame.value /\ frame.value <= frame.max /\ frame.min < frame.max
      BY <1>1 DEF Holds
    <3>2. frame.max - frame.min \in Nat \ {0}
      BY <1>2, <3>1
    <3>3. s \in Nat \ {0}
      BY <3>2
    <3>4. d \in Int /\ 0 <= d /\ d <= s
      BY <1>2, <3>1
    <3> QED BY <3>3, <3>4
  <2>2. YAt(frame, 100 * frame.value) = (2 * Height * d + s) \div (2 * s)
    BY DEF YAt
  <2> HIDE DEF s, d
  <2> QED BY <2>1, <2>2, RoundedPart
<1>5. DotInView
  <2>1. LiveDot(frame, feed.points) = [x |-> XAt(frame, frame.now), y |-> YAt(frame, 100 * frame.value)]
    BY <1>1, DotOfFrame
  <2>2. XAt(frame, frame.now) = LiveWindow - Leading
    BY <1>2 DEF XAt, WindowStart
  <2> DEFINE dot == LiveDot(frame, feed.points)
  <2>3. dot.x = LiveWindow - Leading /\ dot.y \in 0..Height /\ dot.x = XAt(frame, frame.now)
    BY <1>4, <2>1, <2>2
  <2>4. FadeFrom(frame, feed.points) = IF dot.x < LiveWindow - 1 THEN dot.x ELSE LiveWindow
    BY DEF FadeFrom
  <2> HIDE DEF dot
  <2>5. FadeFrom(frame, feed.points) >= dot.x
    BY <2>3, <2>4
  <2> QED BY <1>3, <2>3, <2>5 DEF DotInView, dot
<1>6. PillAmongLabels
  <2> SUFFICES ASSUME NEW i \in 0..(NumTicks - 1)
               PROVE  LET t == WindowStart(frame) + (i * LiveWindow) \div (NumTicks - 1)
                          l == [x |-> XAt(frame, t), time |-> t]
                      IN (l.x < tip.x <=> l.time < PillTime(frame, tip)) /\ (l.x > tip.x <=> l.time > PillTime(frame, tip))
    BY DEF PillAmongLabels, TimeLabels
  <2> DEFINE k == (i * LiveWindow) \div (NumTicks - 1)
  <2>1. k \in Int
    <3>1. i * LiveWindow \in Int /\ NumTicks - 1 \in Nat \ {0}
      OBVIOUS
    <3> QED BY <3>1, Quotient
  <2> HIDE DEF k
  <2>2. WindowStart(frame) \in Int
    BY <1>2 DEF WindowStart
  <2>3. XAt(frame, WindowStart(frame) + k) = k
    BY <2>1, <2>2 DEF XAt
  <2>4. PillTime(frame, tip) = WindowStart(frame) + tip.x
    BY DEF PillTime, TimeAt
  <2>5. /\ k < tip.x <=> WindowStart(frame) + k < PillTime(frame, tip)
        /\ k > tip.x <=> WindowStart(frame) + k > PillTime(frame, tip)
    <3>1. tip.x \in Int
      BY <1>1
    <3> QED BY ONLY <2>1, <2>2, <2>4, <3>1
  <2> DEFINE t == WindowStart(frame) + k  l == [x |-> XAt(frame, t), time |-> t]
  <2>6. l.x = k /\ l.time = WindowStart(frame) + k
    BY <2>3
  <2> HIDE DEF l
  <2>7. (l.x < tip.x <=> l.time < PillTime(frame, tip)) /\ (l.x > tip.x <=> l.time > PillTime(frame, tip))
    BY ONLY <2>5, <2>6
  <2> QED BY ONLY <2>7 DEF l, t, k
<1> QED BY <1>5, <1>6 DEF LiveInv

\* One point more, before those that were: read after the first of these, the line is
\* the same.
LEMMA InterpolateLonger ==
  ASSUME NEW short, NEW long, NEW n \in Nat \ {0}, Len(short) = n, Len(long) = n + 1,
         \A j \in 1..n : long[j + 1] = short[j] /\ short[j].time \in Int,
         long[1].time \in Int, long[1].time <= short[1].time, NEW t \in Int, short[1].time < t
  PROVE  InterpolateAt(long, t) = InterpolateAt(short, t)
<1> DEFINE S == {1} \cup {i \in 1..n : short[i].time <= t}
           L == {1} \cup {i \in 1..(n + 1) : long[i].time <= t}
<1>1. 1 \in 1..n /\ n \in 1..n /\ long[n + 1] = short[n] /\ short[1].time \in Int /\ short[n].time \in Int
  OBVIOUS
<1>2. ~(t <= short[1].time) /\ ~(t <= long[1].time)
  BY <1>1
<1>3. CASE t >= short[n].time
  BY <1>1, <1>2, <1>3 DEF InterpolateAt
<1>4. CASE ~(t >= short[n].time)
  <2>1. PICK g \in S : \A y \in S : y <= g
    <3>1. S \subseteq Int /\ S # {} /\ n \in Int /\ \A y \in S : y <= n
      BY <1>1
    <3> HIDE DEF S
    <3> QED BY <3>1, GreatestIn
  <2>2. g \in 1..n /\ short[g].time <= t
    BY <1>1
  <2>3. g # n
    BY <1>4, <2>2
  <2>4. Max(S) = g
    <3>1. S \subseteq Int
      OBVIOUS
    <3> HIDE DEF S
    <3> QED BY <2>1, <3>1, MaxIs
  <2>5. g + 1 \in L
    BY <2>2
  <2>6. \A y \in L : y <= g + 1
    <3> SUFFICES ASSUME NEW y \in 1..(n + 1), long[y].time <= t, y # 1
                 PROVE  y <= g + 1
      BY <2>2
    <3>1. y - 1 \in 1..n /\ (y - 1) + 1 = y
      OBVIOUS
    <3>2. long[y] = short[y - 1]
      BY <3>1
    <3>3. y - 1 \in S
      BY <3>1, <3>2
    <3>4. y - 1 <= g
      <4> HIDE DEF S
      <4> QED BY <2>1, <3>3
    <3> QED BY <2>2, <3>4
  <2>7. Max(L) = g + 1
    <3>1. L \subseteq Int
      OBVIOUS
    <3> HIDE DEF L, S
    <3> QED BY <2>5, <2>6, <3>1, MaxIs
  <2>8. long[g + 1] = short[g] /\ long[(g + 1) + 1] = short[g + 1]
    <3>1. g + 1 \in 1..n
      BY <2>2, <2>3
    <3> QED BY <2>2, <3>1
  <2> HIDE DEF S, L
  <2>9. /\ InterpolateAt(short, t) = 100 * short[g].value
             + (100 * (short[g + 1].value - short[g].value) * (t - short[g].time)) \div (short[g + 1].time - short[g].time)
        /\ InterpolateAt(long, t) = 100 * long[g + 1].value
             + (100 * (long[(g + 1) + 1].value - long[g + 1].value) * (t - long[g + 1].time))
                 \div (long[(g + 1) + 1].time - long[g + 1].time)
    BY <1>1, <1>2, <1>4, <2>4, <2>7 DEF InterpolateAt, S, L
  <2> QED BY <2>8, <2>9
<1> QED BY <1>3, <1>4

\* In time, the points in the window are the last ones.
LEMMA WindowTail ==
  ASSUME NEW s \in Seq(LivePoints), InTime(s), NEW from \in Int
  PROVE  \E k \in 1..(Len(s) + 1) : {i \in DOMAIN s : s[i].time >= from} = k..Len(s)
<1> DEFINE n == Len(s)  seen == {i \in DOMAIN s : s[i].time >= from}
<1>1. n \in Nat /\ DOMAIN s = 1..n /\ \A i \in 1..n : s[i].time \in Int
  <2>1. n \in Nat /\ DOMAIN s = 1..n /\ \A i \in 1..n : s[i] \in LivePoints
    BY LenProperties, ElementOfSeq
  <2> QED BY <2>1 DEF LivePoints
<1>2. CASE seen = {}
  <2>1. seen = (n + 1)..n /\ n + 1 \in 1..(n + 1)
    BY <1>1, <1>2
  <2> QED BY <2>1
<1>3. CASE seen # {}
  <2>1. PICK k \in seen : \A i \in seen : k <= i
    <3>1. seen \subseteq Nat
      BY <1>1
    <3> HIDE DEF seen
    <3> QED BY <1>3, <3>1, LeastNat
  <2>2. k \in 1..n /\ s[k].time >= from
    BY <1>1
  <2>3. ASSUME NEW i \in k..n PROVE i \in seen
    <3>1. i \in 1..n /\ (i = k \/ k < i)
      BY <1>1, <2>2
    <3>2. s[k].time <= s[i].time
      BY <1>1, <2>2, <3>1 DEF InTime
    <3>3. s[i].time \in Int /\ s[k].time \in Int
      BY <1>1, <2>2, <3>1
    <3>4. s[i].time >= from
      BY <2>2, <3>2, <3>3
    <3> QED BY <1>1, <3>1, <3>4
  <2>4. ASSUME NEW i \in seen PROVE i \in k..n
    BY <1>1, <2>1, <2>2
  <2>5. seen = k..n
    <3> HIDE DEF seen
    <3> QED BY <2>3, <2>4
  <2>6. k \in 1..(n + 1)
    BY <1>1, <2>2
  <2> QED BY <2>5, <2>6
<1> QED BY <1>2, <1>3

\* The tooltip reads the points in the window, and the two of the frame after them.
LEMMA PointsInWindow ==
  ASSUME NEW s \in Seq(LivePoints), NEW f \in LiveFrame, NEW k \in 1..(Len(s) + 1),
         {i \in DOMAIN s : s[i].time >= WindowStart(f)} = k..Len(s)
  PROVE  TooltipPoints(f, s) = [j \in 1..(Len(s) - k + 1) |-> s[k + j - 1]] \o Tips(f)
<1>1. Len(s) \in Nat
  BY LenProperties
<1>2. Kept(s, k..Len(s)) = EndFrom(s, k, Len(s))
  BY <1>1, KeptTail
<1> QED BY <1>2 DEF TooltipPoints, EndFrom

\* The line is drawn of one point more, when there is one before the window.
LEMMA LineStart ==
  ASSUME NEW s \in Seq(LivePoints), NEW f \in LiveFrame, NEW k \in 1..(Len(s) + 1),
         {i \in DOMAIN s : s[i].time >= WindowStart(f)} = k..Len(s)
  PROVE  ContextData(f, s) = SubSeq(s, IF k = 1 THEN 1 ELSE k - 1, Len(s)) \o Tips(f)
<1> DEFINE n == Len(s)  B == {i \in 1..n : s[i].time < WindowStart(f)}  T == {1} \cup B
           start == IF k = 1 THEN 1 ELSE k - 1
<1>1. n \in Nat /\ DOMAIN s = 1..n /\ \A i \in 1..n : s[i].time \in Int
  <2>1. n \in Nat /\ DOMAIN s = 1..n /\ \A i \in 1..n : s[i] \in LivePoints
    BY LenProperties, ElementOfSeq
  <2> QED BY <2>1 DEF LivePoints
<1>2. WindowStart(f) \in Int
  <2>1. f.now \in Int
    BY DEF LiveFrame
  <2> QED BY <2>1, LiveChartAssumption DEF WindowStart
<1> HIDE DEF n
<1>3. \A i \in 1..n : i \in B <=> i < k
  <2> SUFFICES ASSUME NEW i \in 1..n
               PROVE  i \in B <=> i < k
    OBVIOUS
  <2>1. s[i].time >= WindowStart(f) <=> i \in k..n
    BY <1>1 DEF n
  <2>2. s[i].time \in Int
    BY <1>1
  <2> QED BY <1>1, <1>2, <2>1, <2>2
<1>4. B \subseteq 1..n
  OBVIOUS
<1> HIDE DEF B
<1>5. start \in T /\ T \subseteq Int /\ \A y \in T : y <= start
  <2>1. k \in 1..(n + 1)
    BY DEF n
  <2>2. CASE k = 1
    BY <1>1, <1>3, <1>4, <2>2
  <2>3. CASE k # 1
    <3>1. k - 1 \in 1..n /\ k - 1 < k
      BY <1>1, <2>1, <2>3
    <3>2. k - 1 \in B
      BY <1>3, <3>1
    <3>3. \A y \in B : y <= k - 1
      BY <1>1, <1>3, <1>4, <2>1
    <3> QED BY <1>4, <2>3, <3>1, <3>2, <3>3
  <2> QED BY <2>2, <2>3
<1>6. Max(T) = start
  <2> HIDE DEF T, start
  <2> QED BY <1>5, MaxIs
<1> QED BY <1>6 DEF ContextData, B, n

LEMMA LineTells == LiveInv => TooltipOnLine
<1> DEFINE f == anim  s == feed.points  n == Len(s)  t == TimeAt(f, cursor)  R == [time : Int, value : Int]
           S == {f.now} \cup {p.time : p \in {q \in ToSet(s) : q.time >= WindowStart(f)}}
           T == TooltipPoints(f, s)  C == ContextData(f, s)
<1> SUFFICES ASSUME LiveInv, cursor # Nowhere, ~(s # <<>> /\ Last(s).time > f.now),
                    ResolveLiveTooltip(cursor, f, s).time >= Min(S)
             PROVE  \/ ResolveLiveTooltip(cursor, f, s).value = InterpolateAt(C, ResolveLiveTooltip(cursor, f, s).time)
                    \/ \E p \in ToSet(C) : /\ p.time = ResolveLiveTooltip(cursor, f, s).time
                                           /\ 100 * p.value = ResolveLiveTooltip(cursor, f, s).value
  BY DEF TooltipOnLine
<1>1. f \in LiveFrame /\ s \in Seq(LivePoints) /\ InTime(s) /\ cursor \in Int
  BY DEF LiveInv, LiveTypeOK
<1>2. f.now \in Int /\ WindowStart(f) \in Int /\ t \in Int
  <2>1. f.now \in Int
    BY <1>1 DEF LiveFrame
  <2>2. WindowStart(f) \in Int
    BY <2>1, LiveChartAssumption DEF WindowStart
  <2> QED BY <1>1, <2>1, <2>2 DEF TimeAt
<1>3. n \in Nat /\ DOMAIN s = 1..n /\ \A i \in 1..n : s[i] \in LivePoints /\ s[i].time \in Int
  <2>1. n \in Nat /\ DOMAIN s = 1..n /\ \A i \in 1..n : s[i] \in LivePoints
    BY <1>1, LenProperties, ElementOfSeq
  <2> QED BY <2>1 DEF LivePoints
<1>4. ~(s # <<>> /\ s[n].time > f.now)
  BY DEF Last
<1> HIDE DEF f, s, t, n
<1>5. \A i \in 1..n, j \in 1..n : i < j => s[i].time < s[j].time
  BY <1>1, <1>3 DEF InTime
<1>6. \A i \in 1..n : s[i].time <= f.now
  <2> SUFFICES ASSUME NEW i \in 1..n
               PROVE  s[i].time <= f.now
    OBVIOUS
  <2>1. n \in 1..n /\ (i = n \/ i < n)
    BY <1>3
  <2>2. s # <<>>
    <3>1. n # 0
      BY <1>3, <2>1
    <3> QED BY <3>1, EmptySeq DEF n
  <2>3. s[n].time <= f.now
    BY <1>2, <1>3, <1>4, <2>1, <2>2
  <2> QED BY <1>2, <1>3, <1>5, <2>1, <2>3
<1>7. PICK k \in 1..(n + 1) : {i \in DOMAIN s : s[i].time >= WindowStart(f)} = k..n
  BY <1>1, <1>2, WindowTail DEF n
<1> DEFINE m == n - k + 1  W == [j \in 1..m |-> s[k + j - 1]]
<1>8. m \in Nat /\ \A j \in 1..m : k + j - 1 \in 1..n
  BY <1>3
<1>9. W \in Seq(LivePoints) /\ Len(W) = m
  <2>1. W \in [1..m -> LivePoints]
    BY <1>3, <1>8
  <2> HIDE DEF W, m
  <2>2. W \in Seq(LivePoints)
    BY <1>8, <2>1, SeqDef
  <2> QED BY <1>8, <2>1, <2>2, LenProperties
<1>10. T = W \o Tips(f)
  BY <1>1, <1>7, PointsInWindow DEF n
<1> HIDE DEF m
<1>11. /\ T \in Seq(R) /\ Len(T) = m + 2 /\ (\A j \in 1..m : T[j] = s[k + j - 1])
       /\ T[m + 1] = [time |-> f.now, value |-> f.value]
       /\ T[m + 2] = [time |-> f.now + TickUnit, value |-> f.value]
  <2>1. \A j \in 1..m : W[j] = s[k + j - 1]
    OBVIOUS
  <2> HIDE DEF W, T, R
  <2>2. /\ W \o Tips(f) \in Seq([time : Int, value : Int]) /\ Len(W \o Tips(f)) = Len(W) + 2
        /\ (\A i \in 1..Len(W) : (W \o Tips(f))[i] = W[i])
        /\ (W \o Tips(f))[Len(W) + 1] = [time |-> f.now, value |-> f.value]
        /\ (W \o Tips(f))[Len(W) + 2] = [time |-> f.now + TickUnit, value |-> f.value]
    BY <1>1, <1>9, WithTips
  <2> QED BY <1>9, <1>10, <2>1, <2>2 DEF R
<1>12. T # <<>>
  <2> HIDE DEF T, R
  <2>1. Len(T) # 0
    BY <1>8, <1>11
  <2> QED BY <2>1, EmptySeq
<1>13. ResolveLiveTooltip(cursor, f, s).time = t /\ ResolveLiveTooltip(cursor, f, s).value = InterpolateAt(T, t)
  BY <1>12 DEF ResolveLiveTooltip, t
<1> HIDE DEF T, W, S, R, C
<1>14. T[1].time \in Int /\ T[1].time <= f.now
  <2>1. CASE m = 0
    BY <1>2, <1>11, <2>1
  <2>2. CASE m # 0
    <3>1. 1 \in 1..m /\ k + 1 - 1 \in 1..n
      BY <1>8, <2>2
    <3> QED BY <1>3, <1>6, <1>11, <3>1
  <2> QED BY <2>1, <2>2
<1>15. Min(S) = T[1].time
  <2>1. S \subseteq Int
    <3>1. \A p \in ToSet(s) : p.time \in Int
      BY <1>3 DEF ToSet
    <3> QED BY <1>2, <3>1 DEF S
  <2>2. T[1].time \in S /\ \A y \in S : T[1].time <= y
    <3>1. ASSUME NEW p \in ToSet(s), p.time >= WindowStart(f)
          PROVE  \E i \in k..n : p = s[i]
      <4>1. PICK i \in 1..n : p = s[i]
        BY <1>3 DEF ToSet
      <4> QED BY <1>3, <1>7, <3>1, <4>1
    <3>2. CASE m = 0
      <4>1. k..n = {} /\ T[1].time = f.now
        <5>1. k = n + 1
          BY <1>3, <3>2 DEF m
        <5>2. T[1] = [time |-> f.now, value |-> f.value]
          BY <1>11, <3>2
        <5> QED BY <1>3, <5>1, <5>2
      <4> QED BY <1>2, <3>1, <4>1 DEF S
    <3>3. CASE m # 0
      <4>1. k \in 1..n /\ 1 \in 1..m /\ k + 1 - 1 = k /\ k \in k..n
        BY <1>3, <1>8, <3>3 DEF m
      <4>2. T[1] = s[k]
        BY <1>11, <4>1
      <4>3. s[k] \in ToSet(s) /\ s[k].time >= WindowStart(f)
        BY <1>3, <1>7, <4>1 DEF ToSet
      <4>4. \A i \in k..n : s[k].time <= s[i].time
        <5> SUFFICES ASSUME NEW i \in k..n
                     PROVE  s[k].time <= s[i].time
          OBVIOUS
        <5>1. i \in 1..n /\ (i = k \/ k < i)
          BY <1>3, <4>1
        <5> QED BY <1>3, <1>5, <4>1, <5>1
      <4>5. s[k].time <= f.now
        BY <1>6, <4>1
      <4> QED BY <3>1, <4>2, <4>3, <4>4, <4>5 DEF S
    <3> QED BY <3>2, <3>3
  <2> QED BY <2>1, <2>2, MinIs
<1>16. T[1].time <= t
  BY <1>2, <1>13, <1>14, <1>15
<1> DEFINE start == IF k = 1 THEN 1 ELSE k - 1  X == SubSeq(s, start, n)
<1>17. start \in Nat /\ start >= 1 /\ start <= n + 1 /\ (start > n => n = 0)
  BY <1>3
<1>18. C = X \o Tips(f)
  BY <1>1, <1>7, LineStart DEF C, n, start, X
<1> HIDE DEF start
<1>u. start \in Int /\ n \in Int
  BY <1>3, <1>17
<1>19. X \in Seq(LivePoints) /\ Len(X) = n - start + 1 /\ \A i \in 1..(n - start + 1) : X[i] = s[start + i - 1]
  <2>1. \A i \in start..n : s[i] \in LivePoints
    BY <1>3, <1>17
  <2>2. /\ X \in Seq(LivePoints) /\ Len(X) = (IF start <= n THEN n - start + 1 ELSE 0)
        /\ \A i \in 1..(n - start + 1) : X[i] = s[start + i - 1]
    BY <1>3, <1>17, <2>1, SubSeqProperties
  <2>3. ~(start <= n) => n - start + 1 = 0
    BY <1>3, <1>17
  <2> QED BY <2>2, <2>3
<1> HIDE DEF X
<1> DEFINE l == n - start + 1
<1>20. /\ l \in Nat /\ C \in Seq(R) /\ Len(C) = l + 2 /\ (\A i \in 1..l : C[i] = s[start + i - 1])
       /\ C[l + 1] = [time |-> f.now, value |-> f.value]
       /\ C[l + 2] = [time |-> f.now + TickUnit, value |-> f.value]
  <2>1. l \in Nat
    BY <1>3, <1>17
  <2>2. Len(X) = l /\ \A i \in 1..l : X[i] = s[start + i - 1]
    BY <1>19
  <2> HIDE DEF l
  <2>3. /\ X \o Tips(f) \in Seq([time : Int, value : Int]) /\ Len(X \o Tips(f)) = Len(X) + 2
        /\ (\A i \in 1..Len(X) : (X \o Tips(f))[i] = X[i])
        /\ (X \o Tips(f))[Len(X) + 1] = [time |-> f.now, value |-> f.value]
        /\ (X \o Tips(f))[Len(X) + 2] = [time |-> f.now + TickUnit, value |-> f.value]
    BY <1>1, <1>19, WithTips
  <2> QED BY <1>18, <2>1, <2>2, <2>3 DEF R
<1>21. CASE k = 1
  <2>1. start = 1 /\ l = m
    BY <1>3, <1>21 DEF start, m
  <2>2. ASSUME NEW i \in 1..(m + 2) PROVE C[i] = T[i]
    <3>1. i \in 1..m \/ i = m + 1 \/ i = m + 2
      BY <1>8
    <3> HIDE DEF l
    <3> QED BY <1>11, <1>20, <1>21, <2>1, <3>1
  <2>3. DOMAIN C = 1..(m + 2) /\ DOMAIN T = 1..(m + 2) /\ C \in [1..(m + 2) -> R] /\ T \in [1..(m + 2) -> R]
    <3> HIDE DEF l
    <3> QED BY <1>11, <1>20, <2>1, LenProperties
  <2>4. C = T
    <3>1. C = [i \in 1..(m + 2) |-> C[i]] /\ T = [i \in 1..(m + 2) |-> T[i]]
      BY <2>3
    <3> QED BY <2>2, <3>1
  <2> QED BY <1>13, <2>4
<1>22. CASE k # 1
  <2>1. start = k - 1 /\ l = m + 1 /\ k - 1 \in 1..n /\ start + 1 - 1 = k - 1
    BY <1>3, <1>22 DEF start, m
  <2>2. ASSUME NEW j \in 1..(m + 2) PROVE C[j + 1] = T[j]
    <3>1. \/ j \in 1..m /\ j + 1 \in 1..l /\ start + (j + 1) - 1 = k + j - 1
          \/ j = m + 1 /\ j + 1 = l + 1
          \/ j = m + 2 /\ j + 1 = l + 2
      BY <1>3, <1>8, <2>1
    <3> HIDE DEF l
    <3> QED BY <1>11, <1>20, <3>1
  <2> HIDE DEF l
  <2>3. C[1] = s[k - 1] /\ C[1].time \in Int
    <3>1. 1 \in 1..l
      BY <1>8, <2>1
    <3>2. C[1] = s[k - 1]
      BY <1>20, <2>1, <3>1
    <3> QED BY <1>3, <2>1, <3>2
  <2>4. C[1].time <= T[1].time
    <3>1. CASE m = 0
      BY <1>6, <1>11, <2>1, <2>3, <3>1
    <3>2. CASE m # 0
      <4>1. 1 \in 1..m /\ k + 1 - 1 = k /\ k \in 1..n /\ k - 1 < k
        BY <1>3, <1>8, <3>2 DEF m
      <4>2. T[1] = s[k]
        BY <1>11, <4>1
      <4> QED BY <1>3, <1>5, <2>1, <2>3, <4>1, <4>2
    <3> QED BY <3>1, <3>2
  <2>5. CASE t = T[1].time
    <3>1. InterpolateAt(T, t) = 100 * T[1].value
      BY <1>14, <2>5 DEF InterpolateAt
    <3>2. C[2] = T[1] /\ C[2] \in ToSet(C)
      <4>1. 1 \in 1..(m + 2) /\ 2 \in 1..(l + 2)
        BY <1>8, <2>1
      <4>2. DOMAIN C = 1..(l + 2)
        BY <1>20, LenProperties
      <4>3. C[1 + 1] = T[1]
        BY <2>2, <4>1
      <4> QED BY <4>1, <4>2, <4>3 DEF ToSet
    <3> QED BY <1>13, <2>5, <3>1, <3>2
  <2>6. CASE t # T[1].time
    <3>1. T[1].time < t
      BY <1>2, <1>14, <1>16, <2>6
    <3> DEFINE len == m + 2
    <3>2. len \in Nat \ {0} /\ Len(T) = len /\ Len(C) = len + 1
      BY <1>8, <1>11, <1>20, <2>1
    <3>3. \A j \in 1..len : C[j + 1] = T[j] /\ T[j].time \in Int
      <4>1. \A j \in 1..len : T[j] \in R
        BY <1>11, ElementOfSeq
      <4> QED BY <2>2, <4>1 DEF R
    <3> HIDE DEF len
    <3>4. InterpolateAt(C, t) = InterpolateAt(T, t)
      BY <1>2, <2>3, <2>4, <3>1, <3>2, <3>3, InterpolateLonger
    <3> QED BY <1>13, <3>4
  <2> QED BY <2>5, <2>6
<1> QED BY <1>21, <1>22

-----------------------------------------------------------------------------
(* The bars.                                                                   *)

\* As long as the rows are those of the reveal, no bar grows longer than its timer runs.
BarInv ==
    /\ barRows \in Seq([Series -> BarValues \cup {NoBar}]) /\ Len(barRows) <= MaxBars
    /\ revealIn \in Nat \cup {NoReveal}
    /\ \A i \in DOMAIN growth : growth[i] \in Int
    /\ ~changedSince /\ revealIn # NoReveal => \A i \in DOMAIN growth : growth[i] <= revealIn
    /\ WholeReveal /\ HoverOverBand

\* The last bar is delayed by no more than the timer of the reveal allows for.
LEMMA GrowthInTime ==
  ASSUME NEW n \in Nat
  PROVE  /\ RevealTicks(n) \in Nat
         /\ \A i \in DOMAIN GrowthFor(n) : GrowthFor(n)[i] \in Int /\ GrowthFor(n)[i] <= RevealTicks(n)
<1> USE BarAssumption
<1>1. RevealTicks(n) \in Nat
  BY DEF RevealTicks
<1>2. ASSUME NEW i \in 1..n
      PROVE  /\ GrowTicks + (2 * (i - 1)) \div n \in Int
             /\ GrowTicks + (2 * (i - 1)) \div n <= RevealTicks(n)
  <2> DEFINE a == 2 * (i - 1)  q == a \div n
  <2>1. a \in Nat /\ n \in Nat \ {0} /\ a < 2 * n /\ (n = 1 => a = 0)
    OBVIOUS
  <2> HIDE DEF a
  <2>2. q \in Int /\ n * q <= a
    BY <2>1
  <2> HIDE DEF q
  <2>3. q <= 2
    <3>1. CASE q >= 3
      <4>1. n * 3 <= n * q
        BY <2>1, <2>2, <3>1, ProductsInOrder
      <4> DEFINE z == n * q
      <4>2. z \in Int /\ n * 3 <= z /\ z <= a
        BY <2>1, <2>2, <4>1
      <4> HIDE DEF z
      <4> QED BY <2>1, <4>2
    <3> QED BY <2>2, <3>1
  <2>4. n = 1 => q <= 0
    BY <2>1, <2>2
  <2>5. GrowTicks + q \in Int /\ GrowTicks + q <= RevealTicks(n)
    BY <2>1, <2>2, <2>3, <2>4 DEF RevealTicks
  <2> QED BY <2>5 DEF q, a
<1> QED BY <1>1, <1>2 DEF GrowthFor

\* Among n rows the band of a row begins a unit into its fifths and is four of them wide.
LEMMA FifthsOfBand ==
  ASSUME NEW n \in 1..MaxBars
  PROVE  \E u \in Nat \ {0} :
           /\ PlotSize = (5 * n + 1) * u /\ (5 * PlotSize) \div (5 * n + 1) = 5 * u
           /\ (4 * (5 * u)) \div 5 = 4 * u
           /\ \A i \in Int : (5 * u) \div 5 + (i - 1) * (5 * u) = 5 * (i * u) - 4 * u
<1> USE BarAssumption
<1> DEFINE k == 5 * n + 1  u == PlotSize \div k
<1>1. n \in Nat /\ k \in Nat \ {0}
  OBVIOUS
<1>2. PlotSize % k = 0
  BY <1>1
<1> HIDE DEF k
<1>3. u \in Int /\ PlotSize = k * u
  BY <1>1, <1>2
<1> HIDE DEF u
<1>4. u \in Nat \ {0}
  <2>1. CASE u <= 0
    <3>1. k * u <= k * 0
      BY <1>1, <1>3, <2>1, ProductsInOrder
    <3> QED BY <1>1, <1>3, <3>1
  <2> QED BY <1>3, <2>1
<1>5. (5 * PlotSize) \div k = 5 * u
  <2>1. 5 * PlotSize \in Int /\ k * (5 * u) = 5 * PlotSize /\ 5 * u \in Int
    BY <1>1, <1>3
  <2> DEFINE a == 5 * PlotSize  q == 5 * u
  <2>2. a \in Int /\ q \in Int /\ k * q <= a /\ a < k * q + k
    BY <1>1, <2>1
  <2> HIDE DEF a, q
  <2>3. a \div k = q
    BY <1>1, <2>2, QuotientIs
  <2> QED BY <2>3 DEF a, q
<1>6. (5 * u) \div 5 = u /\ (4 * (5 * u)) \div 5 = 4 * u
  BY <1>4
<1>7. ASSUME NEW i \in Int PROVE (5 * u) \div 5 + (i - 1) * (5 * u) = 5 * (i * u) - 4 * u
  <2>1. (i - 1) * (5 * u) = 5 * (i * u) - 5 * u
    BY <1>4
  <2> DEFINE x == i * u
  <2>2. x \in Int
    BY <1>4
  <2> HIDE DEF x
  <2> QED BY <1>4, <1>6, <2>1, <2>2 DEF x
<1> QED BY <1>3, <1>4, <1>5, <1>6, <1>7 DEF k

LEMMA BandHovered ==
  ASSUME Len(barRows) \in 1..MaxBars, NEW i \in 1..Len(barRows), NEW pos \in BandPos(i)..(BandPos(i) + BandWidth - 1)
  PROVE  HoverIndex(pos) = i
<1> USE BarAssumption
<1> DEFINE n == Len(barRows)
<1>f. PICK u \in Nat \ {0} :
        /\ PlotSize = (5 * n + 1) * u /\ (5 * PlotSize) \div (5 * n + 1) = 5 * u
        /\ (4 * (5 * u)) \div 5 = 4 * u
        /\ \A l \in Int : (5 * u) \div 5 + (l - 1) * (5 * u) = 5 * (l * u) - 4 * u
  BY FifthsOfBand
<1>s. BandStep = 5 * u /\ i \in Int
  BY <1>f DEF BandStep
<1>1. PlotSize = (5 * n + 1) * u /\ BandWidth = 4 * u /\ BandPos(i) = 5 * (i * u) - 4 * u
  BY <1>f, <1>s DEF BandWidth, BandPos
<1>2. n \in Nat \ {0} /\ i \in 1..n
  OBVIOUS
<1> HIDE DEF n
<1> DEFINE iu == i * u  un == u * n  iun == i * un  spot == pos * n
<1>3. iu \in Nat /\ un \in Nat /\ iun \in Nat
  BY <1>1, <1>2
<1>4. pos \in Int /\ 5 * iu - 4 * u <= pos /\ pos <= 5 * iu - 1
  BY <1>1, <1>3
<1>5. spot \in Int /\ (5 * iu - 4 * u) * n <= spot /\ spot <= (5 * iu - 1) * n
  BY <1>1, <1>2, <1>3, <1>4, ProductsInOrder
<1>6. (5 * iu - 4 * u) * n = 5 * iun - 4 * un /\ (5 * iu - 1) * n = 5 * iun - n
  BY <1>1, <1>2
<1>7. PlotSize * (i - 1) = 5 * iun + iu - 5 * un - u
  BY <1>1, <1>2
<1>8. PlotSize = 5 * un + u
  BY <1>1, <1>2
<1>9. iu <= un
  BY <1>1, <1>2, ProductsInOrder
<1> DEFINE base == PlotSize * (i - 1)  low == (5 * iu - 4 * u) * n  high == (5 * iu - 1) * n
<1> HIDE DEF iu, un, iun, spot, base, low, high
<1>10. base <= spot /\ spot < base + PlotSize
  <2>1. low <= spot /\ spot <= high /\ low = 5 * iun - 4 * un /\ high = 5 * iun - n /\ base = 5 * iun + iu - 5 * un - u
    BY <1>5, <1>6, <1>7 DEF low, high, base
  <2> QED BY <1>1, <1>2, <1>3, <1>5, <1>8, <1>9, <2>1
<1>11. spot \div PlotSize = i - 1
  <2> DEFINE j == i - 1
  <2>1. j \in Int /\ PlotSize \in Nat \ {0} /\ spot \in Int
    BY <1>2, <1>5
  <2>2. PlotSize * j <= spot /\ spot < PlotSize * j + PlotSize
    BY <1>10 DEF base
  <2> HIDE DEF j
  <2>3. spot \div PlotSize = j
    BY <2>1, <2>2, QuotientIs
  <2> QED BY <2>3 DEF j
<1>12. HoverIndex(pos) = Max({1, Min({n, 1 + (i - 1)})})
  BY <1>11 DEF HoverIndex, spot, n
<1>13. Min({n, 1 + (i - 1)}) = i
  BY <1>2, MinOfTwo
<1>14. Max({1, i}) = i
  BY <1>2, MaxOfTwo
<1> QED BY <1>12, <1>13, <1>14

LEMMA BarInitInv == BarInit => BarInv
<1> SUFFICES ASSUME BarInit
             PROVE  BarInv
  OBVIOUS
<1>1. /\ barRows = <<>> /\ loaded = FALSE /\ changedSince = FALSE /\ growth = <<>> /\ scheduled = NoBarTip
      /\ revealIn = IF barStatus = "loading" THEN NoReveal ELSE RevealTicks(0)
  BY DEF BarInit
<1>2. barRows \in Seq([Series -> BarValues \cup {NoBar}]) /\ Len(barRows) <= MaxBars
  <2>1. Len(<<>>) = 0
    OBVIOUS
  <2> QED BY <1>1, <2>1, BarAssumption, EmptySeq
<1>3. revealIn \in Nat \cup {NoReveal}
  <2>1. RevealTicks(0) \in Nat
    BY GrowthInTime
  <2> QED BY <1>1, <2>1
<1>4. DOMAIN growth = {}
  BY <1>1
<1> QED BY <1>1, <1>2, <1>3, <1>4 DEF BarInv, WholeReveal, HoverOverBand

\* A tooltip of rows that are gone was over no band of those that came.
LEMMA AgedTip ==
  ASSUME BarInv, NEW fresh, fresh = barRows', barRows' \in Seq([Series -> BarValues \cup {NoBar}]), Len(barRows') <= MaxBars,
         TipsAgeWith(fresh), UNCHANGED barProps
  PROVE  HoverOverBand'
<1>1. CASE fresh = barRows
  BY <1>1 DEF TipsAgeWith, BarInv, HoverOverBand, BandPos, BandWidth, BandStep
<1>2. CASE fresh # barRows
  <2>1. scheduled' = NoBarTip \/ scheduled' = OldTip
    BY <1>2 DEF TipsAgeWith, BarAged
  <2>2. OldTip.at = -1
    BY DEF OldTip, NoBarTip
  <2>3. ASSUME NEW i \in DOMAIN barRows' PROVE -1 \notin (BandPos(i)..(BandPos(i) + BandWidth - 1))'
    <3>1. Len(barRows') \in Nat /\ i \in 1..Len(barRows')
      BY <2>3, LenProperties
    <3>2. Len(barRows') \in 1..MaxBars
      BY <3>1, BarAssumption
    <3>f. PICK u \in Nat \ {0} :
            /\ (5 * PlotSize) \div (5 * Len(barRows') + 1) = 5 * u
            /\ (4 * (5 * u)) \div 5 = 4 * u
            /\ \A l \in Int : (5 * u) \div 5 + (l - 1) * (5 * u) = 5 * (l * u) - 4 * u
      BY <3>2, FifthsOfBand
    <3>s. BandStep' = 5 * u /\ i \in Int
      BY <3>1, <3>f DEF BandStep
    <3>3. BandPos(i)' = 5 * (i * u) - 4 * u /\ BandWidth' = 4 * u
      BY <3>f, <3>s DEF BandWidth, BandPos
    <3>4. 1 * u <= i * u
      BY <3>1, <3>3, ProductsInOrder
    <3> DEFINE x == i * u
    <3>5. x \in Int /\ u <= x
      BY <3>1, <3>3, <3>4
    <3> HIDE DEF x
    <3>6. BandPos(i)' \in Nat
      BY <3>3, <3>5 DEF x
    <3> QED BY <3>3, <3>6
  <2> QED BY <2>1, <2>2, <2>3 DEF HoverOverBand
<1> QED BY <1>1, <1>2

LEMMA BarStep == BarInv /\ [BarNext]_barVars => BarInv'
<1> SUFFICES ASSUME BarInv, [BarNext]_barVars
             PROVE  BarInv'
  OBVIOUS
<1> USE BarAssumption
<1> DEFINE RowSeqs == Seq([Series -> BarValues \cup {NoBar}])
<1>u. ASSUME NEW fresh \in NextRows PROVE fresh \in RowSeqs /\ Len(fresh) <= MaxBars
  <2>1. PICK row \in [Series -> BarValues \cup {NoBar}] : fresh = <<row>> \/ fresh = Append(barRows, row)
    BY DEF NextRows
  <2>2. barRows \in RowSeqs
    BY DEF BarInv
  <2> DEFINE R == [Series -> BarValues \cup {NoBar}]
  <2>3. row \in R
    OBVIOUS
  <2> HIDE DEF R
  <2>4. <<row>> \in Seq(R)
    BY <2>3
  <2>5. Append(barRows, row) \in Seq(R)
    BY <2>2, <2>3, AppendProperties DEF R
  <2>6. Len(fresh) <= MaxBars
    BY DEF NextRows
  <2> QED BY <2>1, <2>4, <2>5, <2>6 DEF R
\* The reveal begins anew with the rows of the next state.
<1>c. ASSUME barRows' \in RowSeqs, Reveal(barStatus', barRows')
      PROVE  /\ revealIn' \in Nat \cup {NoReveal}
             /\ \A i \in DOMAIN growth' : growth'[i] \in Int
             /\ ~changedSince' /\ revealIn' # NoReveal => \A i \in DOMAIN growth' : growth'[i] <= revealIn'
             /\ WholeReveal'
  <2>1. /\ loaded' = FALSE
        /\ revealIn' = IF barStatus' = "loading" THEN NoReveal ELSE RevealTicks(Len(barRows'))
        /\ growth' = IF barStatus' = "loading" THEN <<>> ELSE GrowthFor(Len(barRows'))
    BY <1>c DEF Reveal
  <2>2. Len(barRows') \in Nat
    BY <1>c, LenProperties
  <2>3. CASE barStatus' = "loading"
    <3>1. DOMAIN growth' = {}
      BY <2>1, <2>3
    <3> QED BY <2>1, <2>3, <3>1 DEF WholeReveal
  <2>4. CASE barStatus' # "loading"
    BY <2>1, <2>2, <2>4, GrowthInTime DEF WholeReveal
  <2> QED BY <2>3, <2>4
<1> HIDE DEF RowSeqs
<1>1. CASE ChangeBarStatus
  <2>1. barRows' = barRows \/ barRows' \in NextRows
    BY <1>1 DEF ChangeBarStatus
  <2>2. barRows' \in RowSeqs /\ Len(barRows') <= MaxBars
    BY <1>u, <2>1 DEF BarInv, RowSeqs
  <2>3. Reveal(barStatus', barRows') /\ TipsAgeWith(barRows') /\ UNCHANGED barProps
    BY <1>1 DEF ChangeBarStatus
  <2>4. HoverOverBand'
    BY <2>2, <2>3, AgedTip DEF RowSeqs
  <2> QED BY <1>c, <2>2, <2>3, <2>4 DEF BarInv, RowSeqs
<1>2. CASE Replay
  <2>1. Reveal(barStatus', barRows') /\ UNCHANGED <<barProps, barRows, scheduled>>
    BY <1>2 DEF Replay
  <2>2. barRows' \in RowSeqs /\ Len(barRows') <= MaxBars
    BY <2>1 DEF BarInv, RowSeqs
  <2>3. HoverOverBand'
    BY <2>1 DEF BarInv, HoverOverBand, BandPos, BandWidth, BandStep
  <2> QED BY <1>c, <2>1, <2>2, <2>3 DEF BarInv, RowSeqs
<1>3. CASE ChangeRows
  <2>1. /\ barRows' \in NextRows /\ changedSince' = TRUE /\ TipsAgeWith(barRows')
        /\ growth' = IF loaded /\ barProps.squares = "none" THEN <<>> ELSE GrowthFor(Len(barRows'))
        /\ UNCHANGED <<barProps, barStatus, loaded, revealIn>>
    BY <1>3 DEF ChangeRows
  <2>2. barRows' \in RowSeqs /\ Len(barRows') <= MaxBars /\ Len(barRows') \in Nat
    <3>1. barRows' \in RowSeqs /\ Len(barRows') <= MaxBars
      BY <1>u, <2>1
    <3> QED BY <3>1, LenProperties DEF RowSeqs
  <2>3. HoverOverBand'
    BY <2>1, <2>2, AgedTip DEF RowSeqs
  <2>4. \A i \in DOMAIN growth' : growth'[i] \in Int
    <3>1. DOMAIN <<>> = {}
      OBVIOUS
    <3> QED BY <2>1, <2>2, <3>1, GrowthInTime
  <2> QED BY <2>1, <2>2, <2>3, <2>4 DEF BarInv, WholeReveal, RowSeqs
<1>4. CASE BarTick
  <2>1. /\ growth' = [i \in DOMAIN growth |-> Max({Grown, growth[i] - 1})]
        /\ revealIn' = (IF revealIn = NoReveal THEN NoReveal ELSE revealIn - 1)
        /\ (revealIn # NoReveal => revealIn > 0)
        /\ UNCHANGED <<barProps, barRows, loaded, changedSince, scheduled>>
    BY <1>4 DEF BarTick, BarInv, NoReveal
  <2>2. Grown \in Int /\ Grown <= 0
    BY DEF Grown, CascadeSpread
  <2>3. ASSUME NEW i \in DOMAIN growth'
        PROVE  /\ i \in DOMAIN growth /\ growth[i] \in Int /\ growth'[i] \in Int
               /\ growth'[i] = Grown \/ growth'[i] = growth[i] - 1
    <3>1. i \in DOMAIN growth /\ growth[i] \in Int
      BY <2>1 DEF BarInv
    <3>2. growth'[i] = Max({Grown, growth[i] - 1})
      BY <2>1
    <3> QED BY <2>2, <3>1, <3>2, MaxOfTwo
  <2>4. revealIn' \in Nat \cup {NoReveal}
    BY <2>1 DEF BarInv
  <2>5. ~changedSince' /\ revealIn' # NoReveal => \A i \in DOMAIN growth' : growth'[i] <= revealIn'
    BY <2>1, <2>2, <2>3, <2>4 DEF BarInv, NoReveal
  <2>6. WholeReveal'
    BY <2>1, <2>2, <2>3 DEF BarInv, WholeReveal
  <2>7. HoverOverBand'
    BY <2>1 DEF BarInv, HoverOverBand, BandPos, BandWidth, BandStep
  <2> QED BY <2>1, <2>3, <2>4, <2>5, <2>6, <2>7 DEF BarInv
<1>5. CASE RevealDone
  <2>1. revealIn = 0 /\ revealIn' = NoReveal /\ UNCHANGED <<barProps, barRows, growth, changedSince, scheduled>>
    BY <1>5 DEF RevealDone
  <2>2. HoverOverBand'
    BY <2>1 DEF BarInv, HoverOverBand, BandPos, BandWidth, BandStep
  <2>3. WholeReveal'
    BY <2>1 DEF BarInv, WholeReveal, NoReveal
  <2> QED BY <2>1, <2>2, <2>3 DEF BarInv
<1>6. CASE BarMouseMove
  <2>1. barRows # <<>> /\ UNCHANGED <<barProps, barRows, loaded, revealIn, growth, changedSince>>
    BY <1>6 DEF BarMouseMove
  <2>2. PICK pos \in Positions :
          scheduled' = scheduled \/ (scheduled'.index = HoverIndex(pos) /\ scheduled'.at = pos)
    BY <1>6 DEF BarMouseMove
  <2>3. Len(barRows) \in 1..MaxBars /\ DOMAIN barRows = 1..Len(barRows)
    BY <2>1, EmptySeq, LenProperties DEF BarInv
  <2>4. ASSUME scheduled' # scheduled, NEW i \in DOMAIN barRows, scheduled'.at \in BandPos(i)..(BandPos(i) + BandWidth - 1)
        PROVE  scheduled'.index = i
    BY <2>2, <2>3, <2>4, BandHovered
  <2>5. HoverOverBand'
    BY <2>1, <2>4 DEF BarInv, HoverOverBand, BandPos, BandWidth, BandStep
  <2>6. WholeReveal'
    BY <2>1 DEF BarInv, WholeReveal
  <2> QED BY <2>1, <2>5, <2>6 DEF BarInv
<1>7. CASE BarTipFrame \/ BarMouseLeave
  <2>1. scheduled' = NoBarTip /\ UNCHANGED <<barProps, barRows, loaded, revealIn, growth, changedSince>>
    BY <1>7 DEF BarTipFrame, BarMouseLeave
  <2> QED BY <2>1 DEF BarInv, HoverOverBand, WholeReveal, NoBarTip
<1>8. CASE UNCHANGED barVars
  BY <1>8 DEF barVars, BarInv, HoverOverBand, WholeReveal, BandPos, BandWidth, BandStep
<1> QED
  BY <1>1, <1>2, <1>3, <1>4, <1>5, <1>6, <1>7, <1>8 DEF BarNext

-----------------------------------------------------------------------------
(* The pointer.                                                                *)

\* What is pending or shown is of the point that was last hovered, on the data of now,
\* as long as the chart takes the pointer; a drag holds a button that was not let go of.
PointerInv ==
    /\ PointerTypeOK
    /\ WithholdsShownOnly /\ SelectionHeld
    /\ lastHoveredX = NoX => tooltipData = NoTip /\ pending = NoTip
    /\ tooltipData # NoTip => pending # NoTip
    /\ interactive /\ pending # NoTip => points # <<>> /\ pending = ResolveTooltip(points, lastHoveredX)
    /\ interactive /\ tooltipData # NoTip /\ ~rafDue => tooltipData = ResolveTooltip(points, lastHoveredX)
    /\ isDragging => mouse = "down" \/ unheard

LEMMA ScaleIs ==
  ASSUME NEW pts \in Scales
  PROVE  /\ Len(pts) \in 0..(MaxX + 1) /\ DOMAIN pts = 1..Len(pts) /\ \A i \in 1..Len(pts) : pts[i] \in Xs
         /\ \A i \in 1..Len(pts), j \in 1..Len(pts) : i < j => pts[i] < pts[j]
         /\ (pts = <<>> <=> Len(pts) = 0)
<1>1. PICK n \in 0..(MaxX + 1) : pts \in [1..n -> Xs]
  BY DEF Scales
<1>2. n \in Nat /\ pts \in Seq(Xs)
  BY <1>1, PointerAssumption, SeqDef
<1>3. Len(pts) = n /\ DOMAIN pts = 1..n
  BY <1>1, <1>2, LenProperties
<1>4. \A i \in 1..n : pts[i] \in Xs
  BY <1>1
<1>5. \A i \in 1..n, j \in 1..n : i < j => pts[i] < pts[j]
  BY <1>3 DEF Scales
<1>6. pts = <<>> <=> Len(pts) = 0
  BY <1>2, EmptySeq
<1> QED BY <1>1, <1>3, <1>4, <1>5, <1>6

\* The last point before x, or the first.
LEMMA BeforeIs ==
  ASSUME NEW pts \in Scales, pts # <<>>, NEW x \in Xs
  PROVE  /\ Before(pts, x) \in 1..Len(pts)
         /\ Before(pts, x) # 1 => pts[Before(pts, x)] < x
         /\ Before(pts, x) # Len(pts) => pts[Before(pts, x) + 1] >= x
<1> DEFINE n == Len(pts)  behind == {i \in 1..n : i = n \/ pts[i + 1] >= x}  k == Before(pts, x)
<1>1. n \in Nat \ {0} /\ \A i \in 1..n : pts[i] \in Int
  BY ScaleIs DEF Xs
<1>2. x \in Int
  BY DEF Xs
<1>3. behind \subseteq Nat /\ n \in behind
  BY <1>1
<1>4. \E i \in behind : \A j \in behind : i <= j
  <2> HIDE DEF behind
  <2> QED BY <1>3, LeastNat
<1>5. k = CHOOSE i \in behind : \A j \in behind : i <= j
  BY DEF Before
<1> HIDE DEF k
<1>6. k \in behind /\ \A j \in behind : k <= j
  <2> HIDE DEF behind
  <2> QED BY <1>4, <1>5
<1>7. k \in 1..n /\ (k # n => pts[k + 1] >= x)
  BY <1>6
<1>8. k # 1 => pts[k] < x
  <2> SUFFICES ASSUME k # 1
               PROVE  pts[k] < x
    OBVIOUS
  <2>1. k - 1 \in 1..n /\ k - 1 # n /\ (k - 1) + 1 = k /\ ~(k <= k - 1)
    BY <1>1, <1>7
  <2>2. k - 1 \notin behind
    BY <1>6, <2>1
  <2>3. ~(pts[k] >= x)
    BY <2>1, <2>2
  <2>4. pts[k] \in Int
    BY <1>1, <1>7
  <2> QED BY <1>2, <2>3, <2>4
<1> QED BY <1>7, <1>8 DEF k

\* The index of a position is that of the point nearest to it.
LEMMA ResolvesNearest ==
  ASSUME NEW pts \in Scales, pts # <<>>, NEW x \in Xs
  PROVE  /\ ResolveTooltip(pts, x) \in [index : 1..Len(pts), x : Xs]
         /\ ResolveTooltip(pts, x).x = pts[ResolveTooltip(pts, x).index]
         /\ \A j \in 1..Len(pts) :
              Most(x - ResolveTooltip(pts, x).x, ResolveTooltip(pts, x).x - x) <= Most(x - pts[j], pts[j] - x)
<1> DEFINE n == Len(pts)  k == Before(pts, x)  i == ResolveIndex(pts, x)
<1>1. /\ n \in Nat \ {0} /\ x \in Int /\ \A j \in 1..n : pts[j] \in Int /\ pts[j] \in Xs
      /\ \A j \in 1..n, l \in 1..n : j < l => pts[j] < pts[l]
  BY ScaleIs DEF Xs
<1>2. k \in 1..n /\ (k # 1 => pts[k] < x) /\ (k # n => pts[k + 1] >= x)
  BY BeforeIs
<1>3. i = IF k < n /\ x - pts[k] > pts[k + 1] - x THEN k + 1 ELSE k
  BY DEF ResolveIndex
<1> HIDE DEF k, n
<1>4. i \in 1..n
  BY <1>1, <1>2, <1>3
<1>5. ResolveTooltip(pts, x) = [index |-> i, x |-> pts[i]]
  BY DEF ResolveTooltip
<1> HIDE DEF i
<1>6. ResolveTooltip(pts, x) \in [index : 1..n, x : Xs]
  BY <1>1, <1>4, <1>5
<1>7. ASSUME NEW j \in 1..n
      PROVE  Most(x - pts[i], pts[i] - x) <= Most(x - pts[j], pts[j] - x)
  <2>1. pts[i] \in Int /\ pts[j] \in Int /\ pts[k] \in Int
    BY <1>1, <1>2, <1>4
  <2>2. CASE j <= k
    <3>1. pts[j] <= pts[k]
      <4>1. j = k \/ pts[j] < pts[k]
        BY <1>1, <1>2, <2>2
      <4> QED BY <2>1, <4>1
    <3>2. CASE i = k
      <4>1. CASE k = 1
        <5>1. j = k
          BY <1>2, <2>2, <4>1
        <5> QED BY <1>1, <2>1, <3>2, <5>1 DEF Most
      <4>2. CASE k # 1
        BY <1>1, <1>2, <2>1, <3>1, <3>2, <4>2 DEF Most
      <4> QED BY <4>1, <4>2
    <3>3. CASE i # k
      <4>1. k < n /\ i = k + 1 /\ x - pts[k] > pts[k + 1] - x /\ pts[k + 1] >= x
        BY <1>1, <1>2, <1>3, <3>3
      <4> QED BY <1>1, <2>1, <3>1, <4>1 DEF Most
    <3> QED BY <3>2, <3>3
  <2>3. CASE j >= k + 1
    <3>1. k + 1 \in 1..n /\ k # n /\ k < n
      BY <1>1, <1>2, <2>3
    <3>2. pts[k + 1] \in Int /\ pts[k + 1] >= x
      BY <1>1, <1>2, <3>1
    <3>3. pts[k + 1] <= pts[j]
      <4>1. j = k + 1 \/ pts[k + 1] < pts[j]
        BY <1>1, <2>3, <3>1
      <4> QED BY <2>1, <3>2, <4>1
    <3>4. pts[k] < pts[k + 1]
      BY <1>1, <1>2, <3>1
    <3>5. CASE i = k
      <4>1. x - pts[k] <= pts[k + 1] - x
        BY <1>1, <1>3, <2>1, <3>1, <3>2, <3>5
      <4> QED BY <1>1, <2>1, <3>2, <3>3, <3>4, <3>5, <4>1 DEF Most
    <3>6. CASE i # k
      <4>1. i = k + 1
        BY <1>3, <3>6
      <4> QED BY <1>1, <2>1, <3>2, <3>3, <4>1 DEF Most
    <3> QED BY <3>5, <3>6
  <2> QED BY <1>1, <1>2, <2>2, <2>3
<1> QED BY <1>5, <1>6, <1>7 DEF n

Tooltips == {NoTip} \cup [index : 1..(MaxX + 1), x : Xs]

LEMMA TooltipsOfPoints ==
  ASSUME NEW pts \in Scales, pts # <<>>, NEW x \in Xs
  PROVE  ResolveTooltip(pts, x) \in Tooltips /\ ResolveTooltip(pts, x) # NoTip
<1>1. ResolveTooltip(pts, x) \in [index : 1..Len(pts), x : Xs] /\ Len(pts) \in 0..(MaxX + 1)
  BY ResolvesNearest, ScaleIs
<1>2. 1..Len(pts) \subseteq 1..(MaxX + 1)
  BY <1>1, PointerAssumption
<1>3. ResolveTooltip(pts, x).index \in 1..(MaxX + 1)
  BY <1>1, <1>2
<1>4. ResolveTooltip(pts, x).index # 0
  BY <1>3
<1> QED BY <1>1, <1>2, <1>4 DEF Tooltips, NoTip

LEMMA PointerTells == PointerInv => TooltipOnNearest /\ WithholdsShownOnly /\ BandAboutPoint /\ SelectionHeld
<1> SUFFICES ASSUME PointerInv
             PROVE  TooltipOnNearest /\ BandAboutPoint
  BY DEF PointerInv
<1>1. points \in Scales /\ lastHoveredX \in Xs \cup {NoX} /\ tooltipData \in Tooltips
  BY DEF PointerInv, PointerTypeOK, Tooltips
<1>2. ASSUME interactive, ~rafDue, tooltipData # NoTip
      PROVE  /\ lastHoveredX # NoX /\ lastHoveredX \in Xs /\ points # <<>>
             /\ tooltipData = ResolveTooltip(points, lastHoveredX)
  BY <1>1, <1>2 DEF PointerInv
<1>3. TooltipOnNearest
  BY <1>1, <1>2, ResolvesNearest DEF TooltipOnNearest
<1>4. ASSUME interactive, ~rafDue, tooltipData # NoTip, marked = NoSelection
      PROVE  /\ SegmentBounds.isActive
             /\ SegmentBounds.x <= tooltipData.x /\ tooltipData.x <= SegmentBounds.x + SegmentBounds.width
  <2> DEFINE n == Len(points)  i == tooltipData.index  from == IF i > 1 THEN i - 1 ELSE 1  to == Least(n, i + 1)
  <2>1. i \in 1..n /\ tooltipData.x = points[i] /\ points # <<>>
    BY <1>1, <1>2, <1>4, ResolvesNearest
  <2>2. /\ n \in Nat /\ \A j \in 1..n : points[j] \in Int
        /\ \A j \in 1..n, l \in 1..n : j < l => points[j] < points[l]
    BY <1>1, ScaleIs DEF Xs
  <2>3. from \in 1..n /\ to \in 1..n /\ from <= i /\ i <= to
    BY <2>1, <2>2 DEF Least
  <2>4. SegmentBounds = [x |-> points[from], width |-> Most(0, points[to] - points[from]), isActive |-> TRUE]
    <3>1. ~(from > n)
      BY <2>2, <2>3
    <3> QED BY <1>4, <2>1, <3>1 DEF SegmentBounds
  <2> HIDE DEF n, i, from, to
  <2>5. points[from] <= points[i] /\ points[i] <= points[to]
    <3>1. from = i \/ points[from] < points[i]
      BY <2>1, <2>2, <2>3
    <3>2. to = i \/ points[i] < points[to]
      BY <2>1, <2>2, <2>3
    <3> QED BY <2>1, <2>2, <2>3, <3>1, <3>2
  <2>6. points[from] \in Int /\ points[i] \in Int /\ points[to] \in Int
    BY <2>1, <2>2, <2>3
  <2>7. points[i] <= points[from] + Most(0, points[to] - points[from])
    BY <2>5, <2>6 DEF Most
  <2> QED BY <2>1, <2>4, <2>5, <2>7
<1>5. BandAboutPoint
  BY <1>4 DEF BandAboutPoint
<1> QED BY <1>3, <1>5

LEMMA PointerInitInv == PointerInit => PointerInv
<1> SUFFICES ASSUME PointerInit
             PROVE  PointerInv
  OBVIOUS
<1> USE PointerAssumption DEF PointerInit
<1>1. 0 \in Xs /\ 0 \in 0..2
  BY DEF Xs
<1>2. {tooltipData, lastKey, pending} \subseteq {NoTip} \cup [index : 1..(MaxX + 1), x : Xs]
  OBVIOUS
<1>3. PointerTypeOK
  BY <1>1, <1>2 DEF PointerTypeOK
<1> QED BY <1>3 DEF PointerInv, WithholdsShownOnly, SelectionHeld

\* What the tooltip's part of an event leaves: what PointerInv says of the tooltip.
TipInv ==
    /\ {tooltipData, lastKey, pending} \subseteq Tooltips /\ rafDue \in BOOLEAN
    /\ lastKey = tooltipData
    /\ lastHoveredX = NoX => tooltipData = NoTip /\ pending = NoTip
    /\ tooltipData # NoTip => pending # NoTip
    /\ interactive /\ pending # NoTip => points # <<>> /\ pending = ResolveTooltip(points, lastHoveredX)
    /\ interactive /\ tooltipData # NoTip /\ ~rafDue => tooltipData = ResolveTooltip(points, lastHoveredX)

\* And what it says of the pointers and of the selection they hold.
HoldInv ==
    /\ mouse \in {"away", "over", "down"} /\ fingers \in 0..2
    /\ marked = NoSelection \/ (marked.from \in Xs /\ marked.to \in marked.from..MaxX)
    /\ isDragging \in BOOLEAN /\ dragStartX \in Xs /\ unheard \in BOOLEAN
    /\ SelectionHeld
    /\ isDragging => mouse = "down" \/ unheard

LEMMA PointerParts ==
  PointerInv <=> /\ points \in Scales /\ interactive \in BOOLEAN /\ lastHoveredX \in Xs \cup {NoX}
                 /\ TipInv /\ HoldInv
  BY DEF PointerInv, PointerTypeOK, TipInv, HoldInv, WithholdsShownOnly, Tooltips

LEMMA TipCleared ==
  ASSUME ClearTooltip
  PROVE  TipInv'
  BY DEF ClearTooltip, TipInv, Tooltips

\* A hover on the data and the scale that follow.
LEMMA TipScheduled ==
  ASSUME TipInv, points' \in Scales, points' # <<>>, lastHoveredX' \in Xs, NEW tipOf,
         tipOf = ResolveTooltip(points', lastHoveredX'), Schedule(tipOf)
  PROVE  TipInv'
<1>1. tipOf \in Tooltips /\ tipOf # NoTip
  BY TooltipsOfPoints
<1>2. /\ tooltipData' = tooltipData /\ lastKey' = lastKey /\ pending' = tipOf
      /\ rafDue' = (rafDue \/ tipOf # lastKey)
  BY DEF Schedule
<1>3. lastHoveredX' # NoX
  BY DEF Xs, NoX
<1>4. interactive' /\ tooltipData' # NoTip /\ ~rafDue' => tooltipData' = ResolveTooltip(points', lastHoveredX')
  BY <1>2 DEF TipInv
<1> QED BY <1>1, <1>2, <1>3, <1>4 DEF TipInv

\* A hover on the data of now.
LEMMA TipHovered ==
  ASSUME PointerInv, NEW x \in Xs, HoverAt(x), interactive, UNCHANGED <<points, interactive>>
  PROVE  TipInv' /\ lastHoveredX' \in Xs \cup {NoX}
<1>1. TipInv /\ points \in Scales /\ lastHoveredX' = x /\ x # NoX
  BY PointerParts DEF HoverAt, Xs, NoX
<1>2. CASE points = <<>>
  <2>1. UNCHANGED tooltipVars
    BY <1>2 DEF HoverAt
  <2>2. pending = NoTip /\ tooltipData = NoTip
    BY <1>1, <1>2 DEF TipInv
  <2> QED BY <1>1, <1>2, <2>1, <2>2 DEF TipInv, tooltipVars
<1>3. CASE points # <<>>
  BY <1>1, <1>3, TipScheduled DEF HoverAt
<1> QED BY <1>1, <1>2, <1>3

\* The tooltip is left alone.
LEMMA TipKept ==
  ASSUME TipInv, UNCHANGED <<tooltipVars, lastHoveredX>>, interactive' => (interactive /\ points' = points)
  PROVE  TipInv'
  BY DEF TipInv, tooltipVars

\* The effect that anchors it anew, on the data and the readiness of the next state.
LEMMA TipReanchored ==
  ASSUME TipInv, points' \in Scales, lastHoveredX \in Xs \cup {NoX}, UNCHANGED lastHoveredX,
         interactive' \in BOOLEAN, Reanchor(points', interactive')
  PROVE  TipInv'
<1>1. CASE ~interactive' \/ lastHoveredX = NoX
  BY <1>1 DEF Reanchor, TipInv, tooltipVars
<1>2. CASE interactive' /\ lastHoveredX # NoX /\ points' = <<>>
  BY <1>2, TipCleared DEF Reanchor
<1>3. CASE interactive' /\ lastHoveredX # NoX /\ points' # <<>>
  <2>1. Schedule(ResolveTooltip(points', lastHoveredX')) /\ lastHoveredX' \in Xs
    BY <1>3 DEF Reanchor
  <2> QED BY <1>3, <2>1, TipScheduled
<1> QED BY <1>1, <1>2, <1>3

LEMMA RangeSelected ==
  ASSUME NEW a \in Xs, NEW b \in Xs
  PROVE  SelectRange(a, b).from \in Xs /\ SelectRange(a, b).to \in SelectRange(a, b).from..MaxX
<1>1. a \in Nat /\ b \in Nat /\ a <= MaxX /\ b <= MaxX /\ MaxX \in Nat
  BY PointerAssumption DEF Xs
<1> QED BY <1>1 DEF SelectRange, Least, Most, Xs

LEMMA PointerStep == PointerInv /\ [PointerNext]_pointerVars => PointerInv'
<1> SUFFICES ASSUME PointerInv, [PointerNext]_pointerVars
             PROVE  PointerInv'
  OBVIOUS
<1>u. points \in Scales /\ interactive \in BOOLEAN /\ lastHoveredX \in Xs \cup {NoX} /\ TipInv /\ HoldInv
  BY PointerParts
<1>c. ASSUME points' \in Scales, interactive' \in BOOLEAN, lastHoveredX' \in Xs \cup {NoX}, TipInv', HoldInv'
      PROVE  PointerInv'
  BY <1>c DEF PointerInv, PointerTypeOK, TipInv, HoldInv, WithholdsShownOnly, Tooltips
<1>1. ASSUME NEW x \in Xs, MouseMove(x) PROVE PointerInv'
  <2>1. /\ fingers = 0 /\ mouse' = (IF mouse = "away" THEN "over" ELSE mouse)
        /\ UNCHANGED <<points, interactive, fingers, isDragging, dragStartX, unheard>>
    BY <1>1 DEF MouseMove, chart
  <2>2. TipInv' /\ lastHoveredX' \in Xs \cup {NoX}
    BY <1>u, <1>1, <2>1, TipKept, TipHovered DEF MouseMove
  <2>3. HoldInv'
    <3>1. CASE interactive /\ isDragging
      <4>1. marked' = SelectRange(dragStartX, x)
        BY <1>1, <3>1 DEF MouseMove
      <4>2. marked'.from \in Xs /\ marked'.to \in marked'.from..MaxX
        BY <1>u, <4>1, RangeSelected DEF HoldInv
      <4>3. unheard \/ mouse = "down"
        BY <1>u, <3>1 DEF HoldInv
      <4> QED BY <1>u, <2>1, <3>1, <4>2, <4>3 DEF HoldInv, SelectionHeld
    <3>2. CASE ~(interactive /\ isDragging)
      <4>1. UNCHANGED marked
        BY <1>1, <3>2 DEF MouseMove
      <4> QED BY <1>u, <2>1, <4>1 DEF HoldInv, SelectionHeld
    <3> QED BY <3>1, <3>2
  <2> QED BY <1>u, <1>c, <2>1, <2>2, <2>3
<1>2. CASE MouseLeave
  <2>1. mouse # "away" /\ mouse' = "away" /\ UNCHANGED <<points, interactive, fingers, dragStartX>>
    BY <1>2 DEF MouseLeave, chart
  <2>2. CASE interactive
    <3>1. ClearTooltip /\ lastHoveredX' = NoX /\ isDragging' = FALSE /\ marked' = NoSelection /\ UNCHANGED unheard
      BY <1>2, <2>2 DEF MouseLeave
    <3>2. HoldInv'
      BY <1>u, <2>1, <3>1 DEF HoldInv, SelectionHeld
    <3> QED BY <1>u, <1>c, <2>1, <3>1, <3>2, TipCleared
  <2>3. CASE ~interactive
    <3>1. UNCHANGED <<tooltipVars, lastHoveredX, isDragging, marked>> /\ unheard' = TRUE
      BY <1>2, <2>3 DEF MouseLeave
    <3>2. HoldInv'
      BY <1>u, <2>1, <3>1 DEF HoldInv, SelectionHeld
    <3> QED BY <1>u, <1>c, <2>1, <3>1, <3>2, TipKept
  <2> QED BY <2>2, <2>3
<1>3. ASSUME NEW x \in Xs, MouseDown(x) PROVE PointerInv'
  <2>1. mouse = "over" /\ mouse' = "down" /\ UNCHANGED <<points, interactive, fingers, lastHoveredX, unheard>>
    BY <1>3 DEF MouseDown, chart
  <2>2. CASE interactive
    <3>1. ClearTooltip /\ isDragging' = TRUE /\ dragStartX' = x /\ marked' = NoSelection
      BY <1>3, <2>2 DEF MouseDown
    <3>2. HoldInv'
      BY <1>u, <2>1, <3>1 DEF HoldInv, SelectionHeld
    <3> QED BY <1>u, <1>c, <2>1, <3>1, <3>2, TipCleared
  <2>3. CASE ~interactive
    <3>1. UNCHANGED <<tooltipVars, isDragging, dragStartX, marked>>
      BY <1>3, <2>3 DEF MouseDown
    <3>2. HoldInv'
      BY <1>u, <2>1, <3>1 DEF HoldInv, SelectionHeld
    <3> QED BY <1>u, <1>c, <2>1, <3>1, <3>2, TipKept
  <2> QED BY <2>2, <2>3
<1>4. CASE MouseUp
  <2>1. /\ mouse = "down" /\ mouse' = "over"
        /\ UNCHANGED <<points, interactive, fingers, tooltipVars, dragStartX, lastHoveredX>>
        /\ IF interactive THEN isDragging' = FALSE /\ marked' = NoSelection /\ UNCHANGED unheard
           ELSE UNCHANGED <<isDragging, marked>> /\ unheard' = TRUE
    BY <1>4 DEF MouseUp, chart
  <2>2. HoldInv'
    BY <1>u, <2>1 DEF HoldInv, SelectionHeld
  <2> QED BY <1>u, <1>c, <2>1, <2>2, TipKept
<1>5. ASSUME NEW x0 \in Xs, NEW x1 \in Xs, TouchStart(x0, x1) PROVE PointerInv'
  <2>1. /\ mouse = "away" /\ fingers < 2 /\ fingers' = fingers + 1
        /\ UNCHANGED <<points, interactive, mouse, isDragging, dragStartX, unheard>>
    BY <1>5 DEF TouchStart, chart
  <2>2. fingers' \in 0..2 /\ (fingers' = 1 \/ fingers' = 2)
    BY <1>u, <2>1 DEF HoldInv
  <2>3. CASE ~interactive
    <3>1. UNCHANGED <<tooltipVars, marked, lastHoveredX>>
      BY <1>5, <2>3 DEF TouchStart
    <3>2. HoldInv'
      BY <1>u, <2>1, <2>2, <3>1 DEF HoldInv, SelectionHeld
    <3> QED BY <1>u, <1>c, <2>1, <3>1, <3>2, TipKept
  <2>4. CASE interactive /\ fingers' = 1
    <3>1. HoverAt(x0) /\ UNCHANGED marked
      BY <1>5, <2>4 DEF TouchStart
    <3>2. HoldInv'
      BY <1>u, <2>1, <2>2, <3>1 DEF HoldInv, SelectionHeld
    <3>3. TipInv' /\ lastHoveredX' \in Xs \cup {NoX}
      BY <2>1, <2>4, <3>1, TipHovered
    <3> QED BY <1>u, <1>c, <2>1, <3>2, <3>3
  <2>5. CASE interactive /\ fingers' # 1
    <3>1. ClearTooltip /\ marked' = SelectRange(x0, x1) /\ UNCHANGED lastHoveredX
      BY <1>5, <2>5 DEF TouchStart
    <3>2. marked'.from \in Xs /\ marked'.to \in marked'.from..MaxX
      BY <3>1, RangeSelected
    <3>3. HoldInv'
      BY <1>u, <2>1, <2>2, <2>5, <3>2 DEF HoldInv, SelectionHeld
    <3> QED BY <1>u, <1>c, <2>1, <3>1, <3>3, TipCleared
  <2> QED BY <2>3, <2>4, <2>5
<1>6. ASSUME NEW x0 \in Xs, NEW x1 \in Xs, TouchMove(x0, x1) PROVE PointerInv'
  <2>1. /\ fingers > 0 /\ interactive
        /\ UNCHANGED <<points, interactive, mouse, fingers, isDragging, dragStartX, unheard>>
    BY <1>6 DEF TouchMove, chart, pointers
  <2>2. fingers = 1 \/ fingers = 2
    BY <1>u, <2>1 DEF HoldInv
  <2>3. CASE fingers = 1
    <3>1. HoverAt(x0) /\ UNCHANGED marked
      BY <1>6, <2>3 DEF TouchMove
    <3>2. HoldInv'
      BY <1>u, <2>1, <3>1 DEF HoldInv, SelectionHeld
    <3>3. TipInv' /\ lastHoveredX' \in Xs \cup {NoX}
      BY <2>1, <3>1, TipHovered
    <3> QED BY <1>u, <1>c, <2>1, <3>2, <3>3
  <2>4. CASE fingers = 2
    <3>1. marked' = SelectRange(x0, x1) /\ UNCHANGED <<tooltipVars, lastHoveredX>>
      BY <1>6, <2>4 DEF TouchMove
    <3>2. marked'.from \in Xs /\ marked'.to \in marked'.from..MaxX
      BY <3>1, RangeSelected
    <3>3. HoldInv'
      BY <1>u, <2>1, <2>4, <3>2 DEF HoldInv, SelectionHeld
    <3> QED BY <1>u, <1>c, <2>1, <3>1, <3>3, TipKept
  <2> QED BY <2>2, <2>3, <2>4
<1>7. CASE TouchEnd
  <2>1. fingers > 0 /\ fingers' = fingers - 1 /\ UNCHANGED <<points, interactive, mouse, isDragging, dragStartX, lastHoveredX>>
    BY <1>7 DEF TouchEnd, chart
  <2>2. fingers' \in 0..2 /\ fingers' # 2
    BY <1>u, <2>1 DEF HoldInv
  <2>3. CASE interactive
    <3>1. ClearTooltip /\ marked' = NoSelection /\ UNCHANGED unheard
      BY <1>7, <2>3 DEF TouchEnd
    <3>2. HoldInv'
      BY <1>u, <2>1, <2>2, <3>1 DEF HoldInv, SelectionHeld
    <3> QED BY <1>u, <1>c, <2>1, <3>1, <3>2, TipCleared
  <2>4. CASE ~interactive
    <3>1. UNCHANGED <<tooltipVars, marked>> /\ unheard' = TRUE
      BY <1>7, <2>4 DEF TouchEnd
    <3>2. HoldInv'
      BY <1>u, <2>1, <2>2, <3>1 DEF HoldInv, SelectionHeld
    <3> QED BY <1>u, <1>c, <2>1, <3>1, <3>2, TipKept
  <2> QED BY <2>3, <2>4
<1>8. CASE AnimationFrame
  <2>1. /\ rafDue' = FALSE
        /\ UNCHANGED <<points, interactive, mouse, fingers, pending, marked, isDragging, dragStartX, lastHoveredX, unheard>>
        /\ IF pending \notin {NoTip, lastKey} THEN tooltipData' = pending /\ lastKey' = pending
           ELSE UNCHANGED <<tooltipData, lastKey>>
    BY <1>8 DEF AnimationFrame, chart, pointers
  <2>2. TipInv'
    BY <1>u, <2>1 DEF TipInv
  <2>3. HoldInv'
    BY <1>u, <2>1 DEF HoldInv, SelectionHeld
  <2> QED BY <1>u, <1>c, <2>1, <2>2, <2>3
<1>9. CASE RescaleChart \/ ChangeInteractive
  <2>1. /\ points' \in Scales /\ interactive' \in BOOLEAN /\ Reanchor(points', interactive')
        /\ UNCHANGED <<mouse, fingers, marked, isDragging, dragStartX, lastHoveredX, unheard>>
    BY <1>u, <1>9 DEF RescaleChart, ChangeInteractive, pointers
  <2>2. TipInv'
    BY <1>u, <2>1, TipReanchored
  <2>3. HoldInv'
    BY <1>u, <2>1 DEF HoldInv, SelectionHeld
  <2> QED BY <1>u, <1>c, <2>1, <2>2, <2>3
<1>10. CASE UNCHANGED pointerVars
  <2>1. TipInv'
    BY <1>u, <1>10 DEF TipInv, pointerVars
  <2>2. HoldInv'
    BY <1>u, <1>10 DEF HoldInv, SelectionHeld, pointerVars
  <2> QED BY <1>u, <1>c, <1>10, <2>1, <2>2 DEF pointerVars
<1> QED
  BY <1>1, <1>2, <1>3, <1>4, <1>5, <1>6, <1>7, <1>8, <1>9, <1>10 DEF PointerNext

-----------------------------------------------------------------------------
(* The panel and the pill of a tooltip.                                        *)

\* The panel stands where the size that was measured places it, though neither is read
\* again at every render; the pill has scrolled to the segment of the row.
PanelInv ==
    /\ motion \in BOOLEAN /\ sideways \in BOOLEAN
    /\ labels \in Seq(Months) /\ labels # <<>>
    /\ measured \in [w : Nat, h : Nat] /\ content \in [w : Nat, h : Nat]
    /\ tipPoint # NoPoint =>
        /\ tipPoint.row \in Nat \ {0} /\ tipPoint.x \in 0..BoxWidth /\ tipPoint.y \in Int
        /\ panel = Place(tipPoint, measured)
        /\ months = IF ~Ticking(labels) THEN -1 ELSE MonthIndex(labels, tipPoint.row)

\* The last month to begin up to a row is that of the row.
LEMMA MonthOfRow ==
  ASSUME NEW ls, NEW n \in Nat, DOMAIN ls = 1..n, NEW row \in 1..n
  PROVE  \E i \in MonthStarts(ls) : i <= row /\ ls[i] = ls[row] /\ \A j \in MonthStarts(ls) : j <= row => j <= i
<1> DEFINE T == {i \in MonthStarts(ls) : i <= row}
<1>1. MonthStarts(ls) \subseteq 1..n /\ 1 \in MonthStarts(ls)
  BY DEF MonthStarts
<1>2. PICK i \in T : \A j \in T : j <= i
  <2>1. T \subseteq Int /\ T # {} /\ (\A y \in T : y <= row) /\ row \in Int
    BY <1>1
  <2> HIDE DEF T
  <2> QED BY <2>1, GreatestIn
<1>3. i \in MonthStarts(ls) /\ i \in 1..n /\ i <= row /\ \A j \in MonthStarts(ls) : j <= row => j <= i
  BY <1>1, <1>2
<1> DEFINE U == {m \in Nat : i + m <= row => ls[i + m] = ls[i]}
<1>4. 0 \in U
  BY <1>3
<1>5. ASSUME NEW m \in Nat, m \in U PROVE m + 1 \in U
  <2> SUFFICES ASSUME i + (m + 1) <= row
               PROVE  ls[i + (m + 1)] = ls[i]
    OBVIOUS
  <2> DEFINE k == i + (m + 1)
  <2>1. k \in 1..n /\ k # 1 /\ k > i /\ k <= row /\ k - 1 = i + m /\ i + m <= row
    BY <1>3
  <2>2. k \notin MonthStarts(ls)
    BY <1>3, <2>1
  <2>3. ls[k - 1] = ls[k]
    <3> HIDE DEF k
    <3> QED BY <2>1, <2>2 DEF MonthStarts
  <2>4. ls[i + m] = ls[i]
    BY <1>5, <2>1
  <2> QED BY <2>1, <2>3, <2>4
<1>6. Nat \subseteq U
  <2> HIDE DEF U
  <2> QED BY <1>4, <1>5, NatInduct
<1>7. row - i \in Nat /\ i + (row - i) = row
  BY <1>3
<1>8. ls[row] = ls[i]
  BY <1>6, <1>7
<1> QED BY <1>3, <1>8

\* The segment the pill scrolls to is the month of the row.
LEMMA SegmentOfRow ==
  ASSUME NEW ls \in Seq(Months), NEW row \in 1..Len(ls)
  PROVE  /\ MonthIndex(ls, row) + 1 \in DOMAIN MonthSegments(ls)
         /\ MonthSegments(ls)[MonthIndex(ls, row) + 1] = ls[row]
<1> DEFINE n == Len(ls)
           S == MonthStarts(ls)
           upto(i) == {j \in S : j <= i}
<1>1. n \in Nat /\ DOMAIN ls = 1..n
  BY LenProperties
<1>2. S \subseteq 1..n /\ 1 \in S
  BY <1>1 DEF MonthStarts
<1>3. IsFiniteSet(S) /\ Cardinality(S) \in Nat
  <2>1. IsFiniteSet(1..n)
    BY <1>1, FS_Interval
  <2>2. S \in SUBSET (1..n)
    BY <1>2
  <2>3. IsFiniteSet(S)
    <3> HIDE DEF S, n
    <3> QED BY <2>1, <2>2, FS_Subset
  <2> QED BY <2>3, FS_CardinalityType
<1>4. PICK s \in S : s <= row /\ ls[s] = ls[row] /\ \A j \in S : j <= row => j <= s
  BY <1>1, MonthOfRow
<1> HIDE DEF S, n
<1>5. ASSUME NEW i \in Int
      PROVE  IsFiniteSet(upto(i)) /\ Cardinality(upto(i)) \in Nat /\ Cardinality(upto(i)) <= Cardinality(S)
  <2>1. upto(i) \in SUBSET S
    OBVIOUS
  <2>2. IsFiniteSet(upto(i)) /\ Cardinality(upto(i)) <= Cardinality(S)
    <3> HIDE DEF upto
    <3> QED BY <1>3, <2>1, FS_Subset
  <2>3. Cardinality(upto(i)) \in Nat
    BY <2>2, FS_CardinalityType
  <2> QED BY <2>2, <2>3
<1>6. ASSUME NEW i \in S, NEW k \in S, i < k
      PROVE  Cardinality(upto(i)) < Cardinality(upto(k))
  <2>1. i \in Int /\ k \in Int
    BY <1>1, <1>2
  <2>2. upto(i) \in SUBSET upto(k)
    <3>1. ASSUME NEW j \in S, j <= i PROVE j <= k
      <4>1. j \in Int
        BY <1>1, <1>2
      <4> QED BY <1>6, <2>1, <3>1, <4>1
    <3> QED BY <3>1
  <2>3. k \in upto(k) /\ k \notin upto(i)
    BY <1>6, <2>1
  <2>4. /\ IsFiniteSet(upto(k)) /\ Cardinality(upto(k)) \in Nat /\ Cardinality(upto(i)) \in Nat
    BY <1>5, <2>1
  <2> HIDE DEF upto
  <2>5. /\ Cardinality(upto(i)) <= Cardinality(upto(k))
        /\ Cardinality(upto(k)) = Cardinality(upto(i)) => upto(k) = upto(i)
    BY <2>2, <2>4, FS_Subset
  <2>6. Cardinality(upto(k)) # Cardinality(upto(i))
    BY <2>3, <2>5
  <2> QED BY <2>4, <2>5, <2>6
<1>7. row \in Int /\ row <= n /\ s \in Int
  BY <1>1, <1>2 DEF n
<1>8. upto(s) = upto(row)
  <2>1. ASSUME NEW j \in S PROVE j <= s <=> j <= row
    <3>1. j \in Int
      BY <1>1, <1>2
    <3> QED BY <1>4, <1>7, <3>1
  <2> QED BY <2>1
<1> DEFINE c == Cardinality(upto(s))
<1>9. c \in Nat /\ c >= 1 /\ c <= Cardinality(S)
  <2>1. c \in Nat /\ c <= Cardinality(S) /\ IsFiniteSet(upto(s))
    BY <1>5, <1>7
  <2>2. s \in upto(s)
    BY <1>4, <1>7
  <2>3. c # 0
    <3> HIDE DEF upto
    <3> QED BY <2>1, <2>2, FS_EmptySet
  <2> QED BY <2>1, <2>3
<1>10. MonthIndex(ls, row) = c - 1
  <2>1. ~(row > Len(ls))
    BY <1>1, <1>7 DEF n
  <2>2. {i \in MonthStarts(ls) : i <= row} = upto(s)
    BY <1>8 DEF S
  <2>3. MonthIndex(ls, row) = Max({0, c - 1})
    <3> HIDE DEF upto
    <3> QED BY <2>1, <2>2 DEF MonthIndex
  <2> HIDE DEF c
  <2> QED BY <1>9, <2>3, MaxOfTwo
<1>11. c \in 1..Cardinality(S)
  BY <1>3, <1>9
<1>12. MonthSegments(ls)[c] = ls[CHOOSE i \in S : Cardinality(upto(i)) = c]
  BY <1>11 DEF MonthSegments, S
<1>13. (CHOOSE i \in S : Cardinality(upto(i)) = c) = s
  <2>1. ASSUME NEW i \in S, Cardinality(upto(i)) = c PROVE i = s
    <3>1. i \in Int /\ s \in Int /\ c \in Nat
      BY <1>1, <1>2, <1>7, <1>9
    <3>2. ~(i < s)
      <4>1. i < s => Cardinality(upto(i)) < c
        BY <1>4, <1>6
      <4> HIDE DEF upto, c
      <4> QED BY <2>1, <3>1, <4>1
    <3>3. ~(s < i)
      <4>1. s < i => c < Cardinality(upto(i))
        BY <1>4, <1>6
      <4> HIDE DEF upto, c
      <4> QED BY <2>1, <3>1, <4>1
    <3> QED BY <3>1, <3>2, <3>3
  <2>2. Cardinality(upto(s)) = c
    OBVIOUS
  <2> HIDE DEF upto, c
  <2> QED BY <1>4, <2>1, <2>2
<1>14. DOMAIN MonthSegments(ls) = 1..Cardinality(S)
  BY DEF MonthSegments, S
<1>15. (c - 1) + 1 = c
  BY <1>9
<1> HIDE DEF c
<1> QED BY <1>4, <1>10, <1>11, <1>12, <1>13, <1>14, <1>15

\* Beside the point, inside the box.
LEMMA PlacedBeside ==
  ASSUME NEW point, point.x \in 0..BoxWidth, point.y \in Int, NEW size \in [w : Nat, h : Nat]
  PROVE  LET at0 == Place(point, size)  right == at0.left + size.w
         IN  /\ right + Offset <= point.x \/ point.x + Offset <= at0.left
             /\ size.w + Offset <= point.x \/ point.x + Offset + size.w <= BoxWidth => 0 <= at0.left /\ right <= BoxWidth
             /\ sideways /\ size.h + 2 * Offset <= BoxHeight
                  => Offset <= at0.top /\ at0.top + size.h + Offset <= BoxHeight
<1> USE TooltipAssumption
<1> DEFINE x == point.x  y == point.y  w == size.w  h == size.h
           spare == BoxHeight - h - Offset  upper == Min({y - h \div 2, spare})
<1>1. x \in Int /\ 0 <= x /\ x <= BoxWidth /\ y \in Int /\ w \in Nat /\ h \in Nat /\ BoxWidth \in Nat /\ BoxHeight \in Nat /\ Offset \in Nat
  OBVIOUS
<1>2. Place(point, size).left = IF x + w + Offset > BoxWidth THEN x - Offset - w ELSE x + Offset
  BY DEF Place, LeftOf, Flip
<1>3. sideways => Place(point, size).top = Max({Offset, upper})
  BY DEF Place, TopOf
<1> HIDE DEF x, y, w, h
<1>4. upper \in Int /\ upper <= spare
  <2>1. y - h \div 2 \in Int /\ spare \in Int
    BY <1>1
  <2> DEFINE b == y - h \div 2
  <2> HIDE DEF b, spare
  <2>2. Min({b, spare}) = IF b < spare THEN b ELSE spare
    BY <2>1, MinOfTwo DEF b
  <2> QED BY <2>1, <2>2 DEF b
<1> HIDE DEF upper
<1>5. Max({Offset, upper}) = IF Offset < upper THEN upper ELSE Offset
  BY <1>1, <1>4, MaxOfTwo
<1>6. sideways /\ h + 2 * Offset <= BoxHeight
        => Offset <= Place(point, size).top /\ Place(point, size).top + h + Offset <= BoxHeight
  BY <1>1, <1>3, <1>4, <1>5
<1>7. CASE x + w + Offset > BoxWidth
  <2>1. Place(point, size).left = x - Offset - w
    BY <1>2, <1>7
  <2>2. /\ Place(point, size).left + w + Offset <= x
        /\ w + Offset <= x \/ x + Offset + w <= BoxWidth
             => 0 <= Place(point, size).left /\ Place(point, size).left + w <= BoxWidth
    BY <1>1, <1>7, <2>1
  <2> QED BY <1>6, <2>2 DEF x, w, h
<1>8. CASE ~(x + w + Offset > BoxWidth)
  <2>1. Place(point, size).left = x + Offset
    BY <1>2, <1>8
  <2>2. /\ x + Offset <= Place(point, size).left
        /\ 0 <= Place(point, size).left /\ Place(point, size).left + w <= BoxWidth
    BY <1>1, <1>8, <2>1
  <2> QED BY <1>6, <2>2 DEF x, w, h
<1> QED BY <1>7, <1>8

LEMMA PanelPlaced == PanelInv => PanelBesidePoint /\ PillShowsLabel
<1> SUFFICES ASSUME PanelInv, tipPoint # NoPoint
             PROVE  PanelBesidePoint /\ PillShowsLabel
  BY DEF PanelBesidePoint, PillShowsLabel
<1>1. /\ tipPoint.row \in Nat \ {0} /\ tipPoint.x \in 0..BoxWidth /\ tipPoint.y \in Int
      /\ panel = Place(tipPoint, measured) /\ measured \in [w : Nat, h : Nat] /\ labels \in Seq(Months)
      /\ months = IF ~Ticking(labels) THEN -1 ELSE MonthIndex(labels, tipPoint.row)
  BY DEF PanelInv
<1>2. PanelBesidePoint
  BY <1>1, PlacedBeside DEF PanelBesidePoint
<1>3. PillShowsLabel
  <2> SUFFICES ASSUME tipPoint.row <= Len(labels), Ticking(labels)
               PROVE  months + 1 \in DOMAIN MonthSegments(labels) /\ MonthSegments(labels)[months + 1] = labels[tipPoint.row]
    BY DEF PillShowsLabel
  <2>1. tipPoint.row \in 1..Len(labels)
    BY <1>1, LenProperties
  <2>2. months = MonthIndex(labels, tipPoint.row)
    BY <1>1
  <2> QED BY <1>1, <2>1, <2>2, SegmentOfRow
<1> QED BY <1>2, <1>3

LEMMA PanelInitInv == TooltipInit => PanelInv
<1> SUFFICES ASSUME TooltipInit
             PROVE  PanelInv
  OBVIOUS
<1>1. /\ motion \in BOOLEAN /\ sideways \in BOOLEAN /\ tipPoint = NoPoint /\ content = DefaultSize /\ measured = DefaultSize
      /\ labels \in UNION {[1..n -> Months] : n \in 1..MaxLabels}
  BY DEF TooltipInit
<1>2. PICK n \in 1..MaxLabels : labels \in [1..n -> Months]
  BY <1>1
<1>3. n \in Nat /\ n # 0
  BY TooltipAssumption
<1>4. labels \in Seq(Months) /\ Len(labels) = n
  <2>1. labels \in Seq(Months)
    BY <1>2, <1>3, SeqDef
  <2> QED BY <1>2, <1>3, <2>1, LenProperties
<1>5. labels # <<>>
  BY <1>3, <1>4, EmptySeq
<1>6. DefaultSize \in [w : Nat, h : Nat]
  BY TooltipAssumption
<1> QED BY <1>1, <1>4, <1>5, <1>6 DEF PanelInv

LEMMA PanelStep == PanelInv /\ [TooltipNext]_panelVars => PanelInv'
<1> SUFFICES ASSUME PanelInv, [TooltipNext]_panelVars
             PROVE  PanelInv'
  OBVIOUS
<1> USE TooltipAssumption
<1>u. /\ motion \in BOOLEAN /\ sideways \in BOOLEAN /\ labels \in Seq(Months) /\ labels # <<>>
      /\ measured \in [w : Nat, h : Nat] /\ content \in [w : Nat, h : Nat]
  BY DEF PanelInv
<1>h. tipPoint # NoPoint =>
        /\ tipPoint.row \in Nat \ {0} /\ tipPoint.x \in 0..BoxWidth /\ tipPoint.y \in Int
        /\ panel = Place(tipPoint, measured)
        /\ months = IF ~Ticking(labels) THEN -1 ELSE MonthIndex(labels, tipPoint.row)
  BY DEF PanelInv
<1>p. ASSUME NEW q \in Points PROVE q.row \in Nat \ {0} /\ q.x \in 0..BoxWidth /\ q.y \in Int
  <2>1. q.row \in DOMAIN labels /\ q.x \in TipXs /\ q.y \in TipYs
    BY DEF Points
  <2>2. DOMAIN labels = 1..Len(labels) /\ Len(labels) \in Nat
    BY <1>u, LenProperties
  <2>3. q.row \in Nat \ {0}
    BY <2>1, <2>2
  <2>4. q.x \in 0..BoxWidth /\ q.y \in Int
    BY <2>1
  <2> QED BY <2>3, <2>4
<1>1. CASE ShowPoint
  <2>1. /\ tipPoint' \in Points /\ content' \in Contents
        /\ RenderPanel(tipPoint', content', DefaultSize, TRUE, TRUE) /\ RenderPill(labels, tipPoint'.row)
        /\ UNCHANGED <<motion, sideways, labels>>
    BY <1>1 DEF ShowPoint
  <2>2. measured' = content' /\ panel' = Place(tipPoint', content')
    BY <2>1 DEF RenderPanel
  <2>3. panel' = Place(tipPoint, measured)'
    BY <2>1, <2>2 DEF Place, LeftOf, TopOf, Flip
  <2>4. months' = IF ~Ticking(labels)' THEN -1 ELSE MonthIndex(labels, tipPoint.row)'
    BY <2>1 DEF RenderPill, Ticking, MonthIndex
  <2>5. content' \in [w : Nat, h : Nat] /\ measured' \in [w : Nat, h : Nat]
    BY <2>1, <2>2
  <2>6. tipPoint'.row \in Nat \ {0} /\ tipPoint'.x \in 0..BoxWidth /\ tipPoint'.y \in Int
    BY <1>p, <2>1
  <2> QED BY <1>u, <2>1, <2>3, <2>4, <2>5, <2>6 DEF PanelInv
<1>2. CASE MovePoint
  <2> DEFINE elsewhere == tipPoint'.x # tipPoint.x \/ (sideways /\ tipPoint'.y # tipPoint.y)
  <2>1. /\ tipPoint # NoPoint /\ tipPoint' \in Points /\ content' \in Contents
        /\ RenderPanel(tipPoint', content', measured, elsewhere, FALSE) /\ RenderPill(labels, tipPoint'.row)
        /\ UNCHANGED <<motion, sideways, labels>>
    BY <1>2 DEF MovePoint
  <2>2. /\ measured' = IF elsewhere THEN content' ELSE measured
        /\ panel' = IF elsewhere \/ motion THEN Place(tipPoint', measured') ELSE panel
    BY <2>1 DEF RenderPanel
  <2>3. panel' = Place(tipPoint', measured')
    <3>1. CASE elsewhere \/ motion
      BY <2>2, <3>1
    <3>2. CASE ~(elsewhere \/ motion)
      <4>1. measured' = measured /\ panel' = panel /\ tipPoint'.x = tipPoint.x /\ (sideways => tipPoint'.y = tipPoint.y)
        BY <2>2, <3>2
      <4>2. Place(tipPoint', measured) = Place(tipPoint, measured)
        BY <1>u, <4>1 DEF Place
      <4> QED BY <1>h, <2>1, <4>1, <4>2
    <3> QED BY <3>1, <3>2
  <2>4. panel' = Place(tipPoint, measured)'
    BY <2>1, <2>3 DEF Place, LeftOf, TopOf, Flip
  <2>5. months' = IF ~Ticking(labels)' THEN -1 ELSE MonthIndex(labels, tipPoint.row)'
    BY <2>1 DEF RenderPill, Ticking, MonthIndex
  <2>6. content' \in [w : Nat, h : Nat] /\ measured' \in [w : Nat, h : Nat]
    <3>1. content' \in [w : Nat, h : Nat]
      BY <2>1
    <3> QED BY <1>u, <2>2, <3>1
  <2>7. tipPoint'.row \in Nat \ {0} /\ tipPoint'.x \in 0..BoxWidth /\ tipPoint'.y \in Int
    BY <1>p, <2>1
  <2> HIDE DEF elsewhere
  <2> QED BY <1>u, <2>1, <2>4, <2>5, <2>6, <2>7 DEF PanelInv
<1>3. CASE ChangeLabels
  <2>1. /\ labels' \in {Append(labels, m) : m \in Months} \cup {SubSeq(labels, 2, Len(labels))}
        /\ Len(labels') \in 1..MaxLabels /\ UNCHANGED <<motion, sideways, tipPoint>>
    BY <1>3 DEF ChangeLabels
  <2>2. labels' \in Seq(Months)
    <3>1. ASSUME NEW m \in Months PROVE Append(labels, m) \in Seq(Months)
      BY <1>u, AppendProperties
    <3>2. SubSeq(labels, 2, Len(labels)) \in Seq(Months)
      <4>1. Len(labels) \in Nat /\ \A i \in 2..Len(labels) : labels[i] \in Months
        BY <1>u, LenProperties, ElementOfSeq
      <4> QED BY <1>u, <4>1, SubSeqProperties
    <3> QED BY <2>1, <3>1, <3>2
  <2>3. labels' # <<>>
    <3>1. Len(labels') # 0
      BY <2>1
    <3> QED BY <3>1, EmptySeq
  <2>4. CASE tipPoint = NoPoint
    <3>1. UNCHANGED <<content, measured>> /\ tipPoint' = NoPoint
      BY <1>3, <2>1, <2>4 DEF ChangeLabels
    <3>2. NoPoint' = NoPoint
      BY DEF NoPoint
    <3> QED BY <1>u, <2>1, <2>2, <2>3, <3>1, <3>2 DEF PanelInv
  <2>5. CASE tipPoint # NoPoint
    <3>1. /\ content' \in Contents /\ RenderPanel(tipPoint, content', measured, FALSE, FALSE)
          /\ RenderPill(labels', tipPoint.row)
      BY <1>3, <2>5 DEF ChangeLabels
    <3>2. measured' = measured /\ panel' = IF motion THEN Place(tipPoint, measured) ELSE panel
      BY <3>1 DEF RenderPanel
    <3>3. panel' = Place(tipPoint, measured)'
      BY <1>h, <2>1, <2>5, <3>2 DEF Place, LeftOf, TopOf, Flip
    <3>4. months' = IF ~Ticking(labels)' THEN -1 ELSE MonthIndex(labels, tipPoint.row)'
      BY <2>1, <3>1 DEF RenderPill, Ticking, MonthIndex
    <3>5. content' \in [w : Nat, h : Nat] /\ measured' \in [w : Nat, h : Nat]
      BY <1>u, <3>1, <3>2
    <3>6. tipPoint'.row \in Nat \ {0} /\ tipPoint'.x \in 0..BoxWidth /\ tipPoint'.y \in Int
      BY <1>h, <2>1, <2>5
    <3> QED BY <1>u, <2>1, <2>2, <2>3, <3>3, <3>4, <3>5, <3>6 DEF PanelInv
  <2> QED BY <2>4, <2>5
<1>4. CASE HidePoint
  <2>1. tipPoint' = NoPoint /\ content' = DefaultSize /\ measured' = DefaultSize /\ UNCHANGED <<motion, sideways, labels>>
    BY <1>4 DEF HidePoint
  <2>2. DefaultSize \in [w : Nat, h : Nat]
    OBVIOUS
  <2> QED BY <1>u, <2>1, <2>2 DEF PanelInv
<1>5. CASE UNCHANGED panelVars
  <2>1. UNCHANGED <<motion, sideways, labels, tipPoint, content, measured, panel, months>>
    BY <1>5 DEF panelVars
  <2>2. Place(tipPoint, measured)' = Place(tipPoint, measured)
    BY <2>1 DEF Place, LeftOf, TopOf, Flip
  <2>3. Ticking(labels)' = Ticking(labels) /\ MonthIndex(labels, tipPoint.row)' = MonthIndex(labels, tipPoint.row)
    BY <2>1 DEF Ticking, MonthIndex
  <2> QED BY <1>u, <1>h, <2>1, <2>2, <2>3 DEF PanelInv
<1> QED BY <1>1, <1>2, <1>3, <1>4, <1>5 DEF TooltipNext

-----------------------------------------------------------------------------
(* The types of the parts, where an invariant above does not imply them.       *)

\* The pages: what is selected, deleted or filtered by is among what the page lists.
ChoiceInv ==
    /\ filter \in Filters(page) /\ selected \in Ids \cup {NoId}
    /\ removed \subseteq Ids
    /\ removing.stage # "idle" => removing.id \in Ids

LEMMA ChoiceInitInv == PagesInit => ChoiceInv
<1> SUFFICES ASSUME PagesInit
             PROVE  ChoiceInv
  OBVIOUS
<1>1. filter \in Filters(page)
  BY DEF PagesInit, FirstFilter, Filters
<1>2. selected \in Ids \cup {NoId}
  BY DEF PagesInit
<1>3. removed \subseteq Ids /\ removing.stage = "idle"
  BY DEF PagesInit
<1> QED BY <1>1, <1>2, <1>3 DEF ChoiceInv

LEMMA ChoiceStep == RemovalInv /\ ChoiceInv /\ [PagesNext]_pagesVars => ChoiceInv'
<1> SUFFICES ASSUME RemovalInv, ChoiceInv, [PagesNext]_pagesVars
             PROVE  ChoiceInv'
  OBVIOUS
<1>1. ASSUME NEW f \in Filters(page), SetFilter(f) PROVE ChoiceInv'
  BY <1>1 DEF SetFilter, ChoiceInv, Filters
<1>2. ASSUME NEW k, Refetch(k) \/ AnswerQuery(k) PROVE ChoiceInv'
  BY <1>2 DEF Refetch, AnswerQuery, ChoiceInv, Filters
<1>3. ASSUME NEW k, SettleQuery(k) \/ QueryFails(k) PROVE ChoiceInv'
  <2>1. EndsDeletion(k) /\ UNCHANGED <<page, filter, selected, removed>>
    BY <1>3 DEF SettleQuery, QueryFails
  <2>2. removing' = removing \/ removing'.stage = "idle"
    BY <2>1 DEF EndsDeletion
  <2> QED BY <2>1, <2>2 DEF ChoiceInv, Filters
<1>4. ASSUME NEW id \in Ids \cup {NoId}, Select(id) PROVE ChoiceInv'
  BY <1>4 DEF Select, ChoiceInv, Filters
<1>5. ASSUME NEW id \in Ids, RemoveRow(id) PROVE ChoiceInv'
  <2>1. removing'.id = id /\ UNCHANGED <<page, filter, selected, removed>>
    BY <1>5 DEF RemoveRow
  <2> QED BY <2>1 DEF ChoiceInv, Filters
<1>6. CASE ServerRemoves \/ RemoveDone \/ RemoveFails
  <2>1. removing.stage # "idle" /\ removing.id \in Ids
    BY <1>6 DEF ServerRemoves, RemoveDone, RemoveFails, ChoiceInv
  <2>2. removing'.stage = "idle" \/ removing'.id = removing.id
    BY <1>6 DEF ServerRemoves, RemoveDone, RemoveFails, RemovalInv
  <2>3. removed' \subseteq removed \cup {removing.id} /\ UNCHANGED <<page, filter, selected>>
    BY <1>6 DEF ServerRemoves, RemoveDone, RemoveFails
  <2> QED BY <2>1, <2>2, <2>3 DEF ChoiceInv, Filters
<1>7. CASE ServerChanges \/ UNCHANGED pagesVars
  BY <1>7 DEF ServerChanges, pagesVars, ChoiceInv, Filters
<1> QED BY <1>1, <1>2, <1>3, <1>4, <1>5, <1>6, <1>7 DEF PagesNext

LEMMA PagesTyped == PagesInv /\ RemovalInv /\ ChoiceInv => PagesTypeOK
<1> SUFFICES ASSUME PagesInv, RemovalInv, ChoiceInv
             PROVE  PagesTypeOK
  OBVIOUS
<1>1. ASSUME NEW k \in DOMAIN cache
      PROVE  /\ cache[k].data \subseteq Ids /\ cache[k].fetch.got \subseteq Ids
             /\ cache[k].fetch.stage \in {"idle", "asked", "answered"}
             /\ cache[k].failed => cache[k].fetch = Idle \/ cache[k].has
             /\ ~cache[k].has => cache[k].data = {}
  <2>1. cache[k] \in Query /\ QueryTells(k, cache[k])
    BY DEF PagesInv, CacheTells
  <2>2. cache[k].data \subseteq Ids /\ cache[k].fetch \in Fetch
    BY <2>1 DEF Query
  <2>3. cache[k].fetch.got \subseteq Ids /\ cache[k].fetch.stage \in {"idle", "asked", "answered"}
    BY <2>2 DEF Fetch
  <2> QED BY <2>1, <2>2, <2>3 DEF QueryTells
<1> QED BY <1>1 DEF PagesTypeOK, PagesInv, RemovalInv, ChoiceInv

\* The session.
LEMMA SessionInitTyped == SessionInit => SessionTypeOK
<1> SUFFICES ASSUME SessionInit
             PROVE  SessionTypeOK
  OBVIOUS
<1>1. replacing \in {"nowhere", "login", "app"} /\ redirects \in Nat
  BY DEF SessionInit, Effect
<1>2. storedKey \in Keys \cup {Minted, NoKey} /\ logouts \in 0..MaxLogouts
  BY SessionAssumption DEF SessionInit
<1> QED BY <1>1, <1>2 DEF SessionInit, SessionTypeOK

\* Where a page leads to when it is mounted.
LEMMA ArriveTyped ==
  ASSUME SessionTypeOK, NEW p \in {"login", "app"}, Arrive(p)
  PROVE  /\ place' \in {"login", "minted", "away", "callback", "app"}
         /\ replacing' \in {"nowhere", "login", "app"}
         /\ mounted' \in Nat /\ field' \in Keys \cup {NoKey} /\ busy' \in BOOLEAN
<1>1. place' = p /\ replacing' = Effect(p)
  BY DEF Arrive
<1>2. Effect(p) \in {"nowhere", "login", "app"}
  BY DEF Effect
<1>3. \/ mounted' = mounted + 1 /\ field' = NoKey /\ busy' = FALSE
      \/ UNCHANGED <<mounted, field, busy>>
  BY DEF Arrive
<1>4. mounted' \in Nat
  BY <1>3 DEF SessionTypeOK
<1>5. field' \in Keys \cup {NoKey}
  BY <1>3 DEF SessionTypeOK
<1>6. busy' \in BOOLEAN
  BY <1>3 DEF SessionTypeOK
<1>7. place' \in {"login", "minted", "away", "callback", "app"}
  BY <1>1
<1> QED BY <1>1, <1>2, <1>4, <1>5, <1>6, <1>7

LEMMA SessionStepTyped == SessionTypeOK /\ [SessionNext]_sessionVars => SessionTypeOK'
<1> SUFFICES ASSUME SessionTypeOK, [SessionNext]_sessionVars
             PROVE  SessionTypeOK'
  OBVIOUS
<1> USE SessionAssumption DEF entries, signIn
<1>1. CASE Navigate
  <2>1. UNCHANGED <<verifying, minting, entries, logouts>>
    BY <1>1 DEF Navigate
  <2>2. CASE place = replacing
    BY <1>1, <2>1, <2>2 DEF Navigate, SessionTypeOK
  <2>3. CASE place # replacing
    <3>1. replacing \in {"login", "app"} /\ Arrive(replacing)
      BY <1>1, <2>3 DEF Navigate, SessionTypeOK
    <3>2. redirects' \in Nat
      BY <1>1, <2>3 DEF Navigate, SessionTypeOK
    <3> QED BY <2>1, <3>1, <3>2, ArriveTyped DEF SessionTypeOK
  <2> QED BY <2>2, <2>3
<1>2. ASSUME NEW p \in {"login", "app"}, Browse(p) PROVE SessionTypeOK'
  <2>1. UNCHANGED <<verifying, minting, entries, logouts>> /\ redirects' \in Nat /\ Arrive(p)
    BY <1>2 DEF Browse
  <2> QED BY <2>1, ArriveTyped DEF SessionTypeOK
<1>3. CASE LeaveForOAuth
  <2>1. /\ place' = "away" /\ replacing' = "nowhere" /\ redirects' = 0
        /\ field' = NoKey /\ busy' = FALSE /\ verifying' = {} /\ minting' = {} /\ logouts' = 0
        /\ UNCHANGED <<mounted, storedKey, token>>
    BY <1>3 DEF LeaveForOAuth
  <2>2. logouts' \in 0..MaxLogouts
    BY <2>1
  <2> QED BY <2>1, <2>2 DEF SessionTypeOK
<1>4. CASE Return
  <2>1. UNCHANGED <<verifying, minting, entries, logouts>>
    BY <1>4 DEF Return
  <2>2. CASE place' = "callback" /\ UNCHANGED <<replacing, redirects, mounted, field, busy>>
    BY <2>1, <2>2 DEF SessionTypeOK
  <2>3. CASE Arrive("login") /\ redirects' \in Nat
    BY <2>1, <2>3, ArriveTyped DEF SessionTypeOK
  <2> QED BY <1>4, <2>2, <2>3 DEF Return
<1>5. ASSUME NEW k \in Keys \cup {NoKey}, TypeKey(k) PROVE SessionTypeOK'
  BY <1>5 DEF TypeKey, SessionTypeOK
<1>6. CASE SubmitKey
  <2> DEFINE v == [key |-> field, mount |-> mounted]
  <2>1. v \in [key : Keys, mount : Nat]
    BY <1>6 DEF SubmitKey, SessionTypeOK
  <2>2. /\ busy' = TRUE /\ verifying' = verifying \cup {v}
        /\ UNCHANGED <<place, replacing, redirects, mounted, field, minting, entries, logouts>>
    BY <1>6 DEF SubmitKey
  <2> HIDE DEF v
  <2> QED BY <2>1, <2>2 DEF SessionTypeOK
<1>7. CASE SubmitBootstrap
  BY <1>7 DEF SubmitBootstrap, SessionTypeOK
<1>8. CASE ContinueToDashboard
  BY <1>8 DEF ContinueToDashboard, SessionTypeOK
<1>9. ASSUME NEW v \in verifying, Verified(v) \/ VerifyFails(v) PROVE SessionTypeOK'
  <2>1. v.key \in Keys
    BY DEF SessionTypeOK
  <2>2. busy' \in BOOLEAN
    BY <1>9 DEF Verified, VerifyFails, Settled
  <2>3. /\ verifying' \subseteq verifying /\ UNCHANGED <<place, mounted, field, minting, token, logouts>>
        /\ replacing' \in {replacing, "app"} /\ redirects' \in {redirects, 0} /\ storedKey' \in {storedKey, v.key}
    BY <1>9 DEF Verified, VerifyFails
  <2> QED BY <2>1, <2>2, <2>3 DEF SessionTypeOK
<1>10. ASSUME NEW m \in minting, Bootstrapped(m) \/ BootstrapFails(m) PROVE SessionTypeOK'
  <2>1. busy' \in BOOLEAN
    BY <1>10 DEF Bootstrapped, BootstrapFails, Settled
  <2>2. /\ minting' \subseteq minting /\ UNCHANGED <<replacing, mounted, field, verifying, token, logouts>>
        /\ place' \in {place, "minted"} /\ redirects' \in {redirects, 0} /\ storedKey' \in {storedKey, Minted}
    BY <1>10 DEF Bootstrapped, BootstrapFails
  <2> QED BY <2>1, <2>2 DEF SessionTypeOK
<1>11. CASE CallbackDone \/ CallbackFails
  <2>1. /\ UNCHANGED <<place, mounted, field, busy, verifying, minting, storedKey, logouts>>
        /\ replacing' \in {"app", "login"} /\ redirects' = 0
    BY <1>11 DEF CallbackDone, CallbackFails
  <2>2. token' \in BOOLEAN
    BY <1>11 DEF CallbackDone, CallbackFails, SessionTypeOK
  <2> QED BY <2>1, <2>2 DEF SessionTypeOK
<1>12. CASE HandleLogout \/ LoggedOut
  <2>1. logouts' \in 0..MaxLogouts
    BY <1>12 DEF HandleLogout, LoggedOut, SessionTypeOK
  <2>2. /\ UNCHANGED <<place, mounted, field, busy, verifying, minting>>
        /\ replacing' \in {replacing, "login"} /\ redirects' \in {redirects, 0} /\ storedKey' \in {storedKey, NoKey}
    BY <1>12 DEF HandleLogout, LoggedOut
  <2>3. token' \in BOOLEAN
    BY <1>12 DEF HandleLogout, LoggedOut, SessionTypeOK
  <2> QED BY <2>1, <2>2, <2>3 DEF SessionTypeOK
<1>13. CASE UNCHANGED sessionVars
  BY <1>13 DEF sessionVars, SessionTypeOK
<1> QED BY <1>1, <1>2, <1>3, <1>4, <1>5, <1>6, <1>7, <1>8, <1>9, <1>10, <1>11, <1>12, <1>13 DEF SessionNext

\* The map: the fleets are of the rows, the nodes of a fleet among those of all.
FleetInv ==
    /\ {fleet, rendered, drawn} \subseteq Fleets
    /\ IsFiniteSet(particles) /\ Cardinality(particles) <= MaxParticles
    /\ {selectedId, hoveredId} \subseteq AllIds \cup {NoNode}

LEMMA NodesOfFleet ==
  ASSUME NEW f \in Fleets
  PROVE  NodeIds(f) \subseteq AllIds
<1>1. f.providers \subseteq Providers /\ f.deployments \subseteq Deployments
  BY DEF Fleets
<1>2. ASSUME NEW m \in ModelNodes(f) PROVE m.id \in AllIds
  <2>1. CASE \E p \in f.providers : m = ProviderNode(p)
    <3>1. PICK p \in Providers : m = ProviderNode(p)
      BY <1>1, <2>1
    <3>2. m.id = <<"prov", p.id>>
      BY <3>1 DEF ProviderNode
    <3> QED BY <3>2 DEF AllIds
  <2>2. CASE \E d \in f.deployments : m = DeploymentNode(d)
    <3>1. PICK d \in Deployments : m = DeploymentNode(d)
      BY <1>1, <2>2
    <3>2. m.id = <<"dep", d.id>>
      BY <3>1 DEF DeploymentNode
    <3> QED BY <3>2 DEF AllIds
  <2> QED BY <2>1, <2>2 DEF ModelNodes
<1> QED BY <1>2 DEF NodeIds, ProviderNodeIds, AllIds

LEMMA FleetInitInv == MapInit => FleetInv
<1> SUFFICES ASSUME MapInit
             PROVE  FleetInv
  OBVIOUS
<1>1. IsFiniteSet({}) /\ Cardinality({}) = 0
  BY FS_EmptySet
<1> QED BY <1>1, MapAssumption DEF MapInit, FleetInv

LEMMA FleetStep == FleetInv /\ [MapNext]_mapVars => FleetInv'
<1> SUFFICES ASSUME FleetInv, [MapNext]_mapVars
             PROVE  FleetInv'
  OBVIOUS
<1> USE MapAssumption DEF picked
<1>0. /\ fleet \in Fleets /\ rendered \in Fleets /\ drawn \in Fleets
      /\ IsFiniteSet(particles) /\ Cardinality(particles) <= MaxParticles /\ Cardinality(particles) \in Nat
      /\ selectedId \in AllIds \cup {NoNode} /\ hoveredId \in AllIds \cup {NoNode}
  BY FS_CardinalityType DEF FleetInv
<1>e. IsFiniteSet({}) /\ Cardinality({}) = 0
  BY FS_EmptySet
<1>1. CASE FleetChanges
  <2>1. UNCHANGED <<rendered, drawn, particles, selectedId, hoveredId>>
    BY <1>1 DEF FleetChanges
  <2>2. fleet' \in Fleets
    <3>1. ASSUME NEW p \in Providers, fleet' = [fleet EXCEPT !.providers = (@ \ {p}) \cup ({p} \ @)]
          PROVE  fleet' \in Fleets
      BY <1>0, <3>1 DEF Fleets
    <3>2. ASSUME NEW d \in Deployments, fleet' = [fleet EXCEPT !.deployments = (@ \ {d}) \cup ({d} \ @)]
          PROVE  fleet' \in Fleets
      BY <1>0, <3>2 DEF Fleets
    <3> QED BY <1>1, <3>1, <3>2 DEF FleetChanges
  <2> QED BY <1>0, <2>1, <2>2 DEF FleetInv
<1>2. CASE RenderMap \/ RunDrawEffect
  <2>1. /\ fleet' = fleet /\ rendered' \in {fleet, rendered} /\ drawn' \in {drawn, rendered}
        /\ particles' = particles \/ particles' = {}
        /\ UNCHANGED <<selectedId, hoveredId>>
    BY <1>2 DEF RenderMap, RunDrawEffect
  <2> QED BY <1>0, <1>e, <2>1 DEF FleetInv
<1>3. ASSUME NEW via \in AllIds, SpawnParticle(via) PROVE FleetInv'
  <2>1. PICK p : particles' = particles \cup {p}
    BY <1>3 DEF SpawnParticle
  <2>2. Cardinality(particles) < MaxParticles /\ UNCHANGED <<fleet, rendered, drawn, selectedId, hoveredId>>
    BY <1>3 DEF SpawnParticle
  <2>3. IsFiniteSet(particles') /\ Cardinality(particles') <= Cardinality(particles) + 1
    BY <1>0, <2>1, FS_AddElement
  <2>4. Cardinality(particles') \in Nat
    BY <2>3, FS_CardinalityType
  <2>5. Cardinality(particles') <= MaxParticles
    BY <1>0, <2>2, <2>3, <2>4
  <2> QED BY <1>0, <2>2, <2>3, <2>5 DEF FleetInv
<1>4. ASSUME NEW p \in particles, AdvanceParticle(p) PROVE FleetInv'
  <2>1. UNCHANGED <<fleet, rendered, drawn, selectedId, hoveredId>>
    BY <1>4 DEF AdvanceParticle
  <2>2. \/ particles' = particles \ {p}
        \/ \E q : particles' = (particles \ {p}) \cup {q}
    <3>1. CASE p.seg = Segments
      BY <1>4, <3>1 DEF AdvanceParticle
    <3>2. CASE p.seg # Segments
      BY <1>4, <3>2 DEF AdvanceParticle
    <3> QED BY <3>1, <3>2
  <2>3. IsFiniteSet(particles \ {p}) /\ Cardinality(particles \ {p}) = Cardinality(particles) - 1
    BY <1>0, FS_RemoveElement
  <2>4. IsFiniteSet(particles') /\ Cardinality(particles') <= Cardinality(particles)
    <3>1. CASE particles' = particles \ {p}
      BY <1>0, <2>3, <3>1
    <3>2. ASSUME NEW q, particles' = (particles \ {p}) \cup {q}
          PROVE  IsFiniteSet(particles') /\ Cardinality(particles') <= Cardinality(particles)
      <4> DEFINE rest == particles \ {p}
      <4>1. IsFiniteSet(rest) /\ Cardinality(rest) = Cardinality(particles) - 1
        BY <2>3
      <4>2. particles' = rest \cup {q}
        BY <3>2
      <4> HIDE DEF rest
      <4>3. /\ IsFiniteSet(rest \cup {q})
            /\ Cardinality(rest \cup {q}) = IF q \in rest THEN Cardinality(rest) ELSE Cardinality(rest) + 1
        BY <4>1, FS_AddElement
      <4> QED BY <1>0, <4>1, <4>2, <4>3
    <3> QED BY <2>2, <3>1, <3>2
  <2>5. Cardinality(particles') \in Nat
    BY <2>4, FS_CardinalityType
  <2> QED BY <1>0, <2>1, <2>4, <2>5 DEF FleetInv
<1>5. ASSUME NEW n \in Pointable \cup {NoNode}, HoverNode(n) PROVE FleetInv'
  <2>1. n \in AllIds \cup {NoNode}
    BY <1>0, <1>5, NodesOfFleet DEF HoverNode
  <2> QED BY <1>0, <1>e, <1>5, <2>1 DEF HoverNode, Redraw, FleetInv
<1>6. CASE ClickNode \/ CloseInspector
  <2>1. selectedId' \in {hoveredId, NoNode} /\ hoveredId' = hoveredId /\ Redraw
    BY <1>6 DEF ClickNode, CloseInspector
  <2> QED BY <1>0, <1>e, <2>1 DEF Redraw, FleetInv
<1>7. CASE UNCHANGED mapVars
  BY <1>7 DEF mapVars, FleetInv
<1> QED BY <1>1, <1>2, <1>3, <1>4, <1>5, <1>6, <1>7 DEF MapNext

LEMMA MapTyped == MapInv /\ FleetInv => MapTypeOK
  BY DEF MapInv, FleetInv, MapTypeOK, Segments

\* The bars: a growing bar for each row, and a timer only while they are revealed.
GrowInv ==
    /\ barProps \in BarProps /\ barStatus \in {"loading", "ready"}
    /\ growth \in Seq(Int) /\ Len(growth) \in {0, Len(barRows)}
    /\ loaded => barStatus = "ready"
    /\ revealIn \in NoReveal..RevealTicks(2)
    /\ revealIn # NoReveal => barStatus = "ready" /\ ~loaded

LEMMA TicksOfReveal ==
  ASSUME NEW n \in Nat
  PROVE  RevealTicks(n) \in NoReveal..RevealTicks(2) /\ NoReveal \in NoReveal..RevealTicks(2)
         /\ RevealTicks(2) \in Nat /\ NoReveal = -1
  BY BarAssumption DEF RevealTicks, NoReveal

LEMMA GrowthIsSeq ==
  ASSUME NEW n \in Nat
  PROVE  GrowthFor(n) \in Seq(Int) /\ Len(GrowthFor(n)) = n
<1>1. \A i \in 1..n : GrowthFor(n)[i] \in Int
  BY GrowthInTime DEF GrowthFor
<1>2. GrowthFor(n) \in [1..n -> Int]
  BY <1>1 DEF GrowthFor
<1> QED BY <1>2, FcnSeq

LEMMA GrowInitInv == BarInit => GrowInv
<1> SUFFICES ASSUME BarInit
             PROVE  GrowInv
  OBVIOUS
<1>1. /\ barProps \in BarProps /\ barStatus \in {"loading", "ready"} /\ barRows = <<>>
      /\ loaded = FALSE /\ growth = <<>>
      /\ revealIn = IF barStatus = "loading" THEN NoReveal ELSE RevealTicks(0)
  BY DEF BarInit
<1>2. growth \in Seq(Int) /\ Len(growth) = 0
  BY <1>1, EmptySeq
<1>3. revealIn \in NoReveal..RevealTicks(2)
  BY <1>1, TicksOfReveal
<1> QED BY <1>1, <1>2, <1>3 DEF GrowInv

\* A reveal that begins anew: bars at the length of none, and a timer unless it loads.
LEMMA RevealTyped ==
  ASSUME NEW status \in {"loading", "ready"}, NEW given, Len(given) \in Nat, Reveal(status, given)
  PROVE  /\ loaded' = FALSE /\ growth' \in Seq(Int) /\ Len(growth') \in {0, Len(given)}
         /\ revealIn' \in NoReveal..RevealTicks(2) /\ (revealIn' # NoReveal => status = "ready")
<1>1. /\ loaded' = FALSE
      /\ revealIn' = IF status = "loading" THEN NoReveal ELSE RevealTicks(Len(given))
      /\ growth' = IF status = "loading" THEN <<>> ELSE GrowthFor(Len(given))
  BY DEF Reveal
<1>2. <<>> \in Seq(Int) /\ Len(<<>>) = 0
  BY EmptySeq
<1>3. GrowthFor(Len(given)) \in Seq(Int) /\ Len(GrowthFor(Len(given))) = Len(given)
  BY GrowthIsSeq
<1>4. RevealTicks(Len(given)) \in NoReveal..RevealTicks(2) /\ NoReveal \in NoReveal..RevealTicks(2)
  BY TicksOfReveal
<1> QED BY <1>1, <1>2, <1>3, <1>4

LEMMA GrowStep == BarInv /\ GrowInv /\ [BarNext]_barVars => GrowInv'
<1> SUFFICES ASSUME BarInv, GrowInv, [BarNext]_barVars
             PROVE  GrowInv'
  OBVIOUS
<1>u. /\ barProps \in BarProps /\ barStatus \in {"loading", "ready"}
      /\ growth \in Seq(Int) /\ Len(growth) \in {0, Len(barRows)}
      /\ loaded => barStatus = "ready"
      /\ revealIn \in NoReveal..RevealTicks(2)
      /\ revealIn # NoReveal => barStatus = "ready" /\ ~loaded
  BY DEF GrowInv
<1>h. Len(barRows') \in Nat
  <2>1. barRows' \in Seq([Series -> BarValues \cup {NoBar}])
    BY BarStep DEF BarInv
  <2> QED BY <2>1, LenProperties
<1>1. CASE ChangeBarStatus
  <2>1. barStatus' \in {"loading", "ready"} /\ Reveal(barStatus', barRows') /\ barProps' = barProps
    BY <1>1 DEF ChangeBarStatus
  <2>2. /\ loaded' = FALSE /\ growth' \in Seq(Int) /\ Len(growth') \in {0, Len(barRows')}
        /\ revealIn' \in NoReveal..RevealTicks(2) /\ (revealIn' # NoReveal => barStatus' = "ready")
    BY <1>h, <2>1, RevealTyped
  <2> QED BY <1>u, <2>1, <2>2 DEF GrowInv
<1>2. CASE Replay
  <2>1. barStatus' = "ready" /\ Reveal(barStatus', barRows') /\ barProps' = barProps
    BY <1>2 DEF Replay
  <2>2. /\ loaded' = FALSE /\ growth' \in Seq(Int) /\ Len(growth') \in {0, Len(barRows')}
        /\ revealIn' \in NoReveal..RevealTicks(2)
    BY <1>h, <2>1, RevealTyped
  <2> QED BY <1>u, <2>1, <2>2 DEF GrowInv
<1>3. CASE ChangeRows
  <2>1. /\ growth' = IF loaded /\ barProps.squares = "none" THEN <<>> ELSE GrowthFor(Len(barRows'))
        /\ UNCHANGED <<barProps, barStatus, loaded, revealIn>>
    BY <1>3 DEF ChangeRows
  <2>2. <<>> \in Seq(Int) /\ Len(<<>>) = 0
    BY EmptySeq
  <2>3. GrowthFor(Len(barRows')) \in Seq(Int) /\ Len(GrowthFor(Len(barRows'))) = Len(barRows')
    BY <1>h, GrowthIsSeq
  <2>4. growth' \in Seq(Int) /\ Len(growth') \in {0, Len(barRows')}
    BY <2>1, <2>2, <2>3
  <2> QED BY <1>u, <2>1, <2>4 DEF GrowInv
<1>4. CASE BarTick
  <2>1. /\ growth' = [i \in DOMAIN growth |-> Max({Grown, growth[i] - 1})]
        /\ revealIn' = (IF revealIn = NoReveal THEN NoReveal ELSE revealIn - 1)
        /\ (revealIn # NoReveal => revealIn > 0)
        /\ UNCHANGED <<barProps, barRows, barStatus, loaded>>
    BY <1>4 DEF BarTick, NoReveal
  <2>2. Len(growth) \in Nat /\ DOMAIN growth = 1..Len(growth)
    BY <1>u, LenProperties
  <2>3. growth' \in [1..Len(growth) -> Int]
    <3>1. DOMAIN growth' = 1..Len(growth) /\ growth' = [i \in DOMAIN growth' |-> growth'[i]]
      BY <2>1, <2>2
    <3>2. \A i \in DOMAIN growth' : growth'[i] \in Int
      BY BarStep DEF BarInv
    <3> QED BY <3>1, <3>2
  <2>4. growth' \in Seq(Int) /\ Len(growth') = Len(growth)
    BY <2>2, <2>3, FcnSeq
  <2>5. revealIn' \in NoReveal..RevealTicks(2)
    <3>1. RevealTicks(2) \in Nat /\ NoReveal = -1
      BY TicksOfReveal
    <3> QED BY <1>u, <2>1, <3>1
  <2> QED BY <1>u, <2>1, <2>4, <2>5 DEF GrowInv
<1>5. CASE RevealDone
  <2>1. /\ revealIn = 0 /\ revealIn' = NoReveal /\ loaded' = TRUE
        /\ UNCHANGED <<barProps, barRows, barStatus, growth>>
    BY <1>5 DEF RevealDone
  <2>2. RevealTicks(2) \in Nat /\ NoReveal = -1 /\ NoReveal \in NoReveal..RevealTicks(2)
    BY TicksOfReveal
  <2> QED BY <1>u, <2>1, <2>2 DEF GrowInv
<1>6. CASE BarMouseMove \/ BarTipFrame \/ BarMouseLeave
  <2>1. UNCHANGED <<barProps, barRows, barStatus, loaded, revealIn, growth>>
    BY <1>6 DEF BarMouseMove, BarTipFrame, BarMouseLeave
  <2> QED BY <2>1 DEF GrowInv
<1>7. CASE UNCHANGED barVars
  BY <1>7 DEF barVars, GrowInv
<1> QED BY <1>1, <1>2, <1>3, <1>4, <1>5, <1>6, <1>7 DEF BarNext

LEMMA BarTyped == BarInv /\ GrowInv => BarTypeOK
<1> SUFFICES ASSUME BarInv, GrowInv
             PROVE  BarTypeOK
  OBVIOUS
<1> DEFINE R == [Series -> BarValues \cup {NoBar}]
<1>1. barRows \in Seq(R) /\ Len(barRows) <= MaxBars
  BY DEF BarInv
<1> HIDE DEF R
<1>2. Len(barRows) \in Nat /\ barRows \in [1..Len(barRows) -> R]
  BY <1>1, LenProperties
<1>3. Len(barRows) \in 0..MaxBars
  BY <1>1, <1>2, BarAssumption
<1>4. barRows \in BarRows
  BY <1>2, <1>3 DEF BarRows, R
<1> QED BY <1>4 DEF GrowInv, BarTypeOK

\* The logs: what was read is the beginning of the body, and the buffer its end.
LEMMA EndIsSuffix ==
  ASSUME NEW S, NEW s \in Seq(S), NEW t \in Seq(S), NEW e \in Nat, Len(t) = Len(s) - e,
         \A i \in 1..Len(t) : t[i] = s[e + i]
  PROVE  IsSuffix(t, s)
<1>1. Len(s) \in Nat /\ Len(t) \in Nat /\ Len(t) <= Len(s)
  BY LenProperties
<1> DEFINE n == Len(s)  m == Len(t)
<1>2. \A i \in 1..n : s[i] \in S
  BY ElementOfSeq
<1>3. \A i \in 1..m : t[i] \in S
  BY ElementOfSeq
<1>4. n \in Nat /\ m \in Nat /\ m = n - e /\ \A i \in 1..m : t[i] = s[e + i]
  BY <1>1
<1>5. Reverse(s) = [i \in 1..n |-> s[(n - i) + 1]] /\ Reverse(t) = [i \in 1..m |-> t[(m - i) + 1]]
  BY DEF Reverse
<1> HIDE DEF n, m
<1>6. Reverse(s) \in [1..n -> S]
  BY <1>2, <1>4, <1>5
<1>7. Reverse(t) \in [1..m -> S]
  BY <1>3, <1>4, <1>5
<1> DEFINE u == Reverse(s)  v == Reverse(t)
<1>8. u \in Seq(S) /\ Len(u) = n /\ v \in Seq(S) /\ Len(v) = m
  BY <1>4, <1>6, <1>7, FcnSeq
<1>9. \A i \in 1..m : v[i] = u[i]
  <2> SUFFICES ASSUME NEW i \in 1..m
               PROVE  v[i] = u[i]
    OBVIOUS
  <2>1. i \in 1..n /\ (m - i) + 1 \in 1..m /\ e + ((m - i) + 1) = (n - i) + 1
    BY <1>4
  <2>2. t[(m - i) + 1] = s[(n - i) + 1]
    BY <1>4, <2>1
  <2> QED BY <1>5, <2>1, <2>2
<1> HIDE DEF u, v
<1>10. SubSeq(v, 1, m) = v
  BY <1>4, <1>8, SubSeqFull
<1>11. SubSeq(u, 1, m) \in Seq(S) /\ Len(SubSeq(u, 1, m)) = m /\ \A i \in 1..m : SubSeq(u, 1, m)[i] = u[i]
  BY <1>1, <1>4, <1>8, SubSeqProperties
<1>12. SubSeq(u, 1, m) = v
  BY <1>8, <1>9, <1>11, SameSeq
<1> QED BY <1>1, <1>8, <1>10, <1>12 DEF IsSuffix, IsPrefix, u, v, n, m

LEMMA LogTyped == LogInv => LogTypeOK
<1> SUFFICES ASSUME LogInv
             PROVE  LogTypeOK
  OBVIOUS
<1>1. /\ received = SubSeq(Body, 1, Len(received)) /\ Len(received) \in 0..Len(Body)
      /\ buffer = SubSeq(Body, EndOfFrame(WholeFrames(Len(received))) + 1, Len(received))
      /\ cleared \in 0..Complete
  BY DEF LogInv, ReadInv
<1>2. Len(Body) \in Nat /\ Body \in Seq(Int)
  BY BodyTokens, LenProperties
<1> DEFINE r == Len(received)  e == EndOfFrame(WholeFrames(r))
<1>3. r \in Nat /\ r <= Len(Body)
  BY <1>1, <1>2
<1>4. e \in Nat /\ e <= r
  BY <1>3, FrameBefore
<1>5. received = SubSeq(Body, 0 + 1, r) /\ buffer = SubSeq(Body, e + 1, r) /\ Len(received) = r
  BY <1>1
<1>6. cleared \in 0..MaxFrames
  <2>1. LinesOf(WholeFrames(r)) \in 0..MaxFrames /\ MaxFrames \in Nat
    BY <1>3, MoreFrames, LogAssumption
  <2>2. Complete = LinesOf(WholeFrames(r))
    <3> HIDE DEF r
    <3>1. r < 3 => WholeFrames(r) = 0
      BY <1>3 DEF WholeFrames
    <3>2. ~(r < 3) => WholeFrames(r) = (r - 3) \div 4 + 1 /\ (r - 3) \div 4 \in Nat
      BY <1>3 DEF WholeFrames
    <3>3. Complete = IF r < 3 THEN 0 ELSE (r - 3) \div 4
      BY DEF Complete, r
    <3> QED BY <3>1, <3>2, <3>3 DEF LinesOf
  <2> QED BY <1>1, <2>1, <2>2
<1> HIDE DEF r, e
<1>7. received \in Seq(Int) /\ \A i \in 1..r : received[i] = Body[i]
  <2> DEFINE z == 0
  <2>1. z \in Nat /\ z <= r /\ received = SubSeq(Body, z + 1, r)
    BY <1>3, <1>5
  <2>2. \A i \in 1..r : i \in 1..(r - z) /\ z + i = i
    BY <1>3
  <2> HIDE DEF z
  <2>3. /\ SubSeq(Body, z + 1, r) \in Seq(Int)
        /\ \A i \in 1..(r - z) : SubSeq(Body, z + 1, r)[i] = Body[z + i]
    BY <1>3, <2>1, PartOfBody
  <2> QED BY <2>1, <2>2, <2>3
<1>8. buffer \in Seq(Int) /\ Len(buffer) = r - e /\ \A i \in 1..(r - e) : buffer[i] = Body[e + i]
  BY <1>3, <1>4, <1>5, PartOfBody
<1>9. IsPrefix(received, Body)
  <2>1. SubSeq(received, 1, Len(received)) = received
    BY <1>7, SubSeqFull
  <2>2. SubSeq(Body, 1, Len(received)) = received
    BY <1>1
  <2> QED BY <1>3, <1>5, <2>1, <2>2 DEF IsPrefix
<1>10. IsSuffix(buffer, received)
  <2>1. \A i \in 1..Len(buffer) : buffer[i] = received[e + i]
    <3>1. \A i \in 1..(r - e) : e + i \in 1..r
      BY <1>3, <1>4
    <3> QED BY <1>7, <1>8, <3>1
  <2> QED BY <1>4, <1>5, <1>7, <1>8, <2>1, EndIsSuffix
<1>11. aborted \in 0..MaxStreams
  BY LogAssumption DEF LogInv, BadgeInv
<1> QED BY <1>6, <1>9, <1>10, <1>11 DEF LogInv, ReadInv, BadgeInv, ViewInv, LogTypeOK

-----------------------------------------------------------------------------
(* Bars, squares and the dots on them.                                         *)

\* The domain of a scale holds its values, and not twenty times as much.
LEMMA TopOfDecade ==
  ASSUME NEW m \in Nat \ {0}, \E q \in Decades : OfDecade(m, q)
  PROVE  NiceTop(m) \in Nat /\ 1 <= NiceTop(m) /\ NiceTop(m) <= 220 * m
<1> DEFINE d == 11 * m
           p == CHOOSE q \in Decades : OfDecade(m, q)
           c == IF d * d >= 50 * p * p THEN 10
                ELSE IF d * d >= 10 * p * p THEN 5
                ELSE IF d * d >= 2 * p * p THEN 2 ELSE 1
           s == p * c
           r == (10 * d + s - 1) \div s
<1>1. d \in Nat /\ 1 <= d /\ 20 * d = 220 * m
  OBVIOUS
<1>2. p \in Decades /\ OfDecade(m, p)
  OBVIOUS
<1>3. p \in Nat \ {0} /\ p <= d
  <2>1. \A q \in Decades : q \in Nat \ {0}
    BY DEF Decades
  <2>2. p <= d
    BY <1>2 DEF OfDecade
  <2> QED BY <1>2, <2>1, <2>2
<1> HIDE DEF d
<1>4. c \in {1, 2, 5, 10}
  OBVIOUS
<1>5. NiceTop(m) = r * s
  BY DEF NiceTop, d
<1> HIDE DEF p, c
<1>6. s \in Nat \ {0} /\ s <= 10 * d
  BY <1>1, <1>3, <1>4
<1> HIDE DEF s
<1>7. 10 * d + s - 1 \in Int
  BY <1>1, <1>6
<1>8. r \in Int /\ s * r <= 10 * d + s - 1 /\ 10 * d + s - 1 < s * r + s
  BY <1>6, <1>7, Quotient
<1> HIDE DEF r
<1> DEFINE x == s * r
<1>9. x \in Int /\ NiceTop(m) = x /\ x <= 10 * d + s - 1 /\ 10 * d + s - 1 < x + s
  BY <1>5, <1>6, <1>8
<1> HIDE DEF x
<1> QED BY <1>1, <1>6, <1>9

\* What does not leave a rest is divided by itself.
LEMMA WholePart ==
  ASSUME NEW a \in Int, NEW b \in Int, NEW t \in Nat \ {0}, b % t = 0
  PROVE  (a + b) \div t = (a \div t) + (b \div t)
<1> DEFINE p == a \div t  q == b \div t
<1>1. p \in Int /\ t * p <= a /\ a < t * p + t
  BY Quotient
<1>2. q \in Int /\ b = t * q
  OBVIOUS
<1> HIDE DEF p, q
<1> DEFINE x == t * p  y == t * q
<1>3. x \in Int /\ y \in Int /\ t * (p + q) = x + y
  BY <1>1, <1>2
<1>4. x <= a /\ a < x + t /\ b = y
  BY <1>1, <1>2
<1> HIDE DEF x, y
<1>5. t * (p + q) <= a + b /\ a + b < t * (p + q) + t
  BY <1>3, <1>4
<1>6. a + b \in Int /\ p + q \in Int
  BY <1>1, <1>2
<1>7. (a + b) \div t = p + q
  BY <1>5, <1>6, QuotientIs
<1> QED BY <1>7 DEF p, q

\* Unless bars are stacked lengthwise, the scale is that of the largest value there is.
LEMMA TopOfBars ==
  ASSUME BarInv, ~(barProps.horizontal /\ barProps.stacked)
  PROVE  \E m \in BarValues \cup {0} :
            /\ m \in Nat /\ ValueTop = NiceTop(OrHundred(m))
            /\ \A i \in DOMAIN barRows, s \in Series :
                  BarNumber(barRows[i][s]) \in BarValues \cup {0} /\ BarNumber(barRows[i][s]) <= m
<1> DEFINE R == [Series -> BarValues \cup {NoBar}]
           S == {0} \cup {BarNumber(barRows[i][s]) : i \in DOMAIN barRows, s \in Series}
<1>1. ASSUME NEW i \in DOMAIN barRows, NEW s \in Series
      PROVE  BarNumber(barRows[i][s]) \in BarValues \cup {0}
  <2>1. barRows \in Seq(R)
    BY DEF BarInv
  <2> HIDE DEF R
  <2>2. barRows[i] \in R
    BY <2>1, LenProperties, ElementOfSeq
  <2>3. barRows[i][s] \in BarValues \cup {NoBar}
    BY <2>2 DEF R
  <2> QED BY <2>3 DEF BarNumber
<1>2. S \subseteq BarValues \cup {0}
  BY <1>1
<1>4. 0 \in S
  OBVIOUS
<1>5. MaxSingle = Max(S)
  BY DEF MaxSingle
<1>6. \A i \in DOMAIN barRows, s \in Series : BarNumber(barRows[i][s]) \in S
  OBVIOUS
<1> HIDE DEF S
<1>3. S \subseteq Int /\ \A y \in S : y <= PlotSize
  <2>1. \A y \in S : y = 0 \/ y \in BarValues
    BY <1>2
  <2>2. PlotSize \in Nat /\ \A y \in BarValues : y \in Int /\ y <= PlotSize
    BY BarAssumption
  <2> QED BY <2>1, <2>2
<1>7. PICK m \in S : \A y \in S : y <= m
  <2>1. S # {} /\ PlotSize \in Int
    BY <1>4, BarAssumption
  <2> QED BY <1>3, <2>1, GreatestIn
<1>8. MaxSingle = m
  <2>1. m \in S /\ S \subseteq Int /\ \A y \in S : y <= m
    BY <1>3, <1>7
  <2>2. Max(S) = m
    BY <2>1, MaxIs
  <2> QED BY <1>5, <2>2
<1>9. m \in Nat /\ m \in BarValues \cup {0}
  BY <1>2, <1>3, <1>4, <1>7
<1>10. ValueTop = NiceTop(OrHundred(m))
  BY <1>8 DEF ValueTop
<1> QED BY <1>1, <1>6, <1>7, <1>9, <1>10

\* How long bars are: nothing for nothing, something for more, and twice for both of two.
LEMMA LengthOfBar ==
  ASSUME BarInv, ~(barProps.horizontal /\ barProps.stacked)
  PROVE  /\ \A v \in Int : Along(v) \in Int /\ (v <= 0 => Along(v) <= 0)
         /\ Along(0) = 0
         /\ \A i \in DOMAIN barRows, s \in Series :
              /\ BarNumber(barRows[i][s]) \in Int
              /\ BarNumber(barRows[i][s]) > 0 => Along(BarNumber(barRows[i][s])) > 0
              /\ \A w \in Int : Along(w + BarNumber(barRows[i][s])) = Along(w) + Along(BarNumber(barRows[i][s]))
<1>p. PlotSize \in Nat \ {0}
  BY BarAssumption
<1>b. \A v \in BarValues \cup {0} : v \in Int
  <2>1. BarValues \subseteq Int
    BY BarAssumption
  <2> QED BY <2>1
<1>1. PICK m \in BarValues \cup {0} :
            /\ m \in Nat /\ ValueTop = NiceTop(OrHundred(m))
            /\ \A i \in DOMAIN barRows, s \in Series :
                  BarNumber(barRows[i][s]) \in BarValues \cup {0} /\ BarNumber(barRows[i][s]) <= m
  BY TopOfBars
<1> DEFINE t == ValueTop  e == 100 * PlotSize
<1>2. t \in Nat \ {0} /\ (m > 0 => t <= 220 * m)
  <2> DEFINE h == OrHundred(m)
  <2>1. h = IF m = 0 THEN 100 ELSE m
    BY DEF OrHundred
  <2>2. m \in Nat /\ t = NiceTop(h)
    BY <1>1
  <2> HIDE DEF h, t
  <2>3. h \in Nat \ {0} /\ (m > 0 => h = m)
    BY <2>1, <2>2
  <2>4. \E q \in Decades : OfDecade(h, q)
    <3>1. CASE m = 0
      <4>1. 1000 \in Decades /\ h = 100
        BY <2>1, <3>1 DEF Decades
      <4>2. OfDecade(100, 1000)
        BY DEF OfDecade
      <4> QED BY <4>1, <4>2
    <3>2. CASE m # 0
      <4>1. m \in BarValues /\ m > 0 /\ h = m
        BY <1>1, <2>1, <2>2, <3>2
      <4> QED BY <4>1, BarAssumption
    <3> QED BY <3>1, <3>2
  <2>5. NiceTop(h) \in Nat /\ 1 <= NiceTop(h) /\ NiceTop(h) <= 220 * h
    BY <2>3, <2>4, TopOfDecade
  <2> QED BY <2>2, <2>3, <2>5
<1>3. e \in Nat \ {0}
  BY <1>p
<1>4. \A v \in Int : Along(v) = (v * e) \div t /\ v * e \in Int
  <2>1. \A v \in Int : v * 100 * PlotSize = v * e
    BY <1>p
  <2> QED BY <2>1, <1>3 DEF Along
<1>5. (m > 0 => 220 * m <= e)
  <2>1. m > 0 => 3 * m <= PlotSize
    BY <1>1, BarAssumption
  <2> QED BY <1>1, <1>p, <2>1
<1>6. \A v \in BarValues \cup {0} : (v * e) % t = 0
  <2>1. \A v \in BarValues : (v * 100 * PlotSize) % t = 0
    BY <1>1, LengthAssumption
  <2>2. \A v \in BarValues : v * 100 * PlotSize = v * e
    BY <1>p, BarAssumption
  <2>3. 0 * e = 0 /\ 0 % t = 0
    BY <1>2, <1>3
  <2> QED BY <2>1, <2>2, <2>3
<1> HIDE DEF t, e
<1>7. ASSUME NEW v \in Int PROVE Along(v) \in Int /\ (v <= 0 => Along(v) <= 0)
  <2> DEFINE a == v * e  q == a \div t
  <2>1. a \in Int /\ Along(v) = q
    BY <1>4
  <2>2. v <= 0 => a <= 0
    <3>1. v <= 0 => v * e <= 0 * e
      BY <1>3, ProductsInOrder
    <3> QED BY <1>3, <3>1
  <2> HIDE DEF a
  <2>3. q \in Int /\ t * q <= a
    BY <1>2, <2>1, Quotient
  <2> HIDE DEF q
  <2>4. CASE v <= 0 /\ q >= 1
    <3>1. t * 1 <= t * q
      BY <1>2, <2>3, <2>4, ProductsInOrder
    <3> DEFINE z == t * q
    <3>2. z \in Int /\ t <= z /\ z <= a
      BY <1>2, <2>3, <3>1
    <3> HIDE DEF z
    <3> QED BY <1>2, <2>1, <2>2, <2>4, <3>2
  <2> QED BY <2>1, <2>3, <2>4
<1>8. Along(0) = 0
  <2>1. 0 * e = 0 /\ 0 \div t = 0
    BY <1>2, <1>3
  <2> QED BY <1>4, <2>1
<1>9. ASSUME NEW v \in BarValues \cup {0}, v <= m, v > 0
      PROVE  Along(v) > 0
  <2> DEFINE a == v * e  q == a \div t
  <2>v. v \in Int /\ 1 <= v /\ m > 0
    BY <1>1, <1>9
  <2>1. 1 * e <= v * e
    BY <1>3, <2>v, ProductsInOrder
  <2>2. a \in Int /\ e <= a /\ Along(v) = q
    BY <1>3, <1>4, <2>1, <2>v
  <2>3. t <= e
    BY <1>1, <1>2, <1>3, <1>5, <2>v
  <2> HIDE DEF a
  <2>4. q \in Int /\ a < t * q + t
    BY <1>2, <2>2, Quotient
  <2> HIDE DEF q
  <2>5. CASE q <= 0
    <3>1. t * q <= t * 0
      BY <1>2, <2>4, <2>5, ProductsInOrder
    <3> DEFINE z == t * q
    <3>2. z \in Int /\ z <= 0 /\ a < z + t
      BY <1>2, <2>4, <3>1
    <3> HIDE DEF z
    <3> QED BY <1>2, <1>3, <2>2, <2>3, <3>2
  <2> QED BY <2>2, <2>4, <2>5
<1>10. ASSUME NEW v \in BarValues \cup {0}, NEW w \in Int
       PROVE  Along(w + v) = Along(w) + Along(v)
  <2> DEFINE a == v * e  b == w * e
  <2>v. v \in Int
    BY <1>b
  <2>1. a \in Int /\ b \in Int /\ a % t = 0 /\ (w + v) * e = b + a
    BY <1>3, <1>4, <1>6, <2>v
  <2>2. Along(v) = a \div t /\ Along(w) = b \div t /\ Along(w + v) = (b + a) \div t
    BY <1>4, <2>1, <2>v
  <2> HIDE DEF a, b
  <2>3. (b + a) \div t = (b \div t) + (a \div t)
    <3>1. b \in Int /\ a \in Int /\ t \in Nat \ {0} /\ a % t = 0
      BY <1>2, <2>1
    <3> QED BY <3>1, WholePart
  <2> QED BY <2>2, <2>3
<1>11. ASSUME NEW i \in DOMAIN barRows, NEW s \in Series
       PROVE  /\ BarNumber(barRows[i][s]) \in Int
              /\ BarNumber(barRows[i][s]) > 0 => Along(BarNumber(barRows[i][s])) > 0
              /\ \A w \in Int : Along(w + BarNumber(barRows[i][s])) = Along(w) + Along(BarNumber(barRows[i][s]))
  <2> DEFINE v == BarNumber(barRows[i][s])
  <2>1. v \in BarValues \cup {0} /\ v <= m
    BY <1>1
  <2> HIDE DEF v
  <2>2. v \in Int /\ (v > 0 => Along(v) > 0) /\ \A w \in Int : Along(w + v) = Along(w) + Along(v)
    BY <1>9, <1>10, <1>b, <2>1
  <2> QED BY <2>2 DEF v
<1> QED BY <1>7, <1>8, <1>11

\* The squares of a column: the highest ends it, unless a single one is fitted into it.
LEMMA ColumnOfSquares ==
  ASSUME SeriesWidth \in Int, NEW length \in Int, NEW fit
  PROVE  /\ SquareColumn(length, fit).count \in Nat /\ SquareColumn(length, fit).parts \in Nat \ {0}
         /\ SquareColumn(length, fit).height \in Int
         /\ SquareColumn(length, fit).count = 0 <=> length <= 0 \/ SeriesWidth <= 0
         /\ \A q \in 1..(SquareColumn(length, fit).count - 1) :
              SquareColumn(length, fit).tops[q] - SquareColumn(length, fit).tops[q + 1]
                >= SquareColumn(length, fit).parts * SeriesWidth
         /\ SquareColumn(length, fit).count > 0 /\ (fit => SquareColumn(length, fit).count > 1) =>
              SquareColumn(length, fit).tops[SquareColumn(length, fit).count] = 0
<1>p. Pixel \in Nat
  BY BarAssumption
<1> DEFINE size == SeriesWidth  gap == 3 * Pixel
           count == SquareCount(length, size, gap, fit)
           height == IF fit THEN length ELSE count * size + (count - 1) * gap
           parts == IF fit /\ count > 1 THEN count - 1 ELSE 1
           extra == IF fit THEN Max({0, length - count * size}) ELSE gap
           stride == parts * size + extra
           tops == [q \in 1..count |-> parts * (height - size) - (q - 1) * stride]
           column == SquareColumn(length, fit)
<1>1. CASE length <= 0 \/ size <= 0
  <2>1. column = [count |-> 0, height |-> 0, parts |-> 1, tops |-> <<>>]
    BY <1>1 DEF SquareColumn
  <2>2. column.count = 0 /\ column.height = 0 /\ column.parts = 1
    BY <2>1
  <2> HIDE DEF column
  <2>3. \A q \in 1..(column.count - 1) : FALSE
    BY <2>2
  <2> QED BY <1>1, <2>2, <2>3 DEF column
<1>2. CASE ~(length <= 0 \/ size <= 0)
  <2>1. column = [count |-> count, height |-> height, parts |-> parts, tops |-> tops]
    BY <1>2 DEF SquareColumn
  <2>2. column.count = count /\ column.height = height /\ column.parts = parts /\ column.tops = tops
    BY <2>1
  <2>3. size \in Nat \ {0} /\ gap \in Nat /\ length \in Nat \ {0}
    BY <1>2, <1>p
  <2>4. count \in Nat \ {0} /\ (fit /\ count > 1 => count = (length + gap) \div (size + gap))
    <3> DEFINE x == IF fit THEN (length + gap) \div (size + gap) ELSE (2 * length + size + gap) \div (2 * (size + gap))
    <3>1. count = Max({1, x})
      BY DEF SquareCount
    <3>2. x \in Int
      BY <2>3
    <3> HIDE DEF x, count
    <3>3. count = IF 1 < x THEN x ELSE 1
      BY <3>1, <3>2, MaxOfTwo
    <3> QED BY <3>2, <3>3 DEF x
  <2> HIDE DEF column, count
  <2>5. extra \in Nat /\ (fit /\ count > 1 => extra = length - count * size)
    <3> DEFINE y == length - count * size
    <3>1. y \in Int
      BY <2>3, <2>4
    <3>2. Max({0, y}) = IF 0 < y THEN y ELSE 0
      BY <3>1, MaxOfTwo
    <3>3. fit /\ count > 1 => y >= 0
      <4> SUFFICES ASSUME fit, count > 1
                   PROVE  y >= 0
        OBVIOUS
      <4> DEFINE a == length + gap  b == size + gap
      <4>1. a \in Int /\ b \in Nat \ {0} /\ count = a \div b
        BY <2>3, <2>4
      <4> HIDE DEF a, b
      <4>2. b * count <= a
        BY <4>1, Quotient
      <4> DEFINE s == count * size  g == count * gap
      <4>3. s \in Int /\ g \in Int /\ b * count = s + g
        BY <2>3, <2>4 DEF b
      <4>4. 1 * gap <= count * gap
        BY <2>3, <2>4, ProductsInOrder
      <4>5. gap <= g /\ s + g <= length + gap
        BY <2>3, <4>2, <4>3, <4>4 DEF a
      <4>6. y = length - s
        OBVIOUS
      <4> HIDE DEF s, g, y
      <4> QED BY <2>3, <4>3, <4>5, <4>6
    <3> HIDE DEF y
    <3>4. extra = IF fit THEN Max({0, y}) ELSE gap
      BY DEF y
    <3>5. extra \in Nat /\ (fit /\ count > 1 => extra = y)
      BY <2>3, <3>1, <3>2, <3>3, <3>4
    <3> QED BY <3>5 DEF y
  <2>6. parts \in Nat \ {0}
    BY <2>4
  <2>7. height \in Int
    BY <2>3, <2>4
  <2> HIDE DEF gap, extra, height, parts
  <2>8. stride \in Int /\ stride >= parts * size
    BY <2>3, <2>5, <2>6
  <2> HIDE DEF stride
  <2>9. \A q \in 1..count : tops[q] = parts * (height - size) - (q - 1) * stride
    OBVIOUS
  <2> HIDE DEF tops
  <2>10. ASSUME NEW q \in 1..(count - 1)
         PROVE  tops[q] - tops[q + 1] >= parts * size
    <3>1. q \in 1..count /\ q + 1 \in 1..count /\ q \in Int /\ (q + 1) - 1 = q
      BY <2>4
    <3>2. tops[q] = parts * (height - size) - (q - 1) * stride /\ tops[q + 1] = parts * (height - size) - q * stride
      BY <2>9, <3>1
    <3>3. q * stride = (q - 1) * stride + stride /\ parts * (height - size) \in Int /\ (q - 1) * stride \in Int
      BY <2>3, <2>6, <2>7, <2>8, <3>1
    <3> DEFINE x == (q - 1) * stride  y == parts * (height - size)  z == q * stride  w == parts * size
    <3>4. x \in Int /\ y \in Int /\ z = x + stride /\ w \in Int /\ stride >= w /\ tops[q] = y - x /\ tops[q + 1] = y - z
      BY <2>3, <2>6, <2>8, <3>2, <3>3
    <3> HIDE DEF x, y, z, w
    <3>5. tops[q] - tops[q + 1] >= w
      BY <2>8, <3>4
    <3> QED BY <3>5 DEF w
  <2>11. (fit => count > 1) => tops[count] = 0
    <3> SUFFICES ASSUME fit => count > 1
                 PROVE  tops[count] = 0
      OBVIOUS
    <3>1. tops[count] = parts * (height - size) - (count - 1) * stride
      BY <2>4, <2>9
    <3> DEFINE s == count * size  g == (count - 1) * gap
    <3>2. s \in Int /\ (count - 1) * size = s - size
      BY <2>3, <2>4
    <3>3. CASE fit
      <4>1. parts = count - 1 /\ height = length /\ extra = length - s
        BY <2>5, <3>3 DEF parts, height
      <4>2. stride = length - size
        <5>1. parts * size = s - size
          BY <3>2, <4>1
        <5> HIDE DEF s
        <5> QED BY <2>3, <3>2, <4>1, <5>1 DEF stride
      <4> QED BY <2>3, <2>4, <3>1, <4>1, <4>2
    <3>4. CASE ~fit
      <4>1. parts = 1 /\ height = s + g /\ extra = gap /\ stride = size + gap
        BY <2>3, <3>4 DEF parts, height, extra, stride
      <4>2. g \in Int
        BY <2>3, <2>4
      <4>3. (count - 1) * stride = s - size + g
        BY <2>3, <2>4, <4>1
      <4> HIDE DEF s, g
      <4> QED BY <2>3, <3>1, <3>2, <4>1, <4>2, <4>3
    <3> QED BY <3>3, <3>4
  <2> HIDE DEF size
  <2>12. /\ count \in Nat /\ parts \in Nat \ {0} /\ height \in Int /\ count # 0
         /\ ~(length <= 0 \/ size <= 0)
    BY <1>2, <2>4, <2>6, <2>7
  <2>13. \A q \in 1..(column.count - 1) : column.tops[q] - column.tops[q + 1] >= column.parts * size
    BY <2>2, <2>10
  <2>14. column.count > 0 /\ (fit => column.count > 1) => column.tops[column.count] = 0
    BY <2>2, <2>11
  <2> QED BY <2>2, <2>12, <2>13, <2>14 DEF column, size
<1> QED BY <1>1, <1>2

\* A band is four parts wide, and so is an even number of units what two series leave of it.
LEMMA WidthOfBars ==
  ASSUME BarInv, barRows # <<>>
  PROVE  /\ \A i \in DOMAIN barRows : BandPos(i) \in Int
         /\ BandWidth \in Nat /\ GroupGap \in Nat /\ SeriesWidth \in Int
         /\ SeriesWidth = 2 * (SeriesWidth \div 2)
         /\ barProps.stacked => SeriesWidth = BandWidth
         /\ ~barProps.stacked => 2 * SeriesWidth + GroupGap = BandWidth
<1> DEFINE n == Len(barRows)
<1>1. n \in 1..MaxBars /\ DOMAIN barRows = 1..n
  BY EmptySeq, LenProperties DEF BarInv
<1>2. Pixel \in Nat
  BY BarAssumption
<1> HIDE DEF n
<1>3. PICK u \in Nat \ {0} :
        /\ (5 * PlotSize) \div (5 * n + 1) = 5 * u
        /\ (4 * (5 * u)) \div 5 = 4 * u
        /\ \A l \in Int : (5 * u) \div 5 + (l - 1) * (5 * u) = 5 * (l * u) - 4 * u
  BY <1>1, FifthsOfBand
<1>4. BandStep = 5 * u
  BY <1>3 DEF BandStep, n
<1>5. BandWidth = 4 * u /\ \A i \in Int : BandPos(i) = 5 * (i * u) - 4 * u
  BY <1>3, <1>4 DEF BandWidth, BandPos
<1>6. \A i \in DOMAIN barRows : BandPos(i) \in Int
  BY <1>1, <1>3, <1>5
<1>7. GroupGap = 4 * Pixel
  BY DEF GroupGap
<1>8. CASE barProps.stacked
  <2>1. SeriesWidth = 4 * u
    BY <1>5, <1>8 DEF SeriesWidth
  <2>2. (4 * u) \div 2 = 2 * u
    BY <1>3
  <2> QED BY <1>2, <1>3, <1>5, <1>6, <1>7, <1>8, <2>1, <2>2
<1>9. CASE ~barProps.stacked
  <2>1. SeriesWidth = (4 * u - 4 * Pixel) \div 2
    BY <1>5, <1>7, <1>9 DEF SeriesWidth
  <2>2. (4 * u - 4 * Pixel) \div 2 = 2 * u - 2 * Pixel /\ (2 * u - 2 * Pixel) \div 2 = u - Pixel
    BY <1>2, <1>3
  <2>3. SeriesWidth \in Int /\ SeriesWidth = 2 * (SeriesWidth \div 2)
    BY <1>2, <1>3, <2>1, <2>2
  <2>4. 2 * SeriesWidth + GroupGap = BandWidth /\ BandWidth \in Nat /\ GroupGap \in Nat
    BY <1>2, <1>3, <1>5, <1>7, <2>1, <2>2
  <2> QED BY <1>6, <1>9, <2>3, <2>4
<1> QED BY <1>8, <1>9

\* The numbers of the bars of a row, which is one of those that are drawn.
LEMMA BarsOfRow ==
  ASSUME BarInv, NEW i \in DOMAIN barRows
  PROVE  barRows # <<>> /\ 1 \in Series /\ 2 \in Series /\ \A k \in Series : k = 1 \/ k = 2
<1>1. DOMAIN <<>> = {}
  OBVIOUS
<1> QED BY <1>1 DEF Series

\* Where Bar ends a bar, vertical or beside another: at its length, above what is below it.
LEMMA EndOfBar ==
  ASSUME BarInv, GrowInv, NEW i \in DOMAIN barRows, ~(barProps.horizontal /\ barProps.stacked)
  PROVE  /\ barProps.gap \in Nat
         /\ ~barProps.stacked => \A k \in Series : BarRect(i, k).to = Along(BarNumber(barRows[i][k]))
         /\ barProps.stacked => /\ BarRect(i, 1).to = Along(BarNumber(barRows[i][1]))
                                /\ BarRect(i, 2).to = Along(BarNumber(barRows[i][1])) + Along(BarNumber(barRows[i][2])) + barProps.gap
                                /\ BarRect(i, 2).from = Along(BarNumber(barRows[i][1])) + barProps.gap
<1> DEFINE v == BarNumber(barRows[i][1])  w == BarNumber(barRows[i][2])  gap == barProps.gap
<1>1. 1 \in Series /\ 2 \in Series
  BY DEF Series
<1>2. gap \in Nat
  <2>1. gap \in {0, StackGap * Pixel}
    BY DEF GrowInv, BarProps
  <2>2. StackGap \in Nat /\ Pixel \in Nat
    BY BarAssumption
  <2> QED BY <2>1, <2>2
<1>3. v \in Int /\ w \in Int
  BY <1>1, LengthOfBar
<1>4. Along(v) \in Int /\ Along(w) \in Int /\ Along(0) = 0
  BY <1>3, LengthOfBar
<1>5. ASSUME ~barProps.stacked, NEW k \in Series
      PROVE  BarRect(i, k).to = Along(BarNumber(barRows[i][k]))
  BY <1>5 DEF BarRect, RectFrom
<1>6. ASSUME barProps.stacked
      PROVE  /\ BarRect(i, 1).to = Along(v) /\ BarRect(i, 2).to = Along(v) + Along(w) + gap
             /\ BarRect(i, 2).from = Along(v) + gap
  <2>1. StackOffset(barRows[i], 1) = 0
    BY DEF StackOffset
  <2>2. StackOffset(barRows[i], 2) = v
    BY <1>3 DEF StackOffset
  <2>3. SegmentShift(1) = 0 /\ SegmentShift(2) = gap
    BY <1>2 DEF SegmentShift
  <2> HIDE DEF v, w, gap
  <2>4. ~barProps.horizontal /\ barProps.gap = gap
    BY <1>6 DEF gap
  <2>5. BarRect(i, 1).to = 0 + Along(v) + 0
    BY <1>6, <1>4, <2>1, <2>3, <2>4 DEF BarRect, RectFrom, v
  <2>6. BarRect(i, 2).to = Along(v) + Along(w) + gap
    BY <1>6, <2>2, <2>3, <2>4 DEF BarRect, RectFrom, w
  <2>7. BarRect(i, 2).from = BarRect(i, 2).to - Along(w)
    <3> DEFINE a == Along(v)  b == Along(w)
    <3>1. BarRect(i, 2) = RectFrom(i, 2, a, b)
      BY <2>2 DEF BarRect, w
    <3> HIDE DEF a, b
    <3>2. RectFrom(i, 2, a, b).from = RectFrom(i, 2, a, b).to - b
      BY <1>6, <2>4 DEF RectFrom
    <3> QED BY <3>1, <3>2 DEF b
  <2> QED BY <1>2, <1>4, <2>5, <2>6, <2>7
<1> QED BY <1>2, <1>5, <1>6

LEMMA StackedApart == BarInv /\ GrowInv => SegmentsApart
<1> SUFFICES ASSUME BarInv, GrowInv, barProps.stacked, ~barProps.horizontal, NEW i \in DOMAIN barRows
             PROVE  BarRect(i, 2).from >= BarRect(i, 1).to
  BY DEF SegmentsApart
<1> DEFINE x == Along(BarNumber(barRows[i][1]))
<1>1. x \in Int
  <2>1. 1 \in Series
    BY DEF Series
  <2>2. BarNumber(barRows[i][1]) \in Int
    BY <2>1, LengthOfBar
  <2> QED BY <2>2, LengthOfBar
<1>2. barProps.gap \in Nat /\ BarRect(i, 1).to = x /\ BarRect(i, 2).from = x + barProps.gap
  BY EndOfBar
<1> HIDE DEF x
<1> QED BY <1>1, <1>2

LEMMA ColumnsApart == BarInv /\ GrowInv => SquaresApart
<1> SUFFICES ASSUME BarInv, GrowInv, barProps.squares # "none", NEW i \in DOMAIN barRows, NEW k \in Series
             PROVE  LET squares == SquaresOf(i, k)  column == squares.column  track == TrackOf(i, k)
                    IN  /\ \A q \in 1..(column.count - 1) : column.tops[q] - column.tops[q + 1] >= column.parts * SeriesWidth
                        /\ column.count > 1 => column.tops[column.count] >= 0
                        /\ column.count > 0 /\ column.height <= PlotSize => track.length + column.height = PlotSize
                        /\ track.length > 0 /\ SeriesWidth > 0 => column.count > 0 /\ track.at = squares.at
                        /\ BandPos(i) <= squares.at /\ squares.at + SeriesWidth <= BandPos(i) + BandWidth
                        /\ k = 2 => SquaresOf(i, 1).at + SeriesWidth + GroupGap <= squares.at
  BY DEF SquaresApart
<1>1. ~barProps.stacked /\ ~barProps.horizontal
  BY DEF GrowInv, BarProps
<1>2. barRows # <<>> /\ (k = 1 \/ k = 2)
  BY BarsOfRow
<1>3. /\ BandPos(i) \in Int /\ BandWidth \in Nat /\ GroupGap \in Nat /\ SeriesWidth \in Int
      /\ 2 * SeriesWidth + GroupGap = BandWidth
  BY <1>1, <1>2, WidthOfBars
<1> DEFINE v == BarNumber(barRows[i][k])  length == Along(v)  fit == barProps.squares = "fit"
           column == SquareColumn(length, fit)  leftEdge == ColumnAt(i, k)
<1>4. v \in Int /\ (v > 0 => Along(v) > 0)
  BY <1>1, LengthOfBar
<1>5. length \in Int /\ (v <= 0 => length <= 0)
  BY <1>1, <1>4, LengthOfBar
<1>6. SquaresOf(i, k) = [column |-> column, at |-> leftEdge]
  BY DEF SquaresOf
<1>7. TrackOf(i, k) = [length |-> IF v <= 0 THEN 0 ELSE TrackLength(length, fit), at |-> leftEdge]
  BY DEF TrackOf
<1>8. SquaresOf(i, k).column = column /\ SquaresOf(i, k).at = leftEdge
  BY <1>6
<1>9. TrackOf(i, k).length = (IF v <= 0 THEN 0 ELSE TrackLength(length, fit)) /\ TrackOf(i, k).at = leftEdge
  BY <1>7
<1>10. SquaresOf(i, 1).at = ColumnAt(i, 1)
  BY DEF SquaresOf
<1>11. TrackLength(length, fit) = Max({0, PlotSize - column.height})
  BY DEF TrackLength
<1> HIDE DEF v
<1>12. v > 0 => length > 0
  BY <1>4
<1> HIDE DEF length, fit
<1>13. /\ column.count \in Nat /\ column.parts \in Nat \ {0} /\ column.height \in Int
       /\ column.count = 0 <=> length <= 0 \/ SeriesWidth <= 0
       /\ \A q \in 1..(column.count - 1) : column.tops[q] - column.tops[q + 1] >= column.parts * SeriesWidth
       /\ column.count > 0 /\ (fit => column.count > 1) => column.tops[column.count] = 0
  BY <1>3, <1>5, ColumnOfSquares
<1>14. leftEdge = BandPos(i) + (k - 1) * (SeriesWidth + GroupGap) /\ ColumnAt(i, 1) = BandPos(i) + 0 * (SeriesWidth + GroupGap)
  BY DEF ColumnAt
<1> HIDE DEF column, leftEdge
<1>15. column.count > 1 => column.tops[column.count] >= 0
  BY <1>13
<1>16. PlotSize \in Int
  BY BarAssumption
<1>17. TrackLength(length, fit) = IF 0 < PlotSize - column.height THEN PlotSize - column.height ELSE 0
  BY <1>11, <1>13, <1>16, MaxOfTwo
<1>18. column.count > 0 /\ column.height <= PlotSize => TrackOf(i, k).length + column.height = PlotSize
  <2> SUFFICES ASSUME column.count > 0, column.height <= PlotSize
               PROVE  TrackOf(i, k).length + column.height = PlotSize
    OBVIOUS
  <2>1. ~(v <= 0)
    BY <1>5, <1>13
  <2>2. TrackOf(i, k).length = IF 0 < PlotSize - column.height THEN PlotSize - column.height ELSE 0
    BY <1>9, <1>17, <2>1
  <2> QED BY <1>13, <1>16, <2>2
<1>19. TrackOf(i, k).length > 0 /\ SeriesWidth > 0 => column.count > 0 /\ TrackOf(i, k).at = leftEdge
  <2> SUFFICES ASSUME TrackOf(i, k).length > 0, SeriesWidth > 0
               PROVE  column.count > 0
    BY <1>9
  <2>1. ~(v <= 0)
    BY <1>9
  <2>2. ~(length <= 0)
    BY <1>4, <1>5, <1>12, <2>1
  <2> QED BY <1>3, <1>13, <2>2
<1>20. /\ BandPos(i) <= leftEdge /\ leftEdge + SeriesWidth <= BandPos(i) + BandWidth
       /\ k = 2 => ColumnAt(i, 1) + SeriesWidth + GroupGap <= leftEdge
  <2>1. CASE k = 1
    <3>1. leftEdge = BandPos(i)
      BY <1>3, <1>14, <2>1
    <3> QED BY <1>3, <2>1, <3>1
  <2>2. CASE k = 2
    <3>1. leftEdge = BandPos(i) + SeriesWidth + GroupGap /\ ColumnAt(i, 1) = BandPos(i)
      BY <1>3, <1>14, <2>2
    <3> QED BY <1>3, <2>2, <3>1
  <2> QED BY <1>2, <2>1, <2>2
<1> QED BY <1>8, <1>10, <1>13, <1>15, <1>18, <1>19, <1>20

\* A tooltip, shown or due, has the dots of a row, unless its rows are gone.
TipOfRows(t) ==
    t \in {NoBarTip, OldTip} \/
    \E i \in DOMAIN barRows : \E x, pos : t = [index |-> i, x |-> x, dots |-> HoverDots(i), at |-> pos]
BarTipInv == TipOfRows(scheduled) /\ TipOfRows(hoverTip)

LEMMA SameDots ==
  ASSUME barRows' = barRows, barProps' = barProps
  PROVE  \A i \in DOMAIN barRows : HoverDots(i)' = HoverDots(i)
<1>1. MaxSingle' = MaxSingle
  BY DEF MaxSingle
<1>2. MaxStacked' = MaxStacked
  BY DEF MaxStacked
<1>3. ValueTop' = ValueTop
  BY <1>1, <1>2 DEF ValueTop
<1>4. BandStep' = BandStep /\ BandWidth' = BandWidth /\ SeriesWidth' = SeriesWidth
  BY DEF BandStep, BandWidth, SeriesWidth
<1>5. \A i \in DOMAIN barRows : HoverDots(i)' = HoverDots(i)
  BY <1>3, <1>4 DEF HoverDots, DotAlong, DotAcross, Along, BandPos, TopSquareCentre, SquareColumn
<1> QED BY <1>5

\* While its rows stay, a tooltip keeps its dots.
LEMMA TipOfSameRows ==
  ASSUME barRows' = barRows, barProps' = barProps
  PROVE  /\ TipOfRows(scheduled) /\ scheduled' = scheduled => TipOfRows(scheduled)'
         /\ TipOfRows(hoverTip) /\ hoverTip' = hoverTip => TipOfRows(hoverTip)'
<1>1. \A i \in DOMAIN barRows : HoverDots(i)' = HoverDots(i)
  BY SameDots
<1>2. ASSUME TipOfRows(scheduled), scheduled' = scheduled PROVE TipOfRows(scheduled)'
  <2>1. CASE scheduled \in {NoBarTip, OldTip}
    BY <1>2, <2>1 DEF TipOfRows
  <2>2. CASE \E i \in DOMAIN barRows : \E x, pos : scheduled = [index |-> i, x |-> x, dots |-> HoverDots(i), at |-> pos]
    <3>1. PICK i \in DOMAIN barRows : \E x, pos : scheduled = [index |-> i, x |-> x, dots |-> HoverDots(i), at |-> pos]
      BY <2>2
    <3>2. PICK x, pos : scheduled = [index |-> i, x |-> x, dots |-> HoverDots(i), at |-> pos]
      BY <3>1
    <3>3. scheduled' = [index |-> i, x |-> x, dots |-> HoverDots(i)', at |-> pos] /\ i \in DOMAIN barRows'
      BY <1>1, <1>2, <3>2
    <3> QED BY <3>3 DEF TipOfRows
  <2> QED BY <1>2, <2>1, <2>2 DEF TipOfRows
<1>3. ASSUME TipOfRows(hoverTip), hoverTip' = hoverTip PROVE TipOfRows(hoverTip)'
  <2>1. CASE hoverTip \in {NoBarTip, OldTip}
    BY <1>3, <2>1 DEF TipOfRows
  <2>2. CASE \E i \in DOMAIN barRows : \E x, pos : hoverTip = [index |-> i, x |-> x, dots |-> HoverDots(i), at |-> pos]
    <3>1. PICK i \in DOMAIN barRows : \E x, pos : hoverTip = [index |-> i, x |-> x, dots |-> HoverDots(i), at |-> pos]
      BY <2>2
    <3>2. PICK x, pos : hoverTip = [index |-> i, x |-> x, dots |-> HoverDots(i), at |-> pos]
      BY <3>1
    <3>3. hoverTip' = [index |-> i, x |-> x, dots |-> HoverDots(i)', at |-> pos] /\ i \in DOMAIN barRows'
      BY <1>1, <1>3, <3>2
    <3> QED BY <3>3 DEF TipOfRows
  <2> QED BY <1>3, <2>1, <2>2 DEF TipOfRows
<1> QED BY <1>2, <1>3

LEMMA TipInitInv == BarInit => BarTipInv
  BY DEF BarInit, BarTipInv, TipOfRows

\* Rows that come take the tooltips of those before with them, or are the same.
LEMMA TipAges ==
  ASSUME BarTipInv, NEW fresh, fresh = barRows', TipsAgeWith(fresh), barProps' = barProps
  PROVE  BarTipInv'
<1>1. CASE fresh = barRows
  <2>1. scheduled' = scheduled /\ hoverTip' = hoverTip
    BY <1>1 DEF TipsAgeWith
  <2> QED BY <1>1, <2>1, TipOfSameRows DEF BarTipInv
<1>2. CASE fresh # barRows
  <2>1. scheduled' = BarAged(scheduled) /\ hoverTip' = BarAged(hoverTip)
    BY <1>2 DEF TipsAgeWith
  <2>2. scheduled' \in {NoBarTip, OldTip} /\ hoverTip' \in {NoBarTip, OldTip}
    BY <2>1 DEF BarAged
  <2> QED BY <2>2 DEF BarTipInv, TipOfRows
<1> QED BY <1>1, <1>2

\* A pointer anywhere on the plot is over a row.
LEMMA RowUnderPointer ==
  ASSUME BarInv, barRows # <<>>, NEW pos \in Positions
  PROVE  HoverIndex(pos) \in DOMAIN barRows
<1> DEFINE n == Len(barRows)  q == 1 + (pos * n) \div PlotSize
<1>1. n \in Nat \ {0} /\ DOMAIN barRows = 1..n
  BY EmptySeq, LenProperties DEF BarInv
<1>2. PlotSize \in Nat \ {0}
  BY BarAssumption
<1>3. pos \in Int
  <2>1. CASE pos \in {0, PlotSize}
    BY <1>2, <2>1
  <2>2. CASE \E i \in DOMAIN barRows : pos \in {BandPos(i), BandPos(i) + BandWidth - 1}
    BY <2>2, WidthOfBars
  <2> QED BY <2>1, <2>2 DEF Positions
<1>4. HoverIndex(pos) = Max({1, Min({n, q})})
  BY DEF HoverIndex
<1> HIDE DEF n
<1>5. q \in Int
  <2> DEFINE a == pos * n
  <2>1. a \in Int
    BY <1>1, <1>3
  <2> HIDE DEF a
  <2>2. a \div PlotSize \in Int
    BY <1>2, <2>1
  <2> QED BY <2>2 DEF a
<1> HIDE DEF q
<1>6. Min({n, q}) = IF n < q THEN n ELSE q
  BY <1>1, <1>5, MinOfTwo
<1> DEFINE r == Min({n, q})
<1>7. r \in Int /\ r <= n
  BY <1>1, <1>5, <1>6
<1> HIDE DEF r
<1>8. Max({1, r}) = IF 1 < r THEN r ELSE 1
  BY <1>7, MaxOfTwo
<1>9. HoverIndex(pos) = Max({1, r})
  BY <1>4 DEF r
<1> QED BY <1>1, <1>7, <1>8, <1>9

LEMMA TipStep == BarInv /\ BarTipInv /\ [BarNext]_barVars => BarTipInv'
<1> SUFFICES ASSUME BarInv, BarTipInv, [BarNext]_barVars
             PROVE  BarTipInv'
  OBVIOUS
<1>1. CASE ChangeBarStatus \/ ChangeRows
  <2>1. TipsAgeWith(barRows') /\ barProps' = barProps
    BY <1>1 DEF ChangeBarStatus, ChangeRows
  <2> QED BY <2>1, TipAges
<1>2. CASE Replay \/ BarTick \/ RevealDone \/ UNCHANGED barVars
  <2>1. UNCHANGED <<barProps, barRows, scheduled, hoverTip>>
    BY <1>2 DEF Replay, BarTick, RevealDone, barVars
  <2> QED BY <2>1, TipOfSameRows DEF BarTipInv
<1>3. CASE BarMouseMove
  <2>1. barRows # <<>> /\ UNCHANGED <<barProps, barRows, hoverTip>>
    BY <1>3 DEF BarMouseMove
  <2>2. PICK pos \in Positions :
          scheduled' = scheduled \/
          \E x : scheduled' = [index |-> HoverIndex(pos), x |-> x, dots |-> HoverDots(HoverIndex(pos)), at |-> pos]
    BY <1>3 DEF BarMouseMove
  <2>3. TipOfRows(hoverTip)'
    BY <2>1, TipOfSameRows DEF BarTipInv
  <2>4. CASE scheduled' = scheduled
    BY <2>1, <2>3, <2>4, TipOfSameRows DEF BarTipInv
  <2>5. CASE \E x : scheduled' = [index |-> HoverIndex(pos), x |-> x, dots |-> HoverDots(HoverIndex(pos)), at |-> pos]
    <3>1. PICK x : scheduled' = [index |-> HoverIndex(pos), x |-> x, dots |-> HoverDots(HoverIndex(pos)), at |-> pos]
      BY <2>5
    <3>2. HoverIndex(pos) \in DOMAIN barRows
      BY <2>1, RowUnderPointer
    <3>3. PICK i \in DOMAIN barRows : i = HoverIndex(pos)
      BY <3>2
    <3>4. HoverDots(i)' = HoverDots(i)
      BY <2>1, SameDots
    <3>5. scheduled' = [index |-> i, x |-> x, dots |-> HoverDots(i)', at |-> pos] /\ i \in DOMAIN barRows'
      BY <2>1, <3>1, <3>3, <3>4
    <3>6. TipOfRows(scheduled)'
      BY <3>5 DEF TipOfRows
    <3> QED BY <2>3, <3>6 DEF BarTipInv
  <2> QED BY <2>2, <2>4, <2>5
<1>4. CASE BarTipFrame
  <2>1. /\ UNCHANGED <<barProps, barRows>> /\ scheduled # NoBarTip /\ scheduled' = NoBarTip
        /\ hoverTip' = hoverTip \/ hoverTip' = [scheduled EXCEPT !.at = -1]
    BY <1>4 DEF BarTipFrame
  <2>2. TipOfRows(scheduled)'
    BY <2>1 DEF TipOfRows
  <2>3. CASE hoverTip' = hoverTip
    BY <2>1, <2>2, <2>3, TipOfSameRows DEF BarTipInv
  <2>4. CASE hoverTip' = [scheduled EXCEPT !.at = -1]
    <3>1. CASE scheduled = OldTip
      <4>1. [OldTip EXCEPT !.at = -1] = OldTip
        <5>1. OldTip = [index |-> -1, x |-> 0, dots |-> <<>>, at |-> -1]
          BY DEF OldTip, NoBarTip
        <5> QED BY <5>1
      <4> QED BY <2>2, <2>4, <3>1, <4>1 DEF BarTipInv, TipOfRows
    <3>2. CASE scheduled # OldTip
      <4>1. PICK i \in DOMAIN barRows :
              \E x, pos : scheduled = [index |-> i, x |-> x, dots |-> HoverDots(i), at |-> pos]
        BY <2>1, <3>2 DEF BarTipInv, TipOfRows
      <4>2. PICK x, pos : scheduled = [index |-> i, x |-> x, dots |-> HoverDots(i), at |-> pos]
        BY <4>1
      <4>3. HoverDots(i)' = HoverDots(i)
        BY <2>1, SameDots
      <4>4. hoverTip' = [index |-> i, x |-> x, dots |-> HoverDots(i)', at |-> -1] /\ i \in DOMAIN barRows'
        BY <2>1, <2>4, <4>2, <4>3
      <4>5. TipOfRows(hoverTip)'
        BY <4>4 DEF TipOfRows
      <4> QED BY <2>2, <4>5 DEF BarTipInv
    <3> QED BY <3>1, <3>2
  <2> QED BY <2>1, <2>3, <2>4
<1>5. CASE BarMouseLeave
  <2>1. scheduled' = NoBarTip /\ hoverTip' = NoBarTip
    BY <1>5 DEF BarMouseLeave
  <2> QED BY <2>1 DEF BarTipInv, TipOfRows
<1> QED
  BY <1>1, <1>2, <1>3, <1>4, <1>5 DEF BarNext

\* Across a band the dot of a series is in the middle of its bar.
LEMMA DotInMiddle ==
  ASSUME BarInv, NEW i \in DOMAIN barRows, NEW k \in Series
  PROVE  DotAcross(i, k) * 2 = 2 * BarRect(i, k).at + BarRect(i, k).width
<1>1. barRows # <<>> /\ (k = 1 \/ k = 2)
  BY BarsOfRow
<1>2. /\ BandPos(i) \in Int /\ BandWidth \in Nat /\ GroupGap \in Nat /\ SeriesWidth \in Int
      /\ SeriesWidth = 2 * (SeriesWidth \div 2) /\ (barProps.stacked => SeriesWidth = BandWidth)
  BY <1>1, WidthOfBars
<1> DEFINE from == BandPos(i) + (IF barProps.stacked THEN 0 ELSE (k - 1) * (SeriesWidth + GroupGap))
<1>3. BarRect(i, k).at = from /\ BarRect(i, k).width = SeriesWidth
  BY DEF BarRect, RectFrom
<1>4. DotAcross(i, k) = from + SeriesWidth \div 2
  <2>1. CASE barProps.stacked
    BY <1>2, <2>1 DEF DotAcross
  <2>2. CASE ~barProps.stacked
    BY <1>2, <2>2 DEF DotAcross
  <2> QED BY <2>1, <2>2
<1>5. from \in Int
  BY <1>1, <1>2
<1> HIDE DEF from
<1> DEFINE h == SeriesWidth \div 2
<1>6. h \in Int /\ SeriesWidth = 2 * h
  BY <1>2
<1> HIDE DEF h
<1>7. DotAcross(i, k) = from + h
  BY <1>4 DEF h
<1> QED BY <1>3, <1>5, <1>6, <1>7

\* Along the values it is at the end of its bar, or in the middle of the top square.
LEMMA DotAtEnd ==
  ASSUME BarInv, GrowInv, ~(barProps.horizontal /\ barProps.stacked), NEW i \in DOMAIN barRows,
         NEW k \in Series, barRows[i][k] # NoBar,
         barProps.squares = "none" \/ barRows[i][k] <= 0,
         barProps.gap > 0 => NoBar \notin {barRows[i][s] : s \in Series}
  PROVE  DotAlong(barRows[i], k) = BarRect(i, k).to
<1> DEFINE v == barRows[i][k]
<1>1. BarNumber(barRows[i][k]) = v
  BY DEF BarNumber
<1>2. barProps.gap \in Nat
  BY EndOfBar
<1>3. CASE ~barProps.stacked
  <2>1. BarRect(i, k).to = Along(v)
    BY <1>1, <1>3, EndOfBar
  <2>2. ~(barProps.squares # "none" /\ v > 0)
    <3>1. v \in Int
      BY <1>1, LengthOfBar
    <3> QED BY <3>1
  <2>3. DotAlong(barRows[i], k) = Along(v)
    BY <1>3, <2>2 DEF DotAlong
  <2> QED BY <2>1, <2>3
<1>4. CASE barProps.stacked
  <2> DEFINE row == barRows[i]  x == BarNumber(row[1])  y == BarNumber(row[2])  gap == barProps.gap
             below == Cardinality({s \in 1..(k - 1) : row[s] # NoBar})
  <2>s. 1 \in Series /\ 2 \in Series
    BY DEF Series
  <2>1. x \in Int /\ y \in Int /\ Along(0) = 0 /\ \A w \in Int : Along(w + y) = Along(w) + Along(y)
    BY <2>s, LengthOfBar
  <2>2. Along(x) \in Int /\ Along(y) \in Int
    BY <2>1, LengthOfBar
  <2>3. DotAlong(row, k) = Along(StackOffset(row, k) + row[k]) + below * gap
    BY <1>4 DEF DotAlong
  <2>4. BarRect(i, 1).to = Along(x) /\ BarRect(i, 2).to = Along(x) + Along(y) + gap
    BY <1>4, EndOfBar
  <2>5. CASE k = 1
    <3>1. StackOffset(row, k) + row[k] = 0 + x
      BY <1>1, <2>1, <2>5 DEF StackOffset
    <3>2. {s \in 1..(k - 1) : row[s] # NoBar} = {}
      BY <2>5
    <3>3. below = 0
      BY <3>2, FS_EmptySet
    <3> HIDE DEF below, x, row
    <3> QED BY <1>2, <2>1, <2>2, <2>3, <2>4, <2>5, <3>1, <3>3 DEF row
  <2>6. CASE k = 2
    <3>1. StackOffset(row, k) + row[k] = x + y
      BY <1>1, <2>1, <2>6 DEF StackOffset
    <3>2. gap > 0 => below = 1
      <4> SUFFICES ASSUME gap > 0
                   PROVE  below = 1
        OBVIOUS
      <4>1. row[1] # NoBar
        BY <2>s
      <4>2. {s \in 1..(k - 1) : row[s] # NoBar} = {1}
        BY <2>6, <4>1
      <4> QED BY <4>2, FS_Singleton
    <3>3. below * gap = gap
      <4>1. CASE gap > 0
        BY <1>2, <3>2, <4>1
      <4>2. CASE gap = 0
        <5>1. {s \in 1..(k - 1) : row[s] # NoBar} \subseteq {1}
          BY <2>6
        <5>2. IsFiniteSet({1})
          BY FS_Singleton
        <5>3. below \in Nat
          BY <5>1, <5>2, FS_Subset, FS_CardinalityType
        <5> HIDE DEF below
        <5> QED BY <4>2, <5>3
      <4> QED BY <1>2, <4>1, <4>2
    <3>4. Along(x + y) = Along(x) + Along(y)
      BY <2>1
    <3> HIDE DEF below, x, y, gap
    <3> QED BY <2>3, <2>4, <2>6, <3>1, <3>3, <3>4
  <2>7. k = 1 \/ k = 2
    BY BarsOfRow
  <2> QED BY <2>5, <2>6, <2>7
<1> QED BY <1>3, <1>4

LEMMA DotAtTop ==
  ASSUME BarInv, GrowInv, ~(barProps.horizontal /\ barProps.stacked), NEW i \in DOMAIN barRows,
         NEW k \in Series, barRows[i][k] # NoBar,
         barProps.squares # "none", ~(barRows[i][k] <= 0)
  PROVE  LET column == SquaresOf(i, k).column
         IN  IF column.count = 0 THEN DotAlong(barRows[i], k) = 0
             ELSE (barProps.squares = "fit" => column.count > 1) =>
                  DotAlong(barRows[i], k) = column.height - column.tops[column.count] \div column.parts - SeriesWidth \div 2
<1> DEFINE v == barRows[i][k]  length == Along(v)  fit == barProps.squares = "fit"
           column == SquareColumn(length, fit)
<1>1. ~barProps.stacked
  BY DEF GrowInv, BarProps
<1>2. BarNumber(v) = v
  BY DEF BarNumber
<1>3. v \in Int
  BY <1>2, LengthOfBar
<1>4. length \in Int
  BY <1>3, LengthOfBar
<1>5. SeriesWidth \in Int
  BY BarsOfRow, WidthOfBars
<1>6. DotAlong(barRows[i], k) = TopSquareCentre(length, fit)
  BY <1>1, <1>3 DEF DotAlong
<1>7. SquaresOf(i, k).column = column
  BY <1>2 DEF SquaresOf
<1>8. TopSquareCentre(length, fit) = IF column.count = 0 THEN 0 ELSE column.height - SeriesWidth \div 2
  BY DEF TopSquareCentre
<1> HIDE DEF v, length, fit
<1>9. /\ column.count \in Nat /\ column.parts \in Nat \ {0} /\ column.height \in Int
      /\ column.count > 0 /\ (fit => column.count > 1) => column.tops[column.count] = 0
  BY <1>4, <1>5, ColumnOfSquares
<1> HIDE DEF column
<1>10. ASSUME column.count # 0, fit => column.count > 1
       PROVE  column.tops[column.count] \div column.parts = 0
  <2>1. column.tops[column.count] = 0
    BY <1>9, <1>10
  <2>2. 0 \div column.parts = 0
    BY <1>9
  <2> QED BY <2>1, <2>2
<1>11. ASSUME column.count # 0, fit => column.count > 1
       PROVE  DotAlong(barRows[i], k) = column.height - column.tops[column.count] \div column.parts - SeriesWidth \div 2
  <2> DEFINE h == SeriesWidth \div 2  z == column.tops[column.count] \div column.parts
  <2>1. h \in Int
    BY <1>5
  <2>2. z = 0 /\ DotAlong(barRows[i], k) = column.height - h
    BY <1>6, <1>8, <1>10, <1>11
  <2> HIDE DEF h, z
  <2>3. DotAlong(barRows[i], k) = column.height - z - h
    BY <1>9, <2>1, <2>2
  <2> QED BY <2>3 DEF h, z
<1> QED BY <1>6, <1>7, <1>8, <1>11 DEF fit, v

LEMMA DotsPlaced == BarInv /\ GrowInv /\ BarTipInv => DotsOnBars
<1> SUFFICES ASSUME BarInv, GrowInv, BarTipInv, hoverTip # NoBarTip, ~(barProps.horizontal /\ barProps.stacked),
                    NEW k \in DOMAIN hoverTip.dots
             PROVE  DotOnBar(hoverTip.index, k, hoverTip.dots[k], BarRect(hoverTip.index, k),
                             SquaresOf(hoverTip.index, k).column)
  BY DEF DotsOnBars
<1>1. hoverTip # OldTip
  <2>1. OldTip = [index |-> -1, x |-> 0, dots |-> <<>>, at |-> -1]
    BY DEF OldTip, NoBarTip
  <2>2. DOMAIN OldTip.dots = {}
    BY <2>1
  <2> QED BY <2>2
<1>2. PICK i \in DOMAIN barRows : \E x, pos : hoverTip = [index |-> i, x |-> x, dots |-> HoverDots(i), at |-> pos]
  BY <1>1 DEF BarTipInv, TipOfRows
<1>3. hoverTip.index = i /\ hoverTip.dots = HoverDots(i)
  BY <1>2
<1>4. k \in Series /\ barRows[i][k] # NoBar
  BY <1>3 DEF HoverDots
<1>5. HoverDots(i)[k] = [along |-> DotAlong(barRows[i], k), across |-> DotAcross(i, k)]
  BY <1>4 DEF HoverDots
<1> DEFINE dot == HoverDots(i)[k]
<1>6. dot.along = DotAlong(barRows[i], k) /\ dot.across = DotAcross(i, k)
  BY <1>5
<1> HIDE DEF dot
<1>7. dot.across * 2 = 2 * BarRect(i, k).at + BarRect(i, k).width
  BY <1>4, <1>6, DotInMiddle
<1> DEFINE column == SquaresOf(i, k).column
<1>8. IF barProps.squares = "none" \/ barRows[i][k] <= 0
      THEN (barProps.gap > 0 => NoBar \notin {barRows[i][s] : s \in Series}) => dot.along = BarRect(i, k).to
      ELSE IF column.count = 0 THEN dot.along = 0
      ELSE (barProps.squares = "fit" => column.count > 1) =>
               dot.along = column.height - column.tops[column.count] \div column.parts - SeriesWidth \div 2
  <2>1. CASE barProps.squares = "none" \/ barRows[i][k] <= 0
    BY <1>4, <1>6, <2>1, DotAtEnd
  <2>2. CASE ~(barProps.squares = "none" \/ barRows[i][k] <= 0)
    BY <1>4, <1>6, <2>2, DotAtTop
  <2> QED BY <2>1, <2>2
<1>9. DotOnBar(i, k, dot, BarRect(i, k), column)
  BY <1>7, <1>8 DEF DotOnBar
<1> QED BY <1>3, <1>9 DEF dot

-----------------------------------------------------------------------------
(* The parts together.                                                         *)

\* A chart ends every phase it begins and takes the pointer only with its data, on
\* scales that are its own; the dot of a live line stays in view, the bars are whole
\* when they turn static, their segments and squares do not run into one another, and
\* the grid shines while it loads
\* (use-chart-phase-orchestrator.ts, live-line-chart.tsx, bar-chart.tsx, use-grid-shimmer.ts).
THEOREM ConsoleChartDrawsData == ConsoleSpec => []ChartDrawsData
<1>1. ConsoleInit => PhaseInv /\ LiveInv /\ BarInv /\ GrowInv /\ ShimmerInv
  BY PhaseInitInv, LiveInitInv, BarInitInv, GrowInitInv, ShimmerInitInv DEF ConsoleInit
<1>2. PhaseInv /\ [ConsoleNext]_consoleVars => PhaseInv'
  BY PhaseStep DEF ConsoleNext, consoleVars
<1>3. LiveInv /\ [ConsoleNext]_consoleVars => LiveInv'
  BY LiveStep DEF ConsoleNext, consoleVars
<1>4. BarInv /\ GrowInv /\ [ConsoleNext]_consoleVars => BarInv' /\ GrowInv'
  BY BarStep, GrowStep DEF ConsoleNext, consoleVars
<1>5. ShimmerInv /\ [ConsoleNext]_consoleVars => ShimmerInv'
  BY ShimmerStep DEF ConsoleNext, consoleVars
<1>6. PhaseInv /\ LiveInv /\ BarInv /\ GrowInv /\ ShimmerInv => ChartDrawsData
  BY PhaseTells, LiveTells, StackedApart, ColumnsApart DEF ChartDrawsData, BarInv, ShimmerInv
<1> QED BY <1>1, <1>2, <1>3, <1>4, <1>5, <1>6, PTL DEF ConsoleSpec

\* What a tooltip tells is of the point it stands at: the nearest point of the chart's
\* scale, the live line at the pointer, the band of a bar and the end of it, the month
\* of the row its panel stands beside; and it is kept from the pointer only while it is shown
\* (use-chart-interaction.ts, live-line-chart.tsx, bar-chart.tsx, tooltip-box.tsx, date-ticker.tsx).
THEOREM ConsoleTooltipTellsPoint == ConsoleSpec => []TooltipTellsPoint
<1>1. ConsoleInit => PointerInv /\ LiveInv /\ BarInv /\ GrowInv /\ BarTipInv /\ PanelInv
  BY PointerInitInv, LiveInitInv, BarInitInv, GrowInitInv, TipInitInv, PanelInitInv DEF ConsoleInit
<1>2. PointerInv /\ [ConsoleNext]_consoleVars => PointerInv'
  BY PointerStep DEF ConsoleNext, consoleVars
<1>3. LiveInv /\ [ConsoleNext]_consoleVars => LiveInv'
  BY LiveStep DEF ConsoleNext, consoleVars
<1>4. BarInv /\ GrowInv /\ BarTipInv /\ [ConsoleNext]_consoleVars => BarInv' /\ GrowInv' /\ BarTipInv'
  BY BarStep, GrowStep, TipStep DEF ConsoleNext, consoleVars
<1>5. PanelInv /\ [ConsoleNext]_consoleVars => PanelInv'
  BY PanelStep DEF ConsoleNext, consoleVars
<1>6. PointerInv /\ LiveInv /\ BarInv /\ GrowInv /\ BarTipInv /\ PanelInv => TooltipTellsPoint
  BY PointerTells, LiveTells, LineTells, DotsPlaced, PanelPlaced DEF TooltipTellsPoint, BarInv
<1> QED BY <1>1, <1>2, <1>3, <1>4, <1>5, <1>6, PTL DEF ConsoleSpec

\* Every part keeps the variables of its components in their types: a page observes
\* queries it holds, a request is of a provider and a session that there are, the map is
\* of the rows there are and points at their nodes, a growing bar is one of a row.
THEOREM ConsoleTypeCorrect == ConsoleSpec => []ConsoleTypeOK
<1>1. ConsoleInit => /\ PagesInv /\ RemovalInv /\ ChoiceInv /\ WizardInv /\ DeployInv /\ LogInv /\ SessionTypeOK
                     /\ MapInv /\ FleetInv /\ ApiInv /\ PhaseInv /\ PointerInv /\ AxisInv /\ BarInv /\ GrowInv
  BY PagesInitInv, RemovalInitInv, ChoiceInitInv, WizardInitInv, DeployInitInv, LogInitInv, SessionInitTyped,
     MapInitInv, FleetInitInv, ApiInitInv, PhaseInitInv, PointerInitInv, AxisInitInv, BarInitInv, GrowInitInv
     DEF ConsoleInit
<1>2. PagesInv /\ RemovalInv /\ ChoiceInv /\ [ConsoleNext]_consoleVars => PagesInv' /\ RemovalInv' /\ ChoiceInv'
  BY PagesStep, RemovalStep, ChoiceStep DEF ConsoleNext, consoleVars
<1>3. WizardInv /\ DeployInv /\ [ConsoleNext]_consoleVars => WizardInv' /\ DeployInv'
  BY WizardStep, DeployStep DEF ConsoleNext, consoleVars
<1>4. LogInv /\ SessionTypeOK /\ [ConsoleNext]_consoleVars => LogInv' /\ SessionTypeOK'
  BY LogStep, SessionStepTyped DEF ConsoleNext, consoleVars
<1>5. MapInv /\ FleetInv /\ [ConsoleNext]_consoleVars => MapInv' /\ FleetInv'
  BY MapStep, FleetStep DEF ConsoleNext, consoleVars
<1>6. ApiInv /\ PhaseInv /\ [ConsoleNext]_consoleVars => ApiInv' /\ PhaseInv'
  BY ApiStep, PhaseStep DEF ConsoleNext, consoleVars
<1>7. PointerInv /\ AxisInv /\ [ConsoleNext]_consoleVars => PointerInv' /\ AxisInv'
  BY PointerStep, AxisStep DEF ConsoleNext, consoleVars
<1>8. BarInv /\ GrowInv /\ [ConsoleNext]_consoleVars => BarInv' /\ GrowInv'
  BY BarStep, GrowStep DEF ConsoleNext, consoleVars
<1>9. /\ PagesInv /\ RemovalInv /\ ChoiceInv => PagesTypeOK
      /\ WizardInv => WizardTypeOK
      /\ DeployInv => DeployTypeOK
      /\ LogInv => LogTypeOK
      /\ MapInv /\ FleetInv => MapTypeOK
  BY PagesTyped, WizardTyped, LogTyped, MapTyped DEF DeployInv
<1>10. /\ ApiInv => ApiTypeOK
       /\ PhaseInv => ChartTypeOK
       /\ PointerInv => PointerTypeOK
       /\ AxisInv => AxisTypeOK
       /\ BarInv /\ GrowInv => BarTypeOK
  BY BarTyped DEF ApiInv, PhaseInv, PointerInv, AxisInv
<1> QED BY <1>1, <1>2, <1>3, <1>4, <1>5, <1>6, <1>7, <1>8, <1>9, <1>10, PTL DEF ConsoleSpec, ConsoleTypeOK

-----------------------------------------------------------------------------
\* What a chart lays out is true to its rows. The labels of the time axis read from left to right,
\* one to a day; an even choice of them is not missed where the gaps in rows allow one, and the hovered
\* date is not written twice (x-axis.tsx). The labels of the live axis stay apart (live-y-axis.tsx).
\* Thinning keeps the ends, the order and a lone peak (decimate-time-series.ts). A projection leaves its
\* row and goes on in time (projection-segment.ts), the line and the projection are inside the axes
\* (y-axis-scales.ts), and a morph keeps the rows in their order (series-path-utils.ts).
THEOREM ConsoleLaidOutTrue == ConsoleSpec => []LaidOutTrue
<1>1. ConsoleInit => AxisLaid /\ LiveInv /\ AxisLabelled /\ ShapeInv
  BY AxisLaidInit, LiveInitInv, AxisLabelledInit, ShapeInitInv DEF ConsoleInit
<1>2. AxisLaid /\ [ConsoleNext]_consoleVars => AxisLaid'
  BY AxisLaidStep DEF ConsoleNext, consoleVars
<1>3. LiveInv /\ [ConsoleNext]_consoleVars => LiveInv'
  BY LiveStep DEF ConsoleNext, consoleVars
<1>4. LiveInv /\ LiveInv' /\ AxisLabelled /\ [ConsoleNext]_consoleVars => AxisLabelled'
  BY AxisLabelledStep DEF ConsoleNext, consoleVars
<1>5. ShapeInv /\ [ConsoleNext]_consoleVars => ShapeInv'
  BY ShapeStep DEF ConsoleNext, consoleVars
<1>6. AxisLaid /\ AxisLabelled /\ ShapeInv => LaidOutTrue
  BY LabelsReadable, EvenLabels, HoveredOnce, KeepsPeak, GoesOn, ShowsAll, MorphsInOrder DEF LaidOutTrue, AxisLabelled
<1> QED BY <1>1, <1>2, <1>3, <1>4, <1>5, <1>6, PTL DEF ConsoleSpec
==============================================================================
