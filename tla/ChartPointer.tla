---------------------------- MODULE ChartPointer ----------------------------
(* The pointer over a time series chart (use-chart-interaction.ts): the        *)
(* tooltip, deduplicated and committed once per animation frame                *)
(* (use-scheduled-tooltip.ts), the range a drag or two fingers select, and the *)
(* band of the line they light up (highlight-segment-bounds.ts).  Data is the  *)
(* pixels of its points on the current scale, ascending, one of PointSets.     *)
(* Values are left out: no key or index depends on them.  The mouse and the    *)
(* fingers are not used at once, and a selection keeps no indices: nothing     *)
(* reads them.                                                                 *)
EXTENDS Integers, Sequences, SequencesExt

CONSTANTS MaxX,      \* the width of the chart
          PointSets  \* the sets of pixels its data may fall on

ASSUME PointerAssumption == MaxX \in Nat /\ PointSets \subseteq SUBSET (0..MaxX)

VARIABLES
    points,     \* data on xScale
    interactive, \* canInteract
    mouse,      \* where the mouse is, as the browser knows
    fingers,    \* how many are on the chart
    tooltipData,
    lastKey, pending, rafDue,       \* useScheduledTooltip's refs
    marked,
    isDragging, dragStartX, lastHoveredX,
    unheard     \* a release was not handled, as the chart took no pointer then

pointerVars == <<points, interactive, mouse, fingers, tooltipData, lastKey, pending, rafDue,
                 marked, isDragging, dragStartX, lastHoveredX, unheard>>

Xs == 0..MaxX
NoX == -1
NoTip == [index |-> 0, x |-> NoX]
NoSelection == [from |-> NoX, to |-> NoX]
Scales ==
    {pts \in UNION {[1..n -> Xs] : n \in 0..(MaxX + 1)} :
        ToSet(pts) \in PointSets /\ \A i \in DOMAIN pts, j \in DOMAIN pts : i < j => pts[i] < pts[j]}

PointerTypeOK ==
    /\ points \in Scales
    /\ interactive \in BOOLEAN /\ mouse \in {"away", "over", "down"} /\ fingers \in 0..2
    /\ {tooltipData, lastKey, pending} \subseteq {NoTip} \cup [index : 1..(MaxX + 1), x : Xs]
    /\ rafDue \in BOOLEAN
    /\ marked = NoSelection \/
         (marked.from \in Xs /\ marked.to \in marked.from..MaxX)
    /\ isDragging \in BOOLEAN /\ dragStartX \in Xs
    /\ lastHoveredX \in Xs \cup {NoX} /\ unheard \in BOOLEAN

-----------------------------------------------------------------------------
\* bisectDate, from the second point on: the last point before x, or the first.
Before(pts, x) ==
    LET from == {i \in 1..Len(pts) : i = Len(pts) \/ pts[i + 1] >= x}
    IN CHOOSE i \in from : \A j \in from : i <= j

ResolveIndexBefore(pts, x) == IF pts = <<>> THEN 0 ELSE Before(pts, x)     \* mutant

\* resolveIndexFromX: the nearer of the two neighbours, 0 without data.
ResolveIndex(pts, x) ==
    IF pts = <<>> THEN 0
    ELSE LET i == Before(pts, x)
         IN IF i < Len(pts) /\ x - pts[i] > pts[i + 1] - x THEN i + 1 ELSE i

ResolveTooltip(pts, x) ==
    IF pts = <<>> THEN NoTip
    ELSE LET i == ResolveIndex(pts, x) IN [index |-> i, x |-> pts[i]]

\* Mutant: the key stays with the chart that no longer shows it.
ClearTooltipKeepingKey == tooltipData' = NoTip /\ pending' = NoTip /\ rafDue' = FALSE /\ UNCHANGED lastKey

ClearTooltip == tooltipData' = NoTip /\ lastKey' = NoTip /\ pending' = NoTip /\ rafDue' = FALSE

\* scheduleTooltip: a tooltip is its key.
Schedule(tip) ==
    /\ UNCHANGED <<tooltipData, lastKey>>
    /\ pending' = tip
    /\ rafDue' = (rafDue \/ tip # lastKey)

Least(a, b) == IF a < b THEN a ELSE b
Most(a, b) == IF a < b THEN b ELSE a

SelectSwapped(a, b) == [from |-> a, to |-> b]                       \* mutant

SelectRange(a, b) == [from |-> Least(a, b), to |-> Most(a, b)]

PointerInit ==
    /\ points \in Scales /\ interactive \in BOOLEAN
    /\ mouse = "away" /\ fingers = 0
    /\ tooltipData = NoTip /\ lastKey = NoTip /\ pending = NoTip /\ rafDue = FALSE
    /\ marked = NoSelection /\ isDragging = FALSE /\ dragStartX = 0 /\ lastHoveredX = NoX
    /\ unheard = FALSE

tooltipVars == <<tooltipData, lastKey, pending, rafDue>>
pointers == <<mouse, fingers>>
chart == <<points, interactive>>

\* A hover at x: nothing is scheduled, and nothing cleared, without data.
HoverAt(x) ==
    /\ lastHoveredX' = x
    /\ IF points = <<>> THEN UNCHANGED tooltipVars ELSE Schedule(ResolveTooltip(points, x))

-----------------------------------------------------------------------------
(* The mouse.                                                                  *)

\* handleMouseMove
MouseMove(x) ==
    /\ fingers = 0
    /\ mouse' = IF mouse = "away" THEN "over" ELSE mouse
    /\ IF ~interactive THEN UNCHANGED <<tooltipVars, marked, lastHoveredX>>
       ELSE IF isDragging
       THEN marked' = SelectRange(dragStartX, x) /\ UNCHANGED <<tooltipVars, lastHoveredX>>
       ELSE HoverAt(x) /\ UNCHANGED marked
    /\ UNCHANGED <<chart, fingers, isDragging, dragStartX, unheard>>

\* Mutant: a drag goes on outside the chart.
MouseLeaveDragging ==
    /\ mouse # "away" /\ mouse' = "away"
    /\ IF interactive
       THEN /\ ClearTooltip
            /\ lastHoveredX' = NoX /\ UNCHANGED <<isDragging, marked, unheard>>
       ELSE UNCHANGED <<tooltipVars, lastHoveredX, isDragging, marked>> /\ unheard' = TRUE
    /\ UNCHANGED <<chart, fingers, dragStartX>>

\* handleMouseLeave
MouseLeave ==
    /\ mouse # "away" /\ mouse' = "away"
    /\ IF interactive
       THEN /\ ClearTooltip
            /\ lastHoveredX' = NoX /\ isDragging' = FALSE /\ marked' = NoSelection
            /\ UNCHANGED unheard
       ELSE UNCHANGED <<tooltipVars, lastHoveredX, isDragging, marked>> /\ unheard' = TRUE
    /\ UNCHANGED <<chart, fingers, dragStartX>>

\* handleMouseDown
MouseDown(x) ==
    /\ mouse = "over" /\ mouse' = "down"
    /\ IF interactive
       THEN /\ ClearTooltip
            /\ isDragging' = TRUE /\ dragStartX' = x /\ marked' = NoSelection
       ELSE UNCHANGED <<tooltipVars, isDragging, dragStartX, marked>>
    /\ UNCHANGED <<chart, fingers, lastHoveredX, unheard>>

\* handleMouseUp
MouseUp ==
    /\ mouse = "down" /\ mouse' = "over"
    /\ IF interactive THEN isDragging' = FALSE /\ marked' = NoSelection /\ UNCHANGED unheard
       ELSE UNCHANGED <<isDragging, marked>> /\ unheard' = TRUE
    /\ UNCHANGED <<chart, fingers, tooltipVars, dragStartX, lastHoveredX>>

-----------------------------------------------------------------------------
(* Fingers.                                                                    *)

\* handleTouchStart; x1 is where the second finger is, when there is one.
TouchStart(x0, x1) ==
    /\ mouse = "away" /\ fingers < 2 /\ fingers' = fingers + 1
    /\ fingers' = 1 => x1 = x0
    /\ IF ~interactive THEN UNCHANGED <<tooltipVars, marked, lastHoveredX>>
       ELSE IF fingers' = 1 THEN HoverAt(x0) /\ UNCHANGED marked
       ELSE ClearTooltip /\ marked' = SelectRange(x0, x1) /\ UNCHANGED lastHoveredX
    /\ UNCHANGED <<chart, mouse, isDragging, dragStartX, unheard>>

\* handleTouchMove
TouchMove(x0, x1) ==
    /\ fingers > 0 /\ interactive
    /\ fingers = 1 => x1 = x0
    /\ IF fingers = 1 THEN HoverAt(x0) /\ UNCHANGED marked
       ELSE marked' = SelectRange(x0, x1) /\ UNCHANGED <<tooltipVars, lastHoveredX>>
    /\ UNCHANGED <<chart, pointers, isDragging, dragStartX, unheard>>

\* handleTouchEnd, whichever finger it was; the hovered x stays.
TouchEnd ==
    /\ fingers > 0 /\ fingers' = fingers - 1
    /\ IF interactive THEN ClearTooltip /\ marked' = NoSelection /\ UNCHANGED unheard
       ELSE UNCHANGED <<tooltipVars, marked>> /\ unheard' = TRUE
    /\ UNCHANGED <<chart, mouse, isDragging, dragStartX, lastHoveredX>>

-----------------------------------------------------------------------------
(* Between the events.                                                         *)

\* The frame commits what is pending.
AnimationFrame ==
    /\ rafDue /\ rafDue' = FALSE
    /\ IF pending \notin {NoTip, lastKey} THEN tooltipData' = pending /\ lastKey' = pending
       ELSE UNCHANGED <<tooltipData, lastKey>>
    /\ UNCHANGED <<chart, pointers, pending, marked, isDragging, dragStartX, lastHoveredX, unheard>>

\* The effect that anchors the tooltip anew.
Reanchor(pts, can) ==
    IF ~can \/ lastHoveredX = NoX THEN UNCHANGED tooltipVars
    ELSE IF pts = <<>> THEN ClearTooltip ELSE Schedule(ResolveTooltip(pts, lastHoveredX))

\* Data or scale, or the phase of the chart, changes.
RescaleChart ==
    /\ points' \in Scales \ {points}
    /\ Reanchor(points', interactive)
    /\ UNCHANGED <<interactive, pointers, marked, isDragging, dragStartX, lastHoveredX, unheard>>

ChangeInteractive ==
    /\ interactive' = ~interactive
    /\ Reanchor(points, interactive')
    /\ UNCHANGED <<points, pointers, marked, isDragging, dragStartX, lastHoveredX, unheard>>

PointerNext ==
    \/ \E x \in Xs : MouseMove(x) \/ MouseDown(x)
    \/ MouseLeave \/ MouseUp \/ TouchEnd
    \/ \E x0, x1 \in Xs : TouchStart(x0, x1) \/ TouchMove(x0, x1)
    \/ AnimationFrame \/ RescaleChart \/ ChangeInteractive

PointerSpec == PointerInit /\ [][PointerNext]_pointerVars

-----------------------------------------------------------------------------
NoBand == [x |-> 0, width |-> 0, isActive |-> FALSE]
SegmentBoundsAhead ==                                               \* mutant
    LET i == tooltipData.index
        from == Least(Len(points), i + 1)
    IN IF points = <<>> \/ tooltipData = NoTip THEN NoBand
       ELSE [x |-> points[from], width |-> 0, isActive |-> TRUE]

\* computeSegmentBounds: a selection goes before the tooltip.
SegmentBounds ==
    LET i == tooltipData.index
        from == IF i > 1 THEN i - 1 ELSE 1
        to == Least(Len(points), i + 1)
    IN IF points = <<>> THEN NoBand
       ELSE IF marked # NoSelection
       THEN [x |-> marked.from, width |-> marked.to - marked.from, isActive |-> TRUE]
       ELSE IF tooltipData = NoTip \/ from > Len(points) THEN NoBand
       ELSE [x |-> points[from], width |-> Most(0, points[to] - points[from]), isActive |-> TRUE]

\* What a chart that takes the pointer shows between two frames is the point
\* nearest to where the pointer was last, on the data and the scale of now,
\* however many events, commits and changes of data a frame brought together.
TooltipOnNearest ==
    interactive /\ ~rafDue /\ tooltipData # NoTip =>
        /\ lastHoveredX # NoX /\ points # <<>>
        /\ tooltipData = ResolveTooltip(points, lastHoveredX)
        /\ \A i \in 1..Len(points) :
              Most(lastHoveredX - tooltipData.x, tooltipData.x - lastHoveredX)
                  <= Most(lastHoveredX - points[i], points[i] - lastHoveredX)

\* The key that withholds a tooltip is the key of the one that is shown: a chart
\* that shows none withholds none.
WithholdsShownOnly == lastKey = tooltipData

\* The band of a chart that takes the pointer lies about the point of the tooltip.
BandAboutPoint ==
    interactive /\ ~rafDue /\ tooltipData # NoTip /\ marked = NoSelection =>
        /\ SegmentBounds.isActive
        /\ SegmentBounds.x <= tooltipData.x /\ tooltipData.x <= SegmentBounds.x + SegmentBounds.width

\* A range is selected only while a button or two fingers hold it, unless the
\* chart stopped listening before they were lifted.
SelectionHeld ==
    marked # NoSelection => unheard \/ (isDragging /\ mouse = "down") \/ fingers = 2
=============================================================================
