---------------------------- MODULE TooltipPanel ----------------------------
(* The tooltip of a chart: the panel that TooltipBox lays out beside the point *)
(* from the width it measured, and the pill whose stacks of months and days    *)
(* DateTicker scrolls to the hovered row.  A render, its layout effect, its     *)
(* effects and the renders they cause are one step.                            *)
EXTENDS Integers, Sequences, FiniteSetsExt

CONSTANTS Contents,       \* sizes [w, h] of the panel's content
          DefaultSize,    \* the size before the first measurement
          BoxWidth, BoxHeight, Offset, TipXs, TipYs,
          Months, MaxLabels,
          CompactAbove    \* above this many labels the pill is a single label

\* A point lies in the box: its place among the marks, with the margin beside them.
ASSUME TooltipAssumption ==
    /\ TipXs \subseteq 0..BoxWidth /\ TipYs \subseteq Int
    /\ {BoxWidth, BoxHeight, Offset, MaxLabels, CompactAbove} \subseteq Nat
    /\ Contents \cup {DefaultSize} \subseteq [w : Nat, h : Nat]

VARIABLES motion,     \* whether the panel is animated, which its props decide
          sideways,   \* a chart of horizontal bars
          labels,     \* the month of each row's label; its day is the row
          tipPoint,   \* the tooltip: its row and its place, NoPoint without one
          content,    \* the size of what the panel shows
          measured,   \* tooltipWidthRef, tooltipHeightRef
          panel,      \* where the panel goes
          flipped,    \* shouldFlipX of the last render: the side it enters from
          months      \* the month stack: the segment scrolled to, -1 before the first

panelVars == <<motion, sideways, labels, tipPoint, content, measured, panel, flipped, months>>

NoPoint == [row |-> 0, x |-> 0, y |-> 0]
NoPanel == [left |-> 0, top |-> 0]
MarginTop == 1

Flip(x, size) == x + size.w + Offset > BoxWidth

\* Beside the point, on its left where the right has no room; vertically about the
\* point and inside the box, unless the top is given.
LeftWithoutWidth(x, size) == IF Flip(x, size) THEN x - Offset ELSE x + Offset
LeftOf(x, size) == IF Flip(x, size) THEN x - Offset - size.w ELSE x + Offset
TopOf(y, size) == Max({Offset, Min({y - size.h \div 2, BoxHeight - size.h - Offset})})
Place(point, size) ==
    [left |-> LeftOf(point.x, size),
     top |-> IF motion /\ ~sideways THEN MarginTop
             ELSE TopOf(IF sideways THEN point.y ELSE MarginTop, size)]

\* A render of the panel: `before` is what was measured earlier, `fresh` tells that the
\* layout effect runs (a mount, or another place), `entered` that the panel is mounted.
RenderPanel(point, size, before, fresh, entered) ==
    LET flip0 == Flip(point.x, before)
        now == IF fresh THEN size ELSE before
        flip1 == Flip(point.x, now)
        \* the static position is a state and renders again, and so does a new flip key
        again == (fresh /\ ~motion) \/ (~entered /\ flip0 # flipped)
    IN  /\ measured' = now
        /\ panel' = IF fresh \/ motion THEN Place(point, now) ELSE panel
        /\ flipped' = IF again THEN flip1 ELSE flip0

\* The runs of rows of one month.
MonthStartsDistinct(ls) == {i \in DOMAIN ls : \A j \in 1..(i - 1) : ls[j] # ls[i]}
MonthStarts(ls) == {i \in DOMAIN ls : i = 1 \/ ls[i - 1] # ls[i]}
MonthSegments(ls) == [k \in 1..Cardinality(MonthStarts(ls)) |->
                        ls[CHOOSE i \in MonthStarts(ls) : Cardinality({j \in MonthStarts(ls) : j <= i}) = k]]
\* The segment of a row, counted from 0; 0 for a row that is gone.
MonthIndex(ls, row) ==
    IF row > Len(ls) THEN 0 ELSE Max({0, Cardinality({i \in MonthStarts(ls) : i <= row}) - 1})

\* A render of the pill, which horizontal bars do not have; the stack of an unmounted
\* pill begins anew.
Ticking(ls) == ~sideways /\ Len(ls) <= CompactAbove
RenderPill(ls, row) == months' = IF ~Ticking(ls) THEN -1 ELSE MonthIndex(ls, row)

TooltipInit ==
    /\ motion \in BOOLEAN /\ sideways \in BOOLEAN
    /\ labels \in UNION {[1..n -> Months] : n \in 1..MaxLabels}
    /\ tipPoint = NoPoint /\ content = DefaultSize /\ measured = DefaultSize /\ panel = NoPanel
    /\ flipped = FALSE /\ months = -1

Points == [row : DOMAIN labels, x : TipXs, y : TipYs]

\* The first hover mounts the panel and the pill.
ShowPoint ==
    /\ tipPoint = NoPoint /\ tipPoint' \in Points /\ content' \in Contents
    /\ RenderPanel(tipPoint', content', DefaultSize, TRUE, TRUE)
    /\ RenderPill(labels, tipPoint'.row)
    /\ UNCHANGED <<motion, sideways, labels>>

MovePoint ==
    /\ tipPoint # NoPoint /\ tipPoint' \in Points \ {tipPoint} /\ content' \in Contents
    /\ RenderPanel(tipPoint', content', measured, tipPoint'.x # tipPoint.x \/ (sideways /\ tipPoint'.y # tipPoint.y), FALSE)
    /\ RenderPill(labels, tipPoint'.row)
    /\ UNCHANGED <<motion, sideways, labels>>

\* Other rows under a tooltip that stays: the layout effect does not run.
ChangeLabels ==
    /\ labels' \in {Append(labels, m) : m \in Months} \cup {SubSeq(labels, 2, Len(labels))}
    /\ Len(labels') \in 1..MaxLabels
    /\ IF tipPoint = NoPoint THEN UNCHANGED <<content, measured, panel, flipped, months>>
       ELSE /\ content' \in Contents
            /\ RenderPanel(tipPoint, content', measured, FALSE, FALSE)
            /\ RenderPill(labels', tipPoint.row)
    /\ UNCHANGED <<motion, sideways, tipPoint>>

HidePoint ==
    /\ tipPoint # NoPoint /\ tipPoint' = NoPoint
    /\ content' = DefaultSize /\ measured' = DefaultSize /\ panel' = NoPanel
    /\ flipped' = FALSE /\ months' = -1
    /\ UNCHANGED <<motion, sideways, labels>>

TooltipNext == ShowPoint \/ MovePoint \/ ChangeLabels \/ HidePoint

(* The panel never covers the point and stays in the box where the box has     *)
(* room on either side, for what it measured; what it shows may have grown     *)
(* since, for a panel that does not move is not measured again.                *)
PanelBesidePoint ==
    tipPoint # NoPoint /\ measured = content =>
        LET right == panel.left + content.w
        IN  /\ right + Offset <= tipPoint.x \/ tipPoint.x + Offset <= panel.left
            /\ content.w + Offset <= tipPoint.x \/ tipPoint.x + Offset + content.w <= BoxWidth
                 => 0 <= panel.left /\ right <= BoxWidth
            /\ sideways /\ content.h + 2 * Offset <= BoxHeight
                 => Offset <= panel.top /\ panel.top + content.h + Offset <= BoxHeight

(* The pill shows the month of the hovered row beside its day, also where a    *)
(* month returns after another and when the rows change under the pointer.     *)
PillShowsLabel ==
    tipPoint # NoPoint /\ tipPoint.row <= Len(labels) /\ Ticking(labels) =>
        months + 1 \in DOMAIN MonthSegments(labels) /\ MonthSegments(labels)[months + 1] = labels[tipPoint.row]
=============================================================================
