------------------------------ MODULE TimeAxis ------------------------------
(* The dates under a time series chart (x-axis.tsx): which rows get a tick     *)
(* label, what a brush (filter-data-by-x-domain.ts) and a projection past the  *)
(* last row change about it, and which labels make way for the hovered date.   *)
(* Times are multiples of 12, so that the divisions of the code are exact; a   *)
(* pixel is a unit of time; a label is its day.  Bounds: MaxRows and the sets  *)
(* Gaps and TickCounts.                                                        *)
EXTENDS Integers, Sequences, FiniteSets, SequencesExt, FiniteSetsExt, Subsequences

CONSTANTS MaxRows, Gaps, TickCounts, Day,
    MaxGapLayouts,  \* MAX_GAP_LAYOUTS
    TickerHalf      \* tickerHalfWidth

ASSUME AxisAssumption ==
    /\ MaxRows \in Nat /\ MaxGapLayouts \in Nat /\ TickerHalf \in Nat /\ Day \in Nat \ {0}
    /\ TickCounts \subseteq 2..5 /\ \A g \in Gaps : g \in Nat /\ g % 12 = 0

VARIABLES
    rowTimes,   \* plotData, ascending
    horizon,    \* the end of the projection, 0 without one
    brush,      \* xDomain, or NoBrush
    numTicks, tickMode,
    hovered     \* the row of the tooltip, 0 without one

axisVars == <<rowTimes, horizon, brush, numTicks, tickMode, hovered>>

NoBrush == [from |-> 0, to |-> 0]
Later(t, u) == IF t < u THEN u ELSE t

\* visiblePlotData, and the domain of xScale: the brush, or rows and projection.
FilterDataByXDomain == Kept(rowTimes, {i \in DOMAIN rowTimes : brush.from <= rowTimes[i] /\ rowTimes[i] <= brush.to})
Visible == IF brush = NoBrush THEN rowTimes ELSE FilterDataByXDomain
XDomain ==
    IF brush # NoBrush THEN brush
    ELSE IF rowTimes = <<>> THEN [from |-> 0, to |-> horizon]
    ELSE [from |-> rowTimes[1], to |-> Later(Last(rowTimes), horizon)]

\* A finite set in the order of `before`.
InOrder(S, before(_, _)) ==
    [k \in 1..Cardinality(S) |-> CHOOSE a \in S : Cardinality({b \in S : before(b, a)}) = k - 1]

AxisLabel(t) == t \div Day
Tick(t) == [date |-> t, x |-> t - XDomain.from, label |-> AxisLabel(t)]

\* The ticks whose label none before them has.
FirstOfLabel(ticks) ==
    FoldLeft(LAMBDA seen, k : IF \E j \in 1..Len(seen) : seen[j].label = k.label
                              THEN seen ELSE Append(seen, k), <<>>, ticks)

-----------------------------------------------------------------------------
(* Which rows: a layout is the set of its 0-based indices, 0 and the last      *)
(* among them.                                                                 *)

\* binomial
Choose(n, k) ==
    LET ways[j \in 0..k] == IF j = 0 THEN 1 ELSE (ways[j - 1] * (n - j + 1)) \div j
    IN IF k < 0 \/ k > n THEN 0 ELSE ways[k]

\* indicesForTickCount: Math.round of even steps.
IndicesForTickCount(length, tickCount) ==
    {(2 * i * (length - 1) + tickCount - 1) \div (2 * (tickCount - 1)) : i \in 0..(tickCount - 1)}

\* allIndexLayouts: every way to split the span into gaps, or the rounded one.
AllIndexLayouts(length, tickCount) ==
    IF Choose(length - 2, tickCount - 2) > MaxGapLayouts THEN {IndicesForTickCount(length, tickCount)}
    ELSE {mid \cup {0, length - 1} : mid \in kSubset(tickCount - 2, 1..(length - 2))}

\* The order they are tried in: fewer ticks first, then by their first difference.
TriedBefore(l, m) ==
    \/ Cardinality(l) < Cardinality(m)
    \/ /\ Cardinality(l) = Cardinality(m) /\ l # m
       /\ Min((l \ m) \cup (m \ l)) \in l

\* dedupeIndicesByLabel
DedupeByLabel(layout, times) ==
    {i \in layout : \A j \in layout : j < i => AxisLabel(times[j + 1]) # AxisLabel(times[i + 1])}

\* indexGaps, and the gaps of the same labels on screen.
Differences(places) == [g \in 1..(Len(places) - 1) |-> places[g + 1] - places[g]]
IndexGaps(layout) == Differences(InOrder(layout, <))
GapsOnScreen(layout, times) ==
    LET order == InOrder(layout, <) IN Differences([k \in 1..Len(order) |-> times[order[k] + 1]])

\* Mutant: the gaps between indices, not on screen.
ScoreByIndex(layout, times, target) ==
    LET n == Cardinality(layout) - 1
        gaps == ToSet(IndexGaps(layout))
    IN [num |-> Max(gaps) - Min(gaps), den |-> n, away |-> 0, mirrored |-> 0, n |-> n, edge |-> 0]

Apart(a, b) == IF a < b THEN b - a ELSE a - b

\* The score of the gaps xs on screen and `gaps` in rows, `away` ticks too many
\* or too few.
ScoreGaps(xs, gaps, away) ==
    LET n == Len(gaps)
        total == FoldLeft(+, 0, xs)
        smallest == Min({g \in 1..n : \A h \in 1..n : gaps[g] <= gaps[h]})
        interior == IF 1 < smallest /\ smallest < n THEN 8 ELSE 0
        mirrored == FoldLeft(+, 0, [g \in 1..n |-> Apart(gaps[g], gaps[n + 1 - g])])
        spread == Max(ToSet(xs)) - Min(ToSet(xs))
        mean == IF total > 0 THEN total ELSE n
    IN [num |-> 100 * spread * n * n + (10 * away + interior) * mean * n + 2 * mirrored * mean,
        den |-> mean * n, away |-> away, mirrored |-> mirrored, n |-> n,
        edge |-> IF smallest = n THEN 0 ELSE IF smallest = 1 THEN 1 ELSE 2]

\* scoreTickLayout, a hundred times its value, as a fraction: the spread of the
\* gaps on screen, the ticks too many or too few, the smallest gap inside, and
\* how far the gaps are from a mirror image of themselves.
ScoreTickLayout(layout, times, target) ==
    ScoreGaps(GapsOnScreen(layout, times), IndexGaps(layout),
              Apart(Cardinality(layout), target))

\* isBetterTickLayout; its tolerance is below any difference of the bounds.
IsBetterTickLayout(new, best) ==
    LET n == new.num * best.den
        b == best.num * new.den
        ns == new.mirrored * best.n
        bs == best.mirrored * new.n
    IN \/ n < b
       \/ n = b /\ new.away < best.away
       \/ n = b /\ new.away = best.away /\ ns < bs
       \/ n = b /\ new.away = best.away /\ ns = bs /\ new.edge < best.edge

\* selectEvenlySpacedIndices
SelectEvenlySpaced(times, target) ==
    IF Len(times) <= target THEN 0..(Len(times) - 1)
    ELSE LET layouts == UNION {AllIndexLayouts(Len(times), k) :
                               k \in Later(2, target - 1)..Min({Len(times), target + 1})}
             tried == InOrder(layouts, TriedBefore)
             better(best, raw) ==
                 LET l == DedupeByLabel(raw, times)
                 IN IF Cardinality(l) >= 2 /\ IsBetterTickLayout(ScoreTickLayout(l, times, target),
                                                                ScoreTickLayout(best, times, target))
                    THEN l ELSE best
         IN FoldLeft(better, IndicesForTickCount(Len(times), target), tried)

-----------------------------------------------------------------------------
(* The labels of the axis.                                                     *)

TicksOn(rows, times) == FirstOfLabel([k \in 1..Len(rows) |-> Tick(times[rows[k] + 1])])
BuildDataAlignedTicks(times) == TicksOn(InOrder(SelectEvenlySpaced(times, numTicks), <), times)

BuildDomainTicks ==
    LET step == (XDomain.to - XDomain.from) \div (numTicks - 1)
    IN FirstOfLabel([k \in 1..numTicks |-> Tick(XDomain.from + (k - 1) * step)])

DomainExtendsPastData == Visible # <<>> /\ XDomain.to > Last(Visible)

\* Mutant: the dates of the tail again from the start of the rows.
TailFromFirstRow(ticks, extra) ==
    LET step == (XDomain.to - Visible[1]) \div (extra + 1)
        tail == FirstOfLabel(ticks \o [k \in 1..(extra + 1) |->
                    Tick(IF k > extra THEN XDomain.to ELSE Visible[1] + k * step)])
    IN InOrder(ToSet(tail), LAMBDA k, l : k.x < l.x)

\* appendProjectionTailTicks: `extra` dates between the last row and the end of
\* the domain, and the end, those whose label is not there yet.
AppendProjectionTail(ticks, extra) ==
    LET last == Last(Visible)
        step == (XDomain.to - last) \div (extra + 1)
        tail == FirstOfLabel(ticks \o [k \in 1..(extra + 1) |->
                    Tick(IF k > extra THEN XDomain.to ELSE last + k * step)])
    IN InOrder(ToSet(tail), LAMBDA k, l : k.x < l.x)

\* labelsToShow
WithTail(ticks) ==
    IF DomainExtendsPastData
    THEN AppendProjectionTail(ticks, Min({3, Later(1, numTicks - Len(ticks) + 1)}))
    ELSE ticks
LabelsToShow ==
    IF tickMode = "domain" \/ (DomainExtendsPastData /\ brush = NoBrush) THEN BuildDomainTicks
    ELSE WithTail(BuildDataAlignedTicks(Visible))

\* Mutant: the label of the hovered row is looked for by its position.
LabelHiddenAtCrosshair(k) ==
    /\ hovered # 0
    /\ LET d == k.x - Tick(Visible[hovered]).x IN -TickerHalf < d /\ d < TickerHalf

\* XAxisLabel's opacity is 0: under the date that follows the pointer, or the
\* same date.
LabelHidden(k) ==
    /\ hovered # 0
    /\ LET at == Tick(Visible[hovered])
           d == k.x - at.x
       IN (-TickerHalf < d /\ d < TickerHalf) \/ k.label = at.label

-----------------------------------------------------------------------------
AxisInit ==
    /\ rowTimes = <<>> /\ horizon = 0 /\ brush = NoBrush /\ hovered = 0
    /\ numTicks \in TickCounts /\ tickMode \in {"data", "domain"}

\* Other rows, projection or brush; the tooltip's part of it is ChartPointer's.
NewRow(g) ==
    /\ Len(rowTimes) < MaxRows
    /\ rowTimes' = Append(rowTimes, IF rowTimes = <<>> THEN Day ELSE Last(rowTimes) + g)
    /\ horizon' = 0 /\ brush' = NoBrush /\ hovered' = 0
    /\ UNCHANGED <<numTicks, tickMode>>

Project(g) ==
    /\ rowTimes # <<>> /\ horizon' = Last(rowTimes) + g /\ hovered' = 0 /\ brush' = NoBrush
    /\ UNCHANGED <<rowTimes, numTicks, tickMode>>

\* Mutant: the hovered row is that of another slice.
BrushHovering(from, to) ==
    /\ from < to /\ brush' = [from |-> from, to |-> to]
    /\ UNCHANGED <<rowTimes, horizon, numTicks, tickMode, hovered>>

\* A brush, over rows and projection.
Brush(from, to) ==
    /\ from < to /\ brush' = [from |-> from, to |-> to] /\ hovered' = 0
    /\ UNCHANGED <<rowTimes, horizon, numTicks, tickMode>>

\* The pointer over a row, or away.
HoverRow(i) == hovered' = i /\ UNCHANGED <<rowTimes, horizon, brush, numTicks, tickMode>>

AxisNext ==
    \/ \E g \in Gaps : NewRow(g) \/ Project(g)
    \/ \E from \in ToSet(rowTimes), to \in ToSet(rowTimes) \cup {horizon} : Brush(from, to)
    \/ \E i \in 0..Len(Visible) : HoverRow(i)

AxisSpec == AxisInit /\ [][AxisNext]_axisVars

-----------------------------------------------------------------------------
AxisTypeOK ==
    /\ Len(rowTimes) <= MaxRows /\ \A i \in 1..Len(rowTimes) : rowTimes[i] \in Nat
    /\ horizon \in Nat /\ brush.from <= brush.to
    /\ numTicks \in TickCounts /\ tickMode \in {"data", "domain"}
    /\ hovered \in 0..Len(Visible)

\* Labels that a reader can follow, over rows or past the last of them.
Readable(ticks) ==
    \A k \in 1..Len(ticks) :
        /\ ticks[k].x \in 0..(XDomain.to - XDomain.from)
        /\ k > 1 => ticks[k - 1].x < ticks[k].x /\ ticks[k - 1].label < ticks[k].label
        /\ tickMode = "data" /\ (brush # NoBrush \/ ~DomainExtendsPastData) =>
             ticks[k].date \in ToSet(Visible) \/ ticks[k].date > Last(Visible)

\* The labels read from left to right and never twice: whatever mode chose
\* them and whatever the projection added, they lie in the domain, in the order
\* of their dates, one to a day; and in data mode each of them that is not past
\* the last row stands on a row, where the crosshair can stop.
TicksReadable == Readable(LabelsToShow)

\* The layouts of numTicks labels at even distances on screen, with a day of its own each.
EvenOnScreen(l) == Cardinality(ToSet(GapsOnScreen(l, Visible))) = 1
EvenLayouts ==
    {l \in AllIndexLayouts(Len(Visible), numTicks) : EvenOnScreen(l) /\ DedupeByLabel(l, Visible) = l}
EvenShown == Len(LabelsToShow) = numTicks /\ EvenOnScreen(SelectEvenlySpaced(Visible, numTicks))
OnRows == tickMode = "data" /\ Len(Visible) > numTicks /\ ~DomainExtendsPastData

\* Where there is such a layout, it or another just as even is shown, neither the
\* scoring nor the rounded layout it starts from misses it: provided its gaps in rows
\* read the same from both ends and none inside is the smallest, for the score
\* weighs these too.
EvenWhenPossible ==
    OnRows => \A l \in EvenLayouts :
        LET gaps == IndexGaps(l) IN gaps = Reverse(gaps) /\ gaps[1] = Min(ToSet(gaps)) => EvenShown

\* "Picks tick indices with the most even on-screen spacing" (x-axis.tsx:312): refuted, of rows
\* at 1, 32, 33, 65, 97 the first and the last three are even, and 1, 32, 65, 97 are shown:
\* the smallest of their gaps in rows is at an end.
MostEvenOnScreen == OnRows /\ EvenLayouts # {} => EvenShown

\* A date is never written twice: while a row is hovered its date follows the
\* pointer, and no label of the axis that is still to be read repeats it, also
\* where that label stands on another row of the same day.
DateOnce ==
    hovered # 0 =>
        AxisLabel(Visible[hovered]) \notin {k.label : k \in {t \in ToSet(LabelsToShow) : ~LabelHidden(t)}}
=============================================================================
