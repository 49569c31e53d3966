------------------------------ MODULE BarChart ------------------------------
(* A bar chart: the same rows are turned into rectangles by Bar and BarSquares *)
(* and into tooltip dots by the mouse handler of the chart, each with its own   *)
(* copy of the geometry.  Lengths run from the baseline along the value axis,   *)
(* in units of which a pixel holds Pixel, so that every division is exact; the  *)
(* plot is a square.  Categories are distinct, both series use the left axis.   *)
EXTENDS Integers, Sequences, FiniteSetsExt

CONSTANTS BarValues,    \* values of a series at a row
          NoBar,        \* a value that is not a number
          MaxBars,      \* bound on the rows
          PlotSize, Pixel,  \* units of the plot's side and of a pixel
          GrowTicks,    \* ticks of animationDuration; the stagger spreads over 2
          StackGap      \* pixels of a stackGap that is not zero

\* The decades a domain may be of, and whether that of [0, 1.1 m] is of decade q, in hundredths.
Decades == {1, 10, 100, 1000, 10000}
OfDecade(m, q) == q <= 11 * m /\ 11 * m < 10 * q

\* The units are such that a band of any number of rows is a whole number of them, and so
\* small that a value above zero has a length; each value is of a decade.
ASSUME BarAssumption ==
    /\ {MaxBars, GrowTicks, Pixel, StackGap} \subseteq Nat /\ PlotSize \in Nat \ {0}
    /\ \A n \in 1..MaxBars : PlotSize % (5 * n + 1) = 0
    /\ BarValues \subseteq Int /\ \A v \in BarValues : v > 0 => 3 * v <= PlotSize /\ \E q \in Decades : OfDecade(v, q)

VARIABLES barProps, barRows, barStatus,
          loaded,       \* isLoaded
          revealIn,     \* ticks until the timer of the reveal, NoReveal without one
          growth,       \* ticks until each mounted bar is at its full length
          changedSince, \* the rows changed after the reveal began
          scheduled, hoverTip

barVars == <<barProps, barRows, barStatus, loaded, revealIn, growth, changedSince,
             scheduled, hoverTip>>

Series == {1, 2}
NoReveal == -1
NoBarTip == [index |-> 0, x |-> 0, dots |-> <<>>, at |-> -1]
OldTip == [NoBarTip EXCEPT !.index = -1]

\* horizontal, stacked, stackGap in units, and what draws the bars: Bar, or
\* BarSquares with or without squareFit (which draws nothing when horizontal or stacked).
BarProps ==
    {p \in [horizontal : BOOLEAN, stacked : BOOLEAN, gap : {0, StackGap * Pixel}, squares : {"none", "free", "fit"}] :
        /\ ~p.stacked => p.gap = 0
        /\ (p.horizontal \/ p.stacked) => p.squares = "none"}

BarNumber(v) == IF v = NoBar THEN 0 ELSE v
\* The sum of the series below series k: the offset of its segment.
StackOffset(row, k) == (IF k > 1 THEN BarNumber(row[1]) ELSE 0) + (IF k > 2 THEN BarNumber(row[2]) ELSE 0)

\* scaleBand with padding 0.2 inside and outside.
BandStep == (5 * PlotSize) \div (5 * Len(barRows) + 1)
BandPos(i) == BandStep \div 5 + (i - 1) * BandStep
BandWidth == (4 * BandStep) \div 5
GroupGap == 4 * Pixel
SeriesWidth == IF barProps.stacked THEN BandWidth ELSE (BandWidth - GroupGap) \div 2

\* nice() of the domain [0, 1.1 m], in hundredths: ten ticks of 1, 2, 5 or 10 times a power of ten.
NiceTop(m) ==
    LET d == 11 * m
        p == CHOOSE q \in Decades : OfDecade(m, q)
        step == p * (IF d * d >= 50 * p * p THEN 10
                     ELSE IF d * d >= 10 * p * p THEN 5
                     ELSE IF d * d >= 2 * p * p THEN 2 ELSE 1)
    IN  ((10 * d + step - 1) \div step) * step

OrHundred(m) == IF m = 0 THEN 100 ELSE m
\* On a vertical scale up to any value, each value is a whole number of units long.
ASSUME LengthAssumption ==
    \A v \in BarValues, m \in BarValues \cup {0} : m >= 0 => (v * 100 * PlotSize) % NiceTop(OrHundred(m)) = 0

MaxSingle == Max({0} \cup {BarNumber(barRows[i][s]) : i \in DOMAIN barRows, s \in Series})
MaxStacked == Max({0} \cup {StackOffset(barRows[i], 3) : i \in DOMAIN barRows})
\* The vertical scales take the largest single value, stacked or not.
ValueTop == NiceTop(OrHundred(IF barProps.horizontal /\ barProps.stacked THEN MaxStacked ELSE MaxSingle))
Along(v) == (v * 100 * PlotSize) \div ValueTop

\* A stack gap shifts a segment by one gap for each segment below it.
SegmentShiftBack(k) == -(k - 1) * barProps.gap
SegmentShift(k) == (k - 1) * barProps.gap

\* A bar of series k in row i that starts at `start` and is as long as its value.
RectFrom(i, k, start, length) ==
    LET trim == IF k = 1 THEN barProps.gap ELSE 0
        shown == IF trim > 0 THEN Max({0, length - trim}) ELSE length
        at == BandPos(i) + (IF barProps.stacked THEN 0 ELSE (k - 1) * (SeriesWidth + GroupGap))
        width == IF barProps.horizontal /\ barProps.stacked
                 THEN IF trim > 0 THEN Max({0, length - start - trim}) ELSE length - start
                 ELSE shown
        to == IF ~barProps.stacked THEN length
              ELSE IF barProps.horizontal THEN start + SegmentShift(k) + width ELSE start + length + SegmentShift(k)
    IN  [from |-> to - width, to |-> to, at |-> at, width |-> SeriesWidth]

\* What Bar draws for series k of row i: from, to along the values; at, width across.
BarRect(i, k) == RectFrom(i, k, Along(StackOffset(barRows[i], k)), Along(BarNumber(barRows[i][k])))

SquareCountRoundedUp(length, size, gap, fit) == Max({1, (length + size + gap) \div (size + gap)})
SquareCount(length, size, gap, fit) ==
    Max({1, IF fit THEN (length + gap) \div (size + gap) ELSE (2 * length + size + gap) \div (2 * (size + gap))})

\* The squares of a bar: their number, the height of the column and, times
\* `parts`, the distance from the column's top of each square's top, lowest first.
SquareColumn(length, fit) ==
    LET size == SeriesWidth  gap == 3 * Pixel
        count == SquareCount(length, size, gap, fit)
        height == IF fit THEN length ELSE count * size + (count - 1) * gap
        parts == IF fit /\ count > 1 THEN count - 1 ELSE 1
        step == parts * size + (IF fit THEN Max({0, length - count * size}) ELSE gap)
    IN  IF length <= 0 \/ size <= 0 THEN [count |-> 0, height |-> 0, parts |-> 1, tops |-> <<>>]
        ELSE [count |-> count, height |-> height, parts |-> parts,
              tops |-> [q \in 1..count |-> parts * (height - size) - (q - 1) * step]]

\* The centre of the top square, from the baseline.
TopSquareCentre(length, fit) ==
    LET column == SquareColumn(length, fit) IN IF column.count = 0 THEN 0 ELSE column.height - SeriesWidth \div 2

\* Where the bar of a series begins across, in the band of its row.
ColumnAt(i, k) == BandPos(i) + (k - 1) * (SeriesWidth + GroupGap)

\* What BarSquares draws for series k of row i, nothing unless the value is above zero.
SquaresOf(i, k) ==
    [column |-> SquareColumn(Along(BarNumber(barRows[i][k])), barProps.squares = "fit"), at |-> ColumnAt(i, k)]

\* The track above a column of squares reaches from the top of the plot to the column;
\* BarColumnTrack draws one for every value above zero.
TrackLength(length, fit) == Max({0, PlotSize - SquareColumn(length, fit).height})
TrackOf(i, k) ==
    [length |-> IF BarNumber(barRows[i][k]) <= 0 THEN 0
                ELSE TrackLength(Along(BarNumber(barRows[i][k])), barProps.squares = "fit"), at |-> ColumnAt(i, k)]

\* The dot of series k in the tooltip over row i: along the values, and across (which
\* the code leaves out where bars are stacked vertically).
DotAlongBelow(row, k) == Along(StackOffset(row, k))
DotAlong(row, k) ==
    LET before == Cardinality({s \in 1..(k - 1) : row[s] # NoBar})
    IN  IF barProps.stacked
        THEN Along(StackOffset(row, k) + row[k]) + (IF barProps.horizontal THEN 0 ELSE before * barProps.gap)
        ELSE IF barProps.squares # "none" /\ row[k] > 0
             THEN TopSquareCentre(Along(row[k]), barProps.squares = "fit")
             ELSE Along(row[k])
DotAcross(i, k) ==
    IF barProps.stacked THEN BandPos(i) + BandWidth \div 2
    ELSE BandPos(i) + (k - 1) * (SeriesWidth + GroupGap) + SeriesWidth \div 2
HoverDots(i) ==
    [k \in {s \in Series : barRows[i][s] # NoBar} |-> [along |-> DotAlong(barRows[i], k), across |-> DotAcross(i, k)]]

\* The row under a position: the plot is cut into equal columns.
HoverIndexRounded(pos) == Max({1, Min({Len(barRows), (2 * pos * Len(barRows) + 3 * PlotSize) \div (2 * PlotSize)})})
HoverIndex(pos) == Max({1, Min({Len(barRows), 1 + (pos * Len(barRows)) \div PlotSize})})

\* The key that spares a tooltip with the same row and the same rounded x.
BarTipKey(t) == <<t.index, (2 * t.x + Pixel) \div (2 * Pixel)>>

\* The squares of a column come one after the other, from the lowest to the top one:
\* squareCascadeStepSeconds spreads them over two ticks.
CascadeSpread == 2

\* The delay of bar i, or of the lowest square of column i, spreads two ticks over the rows.
GrowthFor(n) == [i \in 1..n |-> GrowTicks + (2 * (i - 1)) \div n]
RevealTicksUnstaggered(n) == GrowTicks
RevealTicks(n) == GrowTicks + (IF n > 1 THEN 2 ELSE 0)

\* The effect of the reveal: bars are mounted anew and a timer tells when they have grown.
RevealStillLoaded(status, rows) ==
    /\ changedSince' = FALSE /\ UNCHANGED loaded
    /\ revealIn' = IF status = "loading" THEN NoReveal ELSE RevealTicks(Len(rows))
    /\ growth' = IF status = "loading" THEN <<>> ELSE GrowthFor(Len(rows))
Reveal(status, rows) ==
    /\ loaded' = FALSE /\ changedSince' = FALSE
    /\ revealIn' = IF status = "loading" THEN NoReveal ELSE RevealTicks(Len(rows))
    /\ growth' = IF status = "loading" THEN <<>> ELSE GrowthFor(Len(rows))

BarRows == UNION {[1..n -> [Series -> BarValues \cup {NoBar}]] : n \in 0..MaxBars}
\* The rows of the next render: one more, or a single one.
NextRows == {rows \in {<<row>> : row \in [Series -> BarValues \cup {NoBar}]}
                       \cup {Append(barRows, row) : row \in [Series -> BarValues \cup {NoBar}]} : Len(rows) <= MaxBars}

\* A tooltip of rows that are gone is compared with nothing but by its key, which
\* may or may not be that of a tooltip of the new rows.
BarAged(t) == IF t = NoBarTip THEN t ELSE OldTip
SameKey(t, u) ==
    IF NoBarTip \in {t, u} THEN {FALSE} ELSE IF OldTip \in {t, u} THEN BOOLEAN ELSE {BarTipKey(t) = BarTipKey(u)}
TipsAgeWith(rows) ==
    IF rows = barRows THEN UNCHANGED <<scheduled, hoverTip>>
    ELSE scheduled' = BarAged(scheduled) /\ hoverTip' = BarAged(hoverTip)

Positions == {0, PlotSize} \cup UNION {{BandPos(i), BandPos(i) + BandWidth - 1} : i \in DOMAIN barRows}

BarInit ==
    /\ barProps \in BarProps /\ barStatus \in {"loading", "ready"} /\ barRows = <<>>
    /\ loaded = FALSE /\ changedSince = FALSE /\ growth = <<>>
    /\ revealIn = IF barStatus = "loading" THEN NoReveal ELSE RevealTicks(0)
    /\ scheduled = NoBarTip /\ hoverTip = NoBarTip

\* Where growth ends.
Grown == IF barProps.squares = "none" THEN 0 ELSE -CascadeSpread

\* The status, and with it possibly the rows, of the next render.
ChangeBarStatus ==
    /\ barStatus' \in {"loading", "ready"} \ {barStatus}
    /\ barRows' \in {barRows} \cup {rows \in NextRows : barStatus' = "ready"}
    /\ Reveal(barStatus', barRows') /\ TipsAgeWith(barRows')
    /\ UNCHANGED barProps

\* The animation duration or the signature of the reveal changes: it plays again.
Replay ==
    /\ barStatus = "ready" /\ Reveal(barStatus, barRows)
    /\ UNCHANGED <<barProps, barRows, barStatus, scheduled, hoverTip>>

\* Other rows with the same status: the effect does not run.
ChangeRows ==
    /\ barStatus = "ready" /\ barRows' \in NextRows \ {barRows}
    /\ changedSince' = TRUE /\ TipsAgeWith(barRows')
    /\ growth' = IF loaded /\ barProps.squares = "none" THEN <<>> ELSE GrowthFor(Len(barRows'))
    /\ UNCHANGED <<barProps, barStatus, loaded, revealIn>>

\* A tick of the animations; a timer that is due is not waited past.  Squares go on
\* after it: below zero is the time since the lowest square of a column was up.
BarTick ==
    /\ \/ revealIn > 0 /\ revealIn' = revealIn - 1
       \/ /\ revealIn = NoReveal /\ UNCHANGED revealIn
          /\ \E i \in DOMAIN growth : growth[i] > Grown
    /\ growth' = [i \in DOMAIN growth |-> Max({Grown, growth[i] - 1})]
    /\ UNCHANGED <<barProps, barRows, barStatus, loaded, changedSince, scheduled, hoverTip>>

RevealDone ==
    /\ revealIn = 0 /\ revealIn' = NoReveal /\ loaded' = TRUE
    /\ UNCHANGED <<barProps, barRows, barStatus, growth, changedSince, scheduled, hoverTip>>

\* handleMouseMove, heard once loaded.
BarMouseMove ==
    /\ loaded
    /\ barRows # <<>>
    /\ \E pos \in Positions :
        LET i == HoverIndex(pos)  dots == HoverDots(i)
            x == IF barProps.horizontal THEN Max({0} \cup {dots[k].along : k \in DOMAIN dots})
                 ELSE BandPos(i) + BandWidth \div 2
            tip == [index |-> i, x |-> x, dots |-> dots, at |-> pos]
        IN  \E same \in SameKey(tip, hoverTip) : scheduled' = IF same /\ scheduled = NoBarTip THEN scheduled ELSE tip
    /\ UNCHANGED <<barProps, barRows, barStatus, loaded, revealIn, growth, changedSince, hoverTip>>

\* The frame that commits the scheduled tooltip.
BarTipFrame ==
    /\ scheduled # NoBarTip /\ scheduled' = NoBarTip
    /\ \E same \in SameKey(scheduled, hoverTip) : hoverTip' = IF same THEN hoverTip ELSE [scheduled EXCEPT !.at = -1]
    /\ UNCHANGED <<barProps, barRows, barStatus, loaded, revealIn, growth, changedSince>>

\* handleMouseLeave, heard once loaded.
BarMouseLeave ==
    /\ loaded /\ scheduled' = NoBarTip /\ hoverTip' = NoBarTip
    /\ UNCHANGED <<barProps, barRows, barStatus, loaded, revealIn, growth, changedSince>>

BarNext ==
    \/ ChangeBarStatus \/ Replay \/ ChangeRows \/ BarTick \/ RevealDone
    \/ BarMouseMove \/ BarTipFrame \/ BarMouseLeave

(* The states of the chart: a timer only while it reveals, a growing bar for   *)
(* each row, a tooltip only after a hover.                                     *)
BarTypeOK ==
    /\ barProps \in BarProps /\ barRows \in BarRows
    /\ loaded => barStatus = "ready"
    /\ revealIn \in NoReveal..RevealTicks(2)
    /\ revealIn # NoReveal => barStatus = "ready" /\ ~loaded
    /\ Len(growth) \in {0, Len(barRows)}

\* The dot of series k of row i against the bar and the column of squares there.
DotOnBar(i, k, dot, rect, column) ==
    /\ dot.across * 2 = 2 * rect.at + rect.width
    /\ IF barProps.squares = "none" \/ barRows[i][k] <= 0
       THEN (barProps.gap > 0 => NoBar \notin {barRows[i][s] : s \in Series}) => dot.along = rect.to
       ELSE IF column.count = 0 THEN dot.along = 0
       ELSE (barProps.squares = "fit" => column.count > 1) =>
                dot.along = column.height - column.tops[column.count] \div column.parts - SeriesWidth \div 2

(* The dots of the tooltip lie on the ends of the bars, or on the top squares, *)
(* that Bar and BarSquares draw for the same rows.  Left out are three cases   *)
(* in which the two copies of the geometry do differ: horizontal stacks, a     *)
(* stack with gaps and a missing value, a fitted column of a single square.    *)
DotsOnBars ==
    hoverTip # NoBarTip /\ ~(barProps.horizontal /\ barProps.stacked) =>
        \A k \in DOMAIN hoverTip.dots :
            DotOnBar(hoverTip.index, k, hoverTip.dots[k], BarRect(hoverTip.index, k),
                     SquaresOf(hoverTip.index, k).column)

(* A pointer over the band of a bar is over that bar: the equal columns of the *)
(* handler hold the padded bands of the scale.                                 *)
HoverOverBand ==
    scheduled # NoBarTip =>
        \A i \in DOMAIN barRows : scheduled.at \in BandPos(i)..(BandPos(i) + BandWidth - 1) => scheduled.index = i

(* The segments of a vertical stack never overlap, whatever the gap.           *)
SegmentsApart ==
    barProps.stacked /\ ~barProps.horizontal =>
        \A i \in DOMAIN barRows : NoBar \notin {barRows[i][s] : s \in Series} => BarRect(i, 2).from >= BarRect(i, 1).to

(* The squares of a column do not overlap, the highest does not rise above the *)
(* column, and the track ends where the column begins; the columns of a row    *)
(* stand beside one another in its band, each under its own track.             *)
SquaresApart ==
    barProps.squares # "none" =>
        \A i \in DOMAIN barRows : \A k \in Series :
            LET squares == SquaresOf(i, k)  column == squares.column  track == TrackOf(i, k)
            IN  /\ \A q \in 1..(column.count - 1) : column.tops[q] - column.tops[q + 1] >= column.parts * SeriesWidth
                /\ column.count > 1 => column.tops[column.count] >= 0
                /\ column.count > 0 /\ column.height <= PlotSize => track.length + column.height = PlotSize
                /\ track.length > 0 /\ SeriesWidth > 0 => column.count > 0 /\ track.at = squares.at
                /\ BandPos(i) <= squares.at /\ squares.at + SeriesWidth <= BandPos(i) + BandWidth
                /\ k = 2 => SquaresOf(i, 1).at + SeriesWidth + GroupGap <= squares.at

(* When the chart turns to its static bars, every bar has grown to its length, *)
(* and so has the lowest square of every column (the squares above it are not   *)
(* waited for), unless the rows changed after the reveal began: the effect that *)
(* sets the timer does not look at them again.                                 *)
WholeReveal == loaded /\ ~changedSince => \A i \in DOMAIN growth : growth[i] <= 0
=============================================================================
