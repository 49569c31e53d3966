---------------------------- MODULE SeriesShape ----------------------------
(* What a time series chart draws of its rows: the line, thinned out to what    *)
(* the width can show (decimate-time-series.ts) and morphed from the line       *)
(* before (series-path-utils.ts), the projection from one of its rows           *)
(* (projection-utils.ts), and the domains of the axes that must show both       *)
(* (projection-config.ts, y-domain-utils.ts, y-axis-scales.ts).  One line and   *)
(* one projection; numbers are fractions [n, d].  A row without a number is     *)
(* NoValue.  Bounds: MaxHistory rows, of which MaxOdd without a number or a     *)
(* later time than the row before, and the sets Steps and Levels.               *)
EXTENDS Integers, Sequences, FiniteSets, SequencesExt, FiniteSetsExt, Subsequences

CONSTANTS MaxHistory, MaxOdd, Steps, Levels, NoValue,
    RenderPoints,   \* maxRenderPointsForWidth
    DayMs,          \* the interval of a series that has none
    HorizonPoints, EndValue

ASSUME ShapeAssumption ==
    /\ {MaxHistory, MaxOdd} \subseteq Nat /\ Steps \subseteq Int /\ Levels \subseteq Int /\ NoValue \notin Levels
    /\ RenderPoints \in Nat /\ RenderPoints >= 3  \* maxRenderPointsForWidth: 64 at least
    /\ DayMs \in Nat \ {0} /\ HorizonPoints \in Nat \ {0} /\ EndValue \in Int

VARIABLES
    past,    \* the rows, [t, y]
    settled,    \* the rows of the line that is on screen when `history` comes
    lineAxis,   \* the yAxisId of the line
    proj        \* the props of the projection

shapeVars == <<past, settled, lineAxis, proj>>

Axes == {"left", "right"}
Projections ==
    [mode : {"auto"}, autoMethod : {"linearRegression", "lastSegment"},
     pathDensity : {"endpoints", "stepped"}, startIndex : {0, 2}, yAxisId : {"left"}]
    \cup [mode : {"target"}, autoMethod : {"lastSegment"}, pathDensity : {"endpoints"},
          startIndex : {0}, yAxisId : Axes]

\* Euclid's algorithm, and a fraction in lowest terms.
Gcd[b \in Nat] == [a \in Nat |-> IF b = 0 THEN a ELSE Gcd[a % b][b]]
Magnitude(k) == IF k < 0 THEN -k ELSE k
Frac(n, d) ==
    LET g == Gcd[Magnitude(d)][Magnitude(n)]
    IN [n |-> (IF d < 0 THEN -n ELSE n) \div g, d |-> Magnitude(d) \div g]

Whole(k) == [n |-> k, d |-> 1]
Plus(a, b) == Frac(a.n * b.d + b.n * a.d, a.d * b.d)
Times(a, b) == Frac(a.n * b.n, a.d * b.d)
Leq(a, b) == a.n * b.d <= b.n * a.d
Greatest(S) == CHOOSE a \in S : \A b \in S : Leq(b, a)
Smallest(S) == CHOOSE a \in S : \A b \in S : Leq(a, b)

-----------------------------------------------------------------------------
(* decimateTimeSeries: by index, from 0.                                       *)

\* getY: a row without a number counts as its index.
RowY(rows, j) == IF rows[j + 1].y = NoValue THEN j ELSE rows[j + 1].y

\* Mutant: the signed area.
AreaSigned(rows, a, j, from, to) ==
    LET n == to - from
        sumX == FoldLeft(+, 0, [k \in 1..n |-> from + k - 1])
        sumY == FoldLeft(+, 0, [k \in 1..n |-> RowY(rows, from + k - 1)])
    IN (a * n - sumX) * (RowY(rows, j) - RowY(rows, a)) - (a - j) * (sumY - RowY(rows, a) * n)

\* Of the triangle between row a, row j and the average of rows from..to-1,
\* times that many rows: only areas over the same bucket are compared.
Area(rows, a, j, from, to) ==
    LET n == to - from
        sumX == FoldLeft(+, 0, [k \in 1..n |-> from + k - 1])
        sumY == FoldLeft(+, 0, [k \in 1..n |-> RowY(rows, from + k - 1)])
        twice == (a * n - sumX) * (RowY(rows, j) - RowY(rows, a)) - (a - j) * (sumY - RowY(rows, a) * n)
    IN IF twice < 0 THEN -twice ELSE twice

\* Where bucket i starts, the first row after it at most len.
BucketStart(len, i) == ((i + 1) * (len - 2)) \div (RenderPoints - 2) + 1

\* The row of bucket i with the largest area seen from row a; of an empty
\* bucket, the row after it.
RowOfBucket(rows, i, a) ==
    LET len == Len(rows)
        start == BucketStart(len, i)
        bucket == start..(Min({BucketStart(len, i + 1), len - 1}) - 1)
        next == BucketStart(len, i + 1)
        nextEnd == Min({BucketStart(len, i + 2), len})
        from == IF next < nextEnd THEN next ELSE len - 1
        to == IF next < nextEnd THEN nextEnd ELSE len
    IN IF bucket = {} THEN start
       ELSE CHOOSE j \in bucket : \A k \in bucket :
                LET aj == Area(rows, a, j, from, to)
                    ak == Area(rows, a, k, from, to)
                IN ak < aj \/ (ak = aj /\ j <= k)

\* decimateTimeSeries: the indices of the rows it keeps.
Decimated(rows) ==
    IF RenderPoints >= Len(rows) \/ RenderPoints < 3 THEN [i \in 1..Len(rows) |-> i - 1]
    ELSE Append(FoldLeft(LAMBDA kept, i : Append(kept, RowOfBucket(rows, i, Last(kept))),
                         <<0>>, [i \in 1..(RenderPoints - 2) |-> i - 1]),
                Len(rows) - 1)

-----------------------------------------------------------------------------
(* The projection.                                                             *)

\* resolveStartIndex, from 0: the last row when none, or a larger one, is given.
StartIndex(rows) == IF proj.startIndex = 0 THEN Len(rows) - 1 ELSE Min({proj.startIndex, Len(rows)}) - 1

\* Mutant: the distance of two rows, whichever comes first.
IntervalOfAnyRows(rows, start) ==
    IF start >= 1 THEN Whole(rows[start + 1].t - rows[start].t) ELSE Whole(DayMs)

\* resolveIntervalMs: of the row before, or on average, or a day.
IntervalMs(rows, start) ==
    LET adjacent == rows[start + 1].t - rows[start].t
        span == Last(rows).t - rows[1].t
    IN IF start >= 1 /\ adjacent > 0 THEN Whole(adjacent)
       ELSE IF Len(rows) >= 2 /\ span > 0 THEN Frac(span, Len(rows) - 1)
       ELSE Whole(DayMs)

\* linearRegressionSlope
RegressionSlope(points) ==
    LET n == Len(points)
        sum(f(_)) == FoldLeft(+, 0, [k \in 1..n |-> f(points[k])])
        sumT == sum(LAMBDA p : p.t)
        denom == n * sum(LAMBDA p : p.t * p.t) - sumT * sumT
    IN IF n < 2 \/ denom = 0 THEN Whole(0)
       ELSE Frac(n * sum(LAMBDA p : p.t * p.y) - sumT * sum(LAMBDA p : p.y), denom)

\* lastSegment
SegmentSlope(points) ==
    LET prev == points[Len(points) - 1]
        dt == Last(points).t - prev.t
        dy == Last(points).y - prev.y
    IN IF dt = 0 THEN Whole(0) ELSE Frac(dy, dt)

\* historyPoints: the rows up to the anchor that readValue finds a number in.
HistoryPoints(rows, start) == Kept(rows, {i \in 1..(start + 1) : rows[i].y # NoValue})

\* buildAutoFutureValues: on from the anchor at the slope of its past.
AutoFutureValues(anchor, points, interval) ==
    LET slope == IF proj.autoMethod = "lastSegment" /\ Len(points) >= 2 THEN SegmentSlope(points)
                 ELSE RegressionSlope(points)
        at(i) == [t |-> Plus(Whole(anchor.t), Times(interval, Whole(i))),
                  y |-> Plus(Whole(anchor.y), Times(slope, Times(interval, Whole(i))))]
    IN IF proj.pathDensity = "endpoints" THEN <<at(0), at(HorizonPoints)>>
       ELSE [i \in 1..(HorizonPoints + 1) |-> at(i - 1)]

\* buildTargetPath
TargetPath(anchor, interval) ==
    <<[t |-> Whole(anchor.t), y |-> Whole(anchor.y)],
      [t |-> Plus(Whole(anchor.t), Times(interval, Whole(HorizonPoints))), y |-> Whole(EndValue)]>>

\* buildProjectionPath: nothing without rows, or from a row without a number.
ProjectionPath(rows) ==
    IF rows = <<>> \/ rows[StartIndex(rows) + 1].y = NoValue THEN <<>>
    ELSE LET start == StartIndex(rows)
             interval == IntervalMs(rows, start)
         IN IF proj.mode = "target" THEN TargetPath(rows[start + 1], interval)
            ELSE AutoFutureValues(rows[start + 1], HistoryPoints(rows, start), interval)

-----------------------------------------------------------------------------
(* The domains.                                                                *)

\* d3's nice(), in hundredths: outwards to the step of about ten ticks.
NiceOnce(dom) ==
    LET span == dom.max - dom.min
        power == Max({p \in {1, 10, 100, 1000} : 10 * p <= Max({span, 10})})
        error == (10 * span) \div power
        over(c) == error * error >= 10000 * c
        step == power * (IF over(50) THEN 10 ELSE IF over(10) THEN 5 ELSE IF over(2) THEN 2 ELSE 1)
    IN [min |-> (dom.min \div step) * step, max |-> -(((-dom.max) \div step) * step)]

\* niceYDomain
NiceYDomain(dom) ==
    LET nice == NiceOnce(NiceOnce(dom))
    IN [min |-> Frac(nice.min, 100), max |-> Frac(nice.max, 100)]

\* collectNumericExtents
NumericExtents(rows) ==
    LET values == {r.y : r \in ToSet(rows)} \ {NoValue}
    IN IF values = {} THEN [min |-> 0, max |-> 100] ELSE [min |-> Min(values), max |-> Max(values)]

\* resolveTimeSeriesYDomain of the rows, in hundredths.
TimeSeriesYDomain(rows) ==
    LET lo == NumericExtents(rows).min
        hi == NumericExtents(rows).max
        padding == IF hi = lo THEN 100 ELSE 5 * (hi - lo)
    IN IF lo >= 0 THEN [min |-> 0, max |-> IF hi <= 0 THEN 10000 ELSE 110 * hi]
       ELSE [min |-> 100 * lo - padding, max |-> 100 * hi + padding]

\* computeYDomainsByAxis: of the line's axis, and of the left one in any case.
BaseDomain(rows, axis) ==
    NiceYDomain(IF axis = lineAxis THEN TimeSeriesYDomain(rows) ELSE [min |-> 0, max |-> 10000])

\* Mutant: the projection does not reach below.
MergeAbove(dom, path) ==
    IF path = <<>> THEN dom
    ELSE [dom EXCEPT !.max = Greatest({dom.max} \cup {p.y : p \in ToSet(path)})]

\* projectionValueExtents and projectionDateExtents of a path.
ValueExtents(path) == LET values == {p.y : p \in ToSet(path)} IN [min |-> Smallest(values), max |-> Greatest(values)]
DateExtents(path) == LET dates == {p.t : p \in ToSet(path)} IN [min |-> Smallest(dates), max |-> Greatest(dates)]

\* mergeProjectionYDomain
MergeProjectionYDomain(dom, path) ==
    LET lo == Smallest({dom.min, ValueExtents(path).min})
        hi == Greatest({dom.max, ValueExtents(path).max})
        span == Plus(hi, Times(lo, Whole(-1)))
        padding == IF span.n = 0 THEN Whole(1) ELSE Times(span, [n |-> 1, d |-> 20])
    IN IF Len(path) < 2 THEN dom
       ELSE IF lo.n >= 0 /\ dom.min.n >= 0
       THEN [min |-> Whole(0), max |-> IF hi.n <= 0 THEN Whole(100) ELSE Times(hi, [n |-> 11, d |-> 10])]
       ELSE [min |-> Plus(lo, Times(padding, Whole(-1))), max |-> Plus(hi, padding)]

\* buildYScalesFromDomains and useYScale: an axis has a scale when the line is
\* on it, or when it is the left one; on another the left one is used.
ScaleOf(axis) == IF axis \in {"left", lineAxis} THEN axis ELSE "left"

\* yDomainTargetByAxis, of the scale that draws what is on `axis`.
YDomainFor(axis) ==
    LET scale == ScaleOf(axis)
        base == BaseDomain(past, scale)
    IN IF proj.yAxisId = scale THEN MergeProjectionYDomain(base, ProjectionPath(past)) ELSE base

\* mergeProjectionXDomainMax
MergeProjectionXMax(t, path) == IF path = <<>> THEN t ELSE Greatest({t, DateExtents(path).max})

\* xScale's domain
XDomainOf(rows) ==
    LET times == {r.t : r \in ToSet(rows)}
    IN [from |-> Whole(Min(times)), to |-> MergeProjectionXMax(Whole(Max(times)), ProjectionPath(rows))]

-----------------------------------------------------------------------------
(* The line before becomes the line of `past`.                              *)

\* computeSeriesPathPoints: where a row is on screen, from 0 to 1.
ShareOf(off, span) == IF span.n = 0 THEN Whole(0) ELSE Frac(off.n * span.d, off.d * span.n)
PlaceIn(dom, t) == ShareOf(Plus(Whole(t), Times(dom.from, Whole(-1))), Plus(dom.to, Times(dom.from, Whole(-1))))
PathX(rows, t) == PlaceIn(XDomainOf(rows), t)

TimesIn(rows) == {r.t : r \in ToSet(rows)}

\* Mutant: a row that is new starts where the line before does.
AnchorFirst(i) ==
    IF settled = <<>> THEN PathX(past, past[i].t)
    ELSE PathX(settled, IF past[i].t \in TimesIn(settled) THEN past[i].t ELSE settled[1].t)

\* The anchor of row i: its own place before, or that of a neighbour that was
\* there, or the first of the line before.
AnchorX(i) ==
    LET was(k) == k \in 1..Len(past) /\ past[k].t \in TimesIn(settled)
        from == IF was(i) THEN past[i].t
                ELSE IF was(i - 1) THEN past[i - 1].t
                ELSE IF was(i + 1) THEN past[i + 1].t
                ELSE settled[1].t
    IN IF settled = <<>> THEN PathX(past, past[i].t) ELSE PathX(settled, from)

\* interpolateSeriesPathPoints at progress p.
Partway(from, to, p) == Plus(from, Times(p, Plus(to, Times(from, Whole(-1)))))
MorphX(i, p) == Partway(AnchorX(i), PathX(past, past[i].t), p)

-----------------------------------------------------------------------------
ShapeInit ==
    /\ past = <<>> /\ settled = <<>> /\ lineAxis \in Axes /\ proj \in Projections

\* The next rows of the series come, the oldest may go.
Extended(rows, step, y) ==
    Append(rows, [t |-> IF rows = <<>> THEN 0 ELSE Last(rows).t + step, y |-> y])
OddRows(rows) ==
    Cardinality({i \in 1..Len(rows) : rows[i].y = NoValue \/ (i > 1 /\ rows[i].t <= rows[i - 1].t)})
Receive(step, y) ==
    /\ Len(past) < MaxHistory
    /\ past' = Extended(past, step, y) /\ settled' = past
    /\ OddRows(past') <= MaxOdd
    /\ UNCHANGED <<lineAxis, proj>>
Advance(step, y) ==
    /\ Len(past) = MaxHistory /\ Len(settled) < MaxHistory
    /\ past' = Extended(Tail(past), step, y) /\ settled' = past
    /\ OddRows(past') <= MaxOdd
    /\ UNCHANGED <<lineAxis, proj>>

ShapeNext == \E step \in Steps, y \in Levels \cup {NoValue} : Receive(step, y) \/ Advance(step, y)

ShapeSpec == ShapeInit /\ [][ShapeNext]_shapeVars

-----------------------------------------------------------------------------
Ascending(rows) == \A i \in 1..(Len(rows) - 1) : rows[i].t < rows[i + 1].t

\* The thinned line has as many rows as the width can show, in their order,
\* from the first to the last, and keeps a lone peak or dip, which is what it
\* weighs areas for; only those of the first bucket are lost, which no bucket
\* reads.
PeakKept ==
    LET kept == Decimated(past)
        len == Len(past)
    IN len > RenderPoints =>
        /\ Len(kept) = RenderPoints /\ kept[1] = 0 /\ Last(kept) = len - 1
        /\ \A k \in 1..(Len(kept) - 1) : kept[k] <= kept[k + 1]
        /\ \A peak \in BucketStart(len, 0)..(len - 2) :
             (\A i, j \in (0..(len - 1)) \ {peak} : past[i + 1].y = past[j + 1].y /\ past[i + 1].y # NoValue)
             /\ past[peak + 1].y \notin {NoValue, past[1].y}
             => peak \in ToSet(kept)

\* A projection leaves the row it is anchored at and goes forward in time,
\* also where rows share a time or go back.
ProjectionGoesOn ==
    LET path == ProjectionPath(past) IN
    path # <<>> =>
        /\ path[1].t = Whole(past[StartIndex(past) + 1].t)
        /\ path[1].y = Whole(past[StartIndex(past) + 1].y)
        /\ \A k \in 1..(Len(path) - 1) : ~Leq(path[k + 1].t, path[k].t)

\* What the chart draws is inside its axes: the rows of the line and all of the
\* projection, whichever axis each is on, if that axis has a scale.
DrawnInView ==
    LET inside(y, dom) == Leq(dom.min, y) /\ Leq(y, dom.max)
        dates == XDomainOf(past)
        values == YDomainFor(lineAxis)
        projected == YDomainFor(proj.yAxisId)
    IN past # <<>> =>
        /\ \A r \in ToSet(past) : r.y # NoValue => inside(Whole(r.y), values)
        /\ \A p \in ToSet(ProjectionPath(past)) :
             /\ Leq(dates.from, p.t) /\ Leq(p.t, dates.to)
             /\ ScaleOf(proj.yAxisId) = proj.yAxisId => inside(p.y, projected)

\* Halfway from one line to the next no point has overtaken its neighbour: the
\* row that is new grows out of the one beside it.
MorphInOrder ==
    Ascending(past) /\ Ascending(settled) =>
        \A i \in 1..(Len(past) - 1) : Leq(MorphX(i, [n |-> 1, d |-> 4]), MorphX(i + 1, [n |-> 1, d |-> 4]))
=============================================================================
