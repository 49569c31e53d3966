------------------------------ MODULE LiveChart ------------------------------
(* The line that scrolls with the time (live-line-chart.tsx, live-line.tsx) and *)
(* its value axis (live-y-axis.tsx).  An animation loop advances a frame (the   *)
(* time, the range of the values, the value of the dot) towards the data and    *)
(* commits it, throttled, with the tooltip under a pointer that may rest while  *)
(* the line moves under it.  Between a change of the data and the effect that   *)
(* starts the loop anew, and between a frame and the commit of the transition   *)
(* it starts, other events come.  The time axis (live-x-axis.tsx) is drawn of   *)
(* the same frame, its pill where the tooltip stands, without the spring it     *)
(* follows it with.  A unit of time is an animation frame and a                 *)
(* pixel of the width; LERP_SPEED is one half, rounded down; the value axis is   *)
(* the frame's range before nice().  Bounds: MaxClock, MaxPoints.    *)
EXTENDS Integers, Sequences, SequencesExt, FiniteSetsExt, Subsequences

CONSTANTS LiveValues, Cursors, MaxClock, MaxPoints,
    LiveWindow, TickUnit, Leading,  \* windowMs, xTickUnitMs, leadingMs
    CommitEvery,                \* LIVE_FRAME_COMMIT_MS
    PaddingPercent, FlatPadding,    \* of computeTargetRange
    Height, MinGap,             \* innerHeight, minGap
    NumTicks                    \* numTicks of the time axis

ASSUME LiveChartAssumption ==
    /\ LiveValues \subseteq Int /\ Cursors \subseteq Nat /\ {MaxClock, MaxPoints, Leading, PaddingPercent} \subseteq Nat
    /\ {LiveWindow, TickUnit, CommitEvery, FlatPadding, Height, MinGap} \subseteq Nat \ {0}
    /\ MinGap <= Height /\ Height <= 25 * MinGap  \* hundredths are fine enough for the interval
    /\ NumTicks \in Nat \ {0, 1}

VARIABLES
    liveClock,
    feed,     \* data and value: the points, and the latest value
    held,       \* paused
    loop,       \* what the effects took of feed and held
    anim,       \* animRef
    frame,      \* the frame that is drawn
    started,    \* the loop has run
    lastCommit, \* lastFrameCommitRef
    transition, \* the updates of startTransition that are not drawn yet
    cursor,     \* cursorXRef
    tip, tipKey,    \* tooltipData, lastTooltipKeyRef
    interval    \* intervalRef of the value axis

liveVars == <<liveClock, feed, held, loop, anim, frame, started, lastCommit, transition, cursor,
              tip, tipKey, interval>>

Nowhere == -1
NoTooltip == [x |-> Nowhere, time |-> 0, value |-> 0, y |-> 0]
NoFrame == [now |-> 0, min |-> 0, max |-> 0, value |-> 0]
NothingDue == [frame |-> FALSE, tip |-> FALSE, drawn |-> NoFrame, shown |-> NoTooltip]

-----------------------------------------------------------------------------
\* computeTargetRange
TargetRange(points, value) ==
    LET values == {p.value : p \in ToSet(points)} \cup {value}
        raw == Max(values) - Min(values)
        pad == IF raw = 0 THEN FlatPadding ELSE (raw * PaddingPercent) \div 100
    IN IF points = <<>> THEN [min |-> 0, max |-> 100]
       ELSE [min |-> Min(values) - pad, max |-> Max(values) + pad]

Lerp(from, to) == from + (to - from) \div 2

\* Mutant: the range closes in at once and opens slowly.
NextFrameSnapsIn(prev, range, value, stopped) ==
    [now |-> IF stopped THEN prev.now ELSE liveClock',
     min |-> IF range.min > prev.min THEN range.min ELSE Lerp(prev.min, range.min),
     max |-> IF range.max < prev.max THEN range.max ELSE Lerp(prev.max, range.max),
     value |-> Lerp(prev.value, value)]

\* nextAnimFrame
NextAnimFrame(prev, range, value, stopped) ==
    [now |-> IF stopped THEN prev.now ELSE liveClock',
     min |-> IF range.min < prev.min THEN range.min ELSE Lerp(prev.min, range.min),
     max |-> IF range.max > prev.max THEN range.max ELSE Lerp(prev.max, range.max),
     value |-> Lerp(prev.value, value)]

\* The dot, and the point after it into which the line fades.
Tips(f) == <<[time |-> f.now, value |-> f.value], [time |-> f.now + TickUnit, value |-> f.value]>>
WindowStart(f) == f.now + Leading - LiveWindow

\* xScale and its inverse; yScale of a hundredfold value, in pixels, rounded.
XAt(f, t) == t - WindowStart(f)
TimeAt(f, x) == WindowStart(f) + x
YAt(f, v) ==
    LET span == 100 * (f.max - f.min)
    IN (2 * Height * (v - 100 * f.min) + span) \div (2 * span)

\* What the line is drawn of (contextData): one point before the window too.
ContextData(f, points) ==
    LET start == Max({1} \cup {i \in 1..Len(points) : points[i].time < WindowStart(f)})
    IN SubSeq(points, start, Len(points)) \o Tips(f)

\* Mutant: the two points of the frame are not among those of the tooltip.
PointsOfWindow(f, points) == SelectSeq(points, LAMBDA p : p.time >= WindowStart(f))

\* What the tooltip reads (`visible`).
TooltipPoints(f, points) == Kept(points, {i \in DOMAIN points : points[i].time >= WindowStart(f)}) \o Tips(f)

\* interpolateAtTime, a hundredfold, of points in their order; there are some.
InterpolateAt(points, t) ==
    LET n == Len(points)
        lo == Max({1} \cup {i \in 1..n : points[i].time <= t})
        p == points[lo]
        q == points[lo + 1]
    IN IF t <= points[1].time THEN 100 * points[1].value
       ELSE IF t >= points[n].time THEN 100 * points[n].value
       ELSE 100 * p.value + (100 * (q.value - p.value) * (t - p.time)) \div (q.time - p.time)

\* resolveLiveTooltip
ResolveLiveTooltip(x, f, points) ==
    LET t == TimeAt(f, x)
        v == InterpolateAt(TooltipPoints(f, points), t)
    IN IF x = Nowhere \/ TooltipPoints(f, points) = <<>> THEN NoTooltip
       ELSE [x |-> x, time |-> t, value |-> v, y |-> YAt(f, v)]

\* liveTooltipKey
LiveTooltipKey(t) == [x |-> t.x, y |-> t.y]

\* Where the live dot is, with its badge and the dashed line: at the last point but one.
LiveDot(f, points) ==
    LET data == ContextData(f, points)
        p == data[Len(data) - 1]
    IN [x |-> XAt(f, p.time), y |-> YAt(f, 100 * p.value)]

\* Where the mask begins to fade the line: at the dot, unless that is at the edge.
FadeFrom(f, points) ==
    LET dot == LiveDot(f, points) IN IF dot.x < LiveWindow - 1 THEN dot.x ELSE LiveWindow

-----------------------------------------------------------------------------
(* The time axis.                                                              *)

\* The labels, evenly over the domain.
TimeLabels(f) ==
    {LET t == WindowStart(f) + (i * LiveWindow) \div (NumTicks - 1) IN [x |-> XAt(f, t), time |-> t] :
        i \in 0..(NumTicks - 1)}

\* Mutant: the pill tells the date the tooltip was made with.
PillOfTooltip(f, t) == t.time

\* What the pill at the crosshair tells.
PillTime(f, t) == TimeAt(f, t.x)

-----------------------------------------------------------------------------
(* The value axis, in hundredths.                                              *)

\* The power of ten from a range on.
PowerFrom[range \in Nat] == IF range <= 1 THEN 1 ELSE 10 * PowerFrom[(range + 9) \div 10]

\* Divided by two, or by two and a half where the sequence says so, as long as
\* the labels stay MinGap apart.
Divided(from, range, divs) ==
    LET next(span, i) == IF divs[(i % 3) + 1] = 2 THEN span \div 2 ELSE (2 * span) \div 5
        best[span \in Nat] == [i \in Nat |->
            IF next(span, i) * Height >= MinGap * range THEN best[next(span, i)][i + 1] ELSE span]
    IN best[from][0]

\* Mutant: the interval before is kept as long as there is one.
IntervalKept(range, prev) ==
    IF prev > 0 THEN prev ELSE Divided(PowerFrom[range], range, <<2, 2, 2>>)

\* pickNiceInterval
PickNiceInterval(range, prev) ==
    IF prev > 0 /\ 2 * prev * Height >= MinGap * range /\ prev * Height <= 3 * MinGap * range THEN prev
    ELSE Min({Divided(PowerFrom[range], range, divs) : divs \in {<<2, 5, 2>>, <<2, 2, 5>>, <<5, 2, 2>>}})

-----------------------------------------------------------------------------
\* A value on the axis of a chart without points, 0 to 100: any other has its
\* dot outside until the axis has caught up.
LiveChartInit ==
    \E v \in LiveValues \cap 0..100 :
        /\ liveClock = 0 /\ feed = [points |-> <<>>, value |-> v] /\ held = FALSE
        /\ loop = [range |-> TargetRange(<<>>, v), value |-> v, paused |-> FALSE]
        /\ anim = [now |-> 0, min |-> 0, max |-> 100, value |-> v] /\ frame = anim
        /\ started = FALSE /\ lastCommit = 0 /\ transition = NothingDue
        /\ cursor = Nowhere /\ tip = NoTooltip /\ tipKey = LiveTooltipKey(NoTooltip)
        /\ interval = PickNiceInterval(100 * (frame.max - frame.min), 0)

\* A point comes, with the time it came at.
PointArrives(v) ==
    /\ Len(feed.points) < MaxPoints
    /\ feed.points # <<>> => Last(feed.points).time < liveClock
    /\ feed' = [points |-> Append(feed.points, [time |-> liveClock, value |-> v]), value |-> v]
    /\ UNCHANGED <<liveClock, held, loop, anim, frame, started, lastCommit, transition, cursor, tip,
                   tipKey, interval>>

SetPaused ==
    /\ held' = ~held
    /\ UNCHANGED <<liveClock, feed, loop, anim, frame, started, lastCommit, transition, cursor, tip,
                   tipKey, interval>>

\* The effects after a render: the loop starts anew with what was rendered.
RestartLoop ==
    /\ loop' = [range |-> TargetRange(feed.points, feed.value), value |-> feed.value,
                paused |-> held]
    /\ UNCHANGED <<liveClock, feed, held, anim, frame, started, lastCommit, transition, cursor, tip,
                   tipKey, interval>>

\* shouldCommitLiveUpdates: a frame now and then, a tooltip when its key is another.
FrameDue(now) == now - lastCommit >= CommitEvery
TipDue(key) == key # tipKey

\* tick: the next frame, and what of it is committed.
AnimationTick ==
    /\ liveClock < MaxClock /\ liveClock' = liveClock + 1
    /\ anim' = NextAnimFrame(anim, loop.range, loop.value, loop.paused) /\ started' = TRUE
    /\ LET next == ResolveLiveTooltip(cursor, anim', feed.points)
           commitFrame == FrameDue(liveClock')
           commitTip == TipDue(LiveTooltipKey(next))
       IN /\ lastCommit' = IF commitFrame THEN liveClock' ELSE lastCommit
          /\ tipKey' = LiveTooltipKey(next)
          /\ transition' = [frame |-> transition.frame \/ commitFrame,
                            tip |-> transition.tip \/ commitTip,
                            drawn |-> IF commitFrame THEN anim' ELSE transition.drawn,
                            shown |-> IF commitTip THEN next ELSE transition.shown]
    /\ UNCHANGED <<feed, held, loop, frame, cursor, tip, interval>>

\* The transition is rendered, and the value axis with it.
CommitTransition ==
    /\ transition # NothingDue /\ transition' = NothingDue
    /\ frame' = IF transition.frame THEN transition.drawn ELSE frame
    /\ tip' = IF transition.tip THEN transition.shown ELSE tip
    /\ interval' = PickNiceInterval(100 * (frame'.max - frame'.min), interval)
    /\ UNCHANGED <<liveClock, feed, held, loop, anim, started, lastCommit, cursor, tipKey>>

\* handleMouseMove, in the margin too: the loop finds the tooltip.
MoveTo(x) ==
    /\ cursor' = IF x <= LiveWindow THEN x ELSE Nowhere
    /\ UNCHANGED <<liveClock, feed, held, loop, anim, frame, started, lastCommit, transition, tip,
                   tipKey, interval>>

\* Mutant: the key stays with the loop.
LeaveKeepingKey ==
    /\ cursor' = Nowhere /\ tip' = NoTooltip
    /\ transition' = [transition EXCEPT !.tip = FALSE, !.shown = NoTooltip]
    /\ UNCHANGED <<liveClock, feed, held, loop, anim, frame, started, lastCommit, tipKey, interval>>

\* handleMouseLeave: at once, and after the transitions before it.
LeaveChart ==
    /\ cursor' = Nowhere /\ tip' = NoTooltip /\ tipKey' = LiveTooltipKey(NoTooltip)
    /\ transition' = [transition EXCEPT !.tip = FALSE, !.shown = NoTooltip]
    /\ UNCHANGED <<liveClock, feed, held, loop, anim, frame, started, lastCommit, interval>>

LiveChartNext ==
    \/ \E v \in LiveValues : PointArrives(v)
    \/ SetPaused \/ RestartLoop \/ AnimationTick \/ CommitTransition
    \/ \E x \in Cursors : MoveTo(x)
    \/ LeaveChart

LiveChartSpec == LiveChartInit /\ [][LiveChartNext]_liveVars

-----------------------------------------------------------------------------
\* The dot never leaves the chart: range and value move apart, at the speed of
\* an animation and late by an effect and a transition, and the range that is
\* drawn holds the value that is drawn with it; nor does it leave the line's
\* present, up to which the line is drawn in full.
DotInView ==
    /\ started => anim.min <= anim.value /\ anim.value <= anim.max
    /\ transition.frame => transition.drawn.min <= transition.drawn.value /\ transition.drawn.value <= transition.drawn.max
    /\ lastCommit # 0 /\ ~transition.frame =>
        LET dot == LiveDot(frame, feed.points)
        IN /\ dot.y \in 0..Height /\ dot.x = XAt(frame, frame.now)
           /\ FadeFrom(frame, feed.points) >= dot.x

\* The tooltip of the loop reads the line: from the first point in the window
\* on, its value is that of the line as it is drawn from the same frame, or that of
\* a point at its time, where the line may rise straight up to the dot, unless
\* points went on coming while the chart was held.
TooltipOnLine ==
    LET ahead == feed.points # <<>> /\ Last(feed.points).time > anim.now
    IN cursor # Nowhere /\ ~ahead =>
        LET seen == ResolveLiveTooltip(cursor, anim, feed.points)
            inWindow == {p \in ToSet(feed.points) : p.time >= WindowStart(anim)}
        IN seen.time >= Min({anim.now} \cup {p.time : p \in inWindow}) =>
            \/ seen.value = InterpolateAt(ContextData(anim, feed.points), seen.time)
            \/ \E p \in ToSet(ContextData(anim, feed.points)) : p.time = seen.time /\ 100 * p.value = seen.value

\* The loop knows what is shown: its key is that of the last tooltip it has
\* handed to React, so that none is held back and none stays.
KeyTellsTooltip == tipKey = LiveTooltipKey(IF transition.tip THEN transition.shown ELSE tip)

\* The pill reads as one of the labels it stands among: later than those on its
\* left and earlier than those on its right, also when the tooltip was kept while
\* the line moved on under it.
PillAmongLabels ==
    tip.x # Nowhere => \A l \in TimeLabels(frame) :
        (l.x < tip.x <=> l.time < PillTime(frame, tip)) /\ (l.x > tip.x <=> l.time > PillTime(frame, tip))

\* Whatever ranges went before, the labels of the value axis are at least half
\* of MinGap apart, and there is one for every three.
LabelsApart ==
    LET range == 100 * (frame.max - frame.min)
    IN /\ 2 * interval * Height >= MinGap * range
       /\ interval * Height <= 3 * MinGap * range
=============================================================================
