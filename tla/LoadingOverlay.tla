--------------------------- MODULE LoadingOverlay ---------------------------
(* What a line or an area shows while it loads: a pulse, whose stroke grows     *)
(* from the left and shrinks to the right, or a sweep over a silhouette.  Both  *)
(* loop, and both run out (exit) or come in (enter) before they tell the chart  *)
(* to go on.  The phases that call for them are ChartPhase's.                   *)
EXTENDS Integers

CONSTANTS Half,         \* steps of half a pulse
          FadeSteps,    \* steps of the fade of a sweep
          BandFrom, BandClear, BandEnd,  \* the band of the sweep: start, past the plot, end
          MaxSeeds

VARIABLES overlay,      \* its style, and whether motion is to be reduced
          mode,         \* "none" while the phase calls for neither
          drawable,     \* the plot has a size
          progress,     \* of the pulse, or of the fade
          running,      \* an animation is under way
          restarts,     \* timers that restart the loop after its pause
          handed,       \* the chart was told of the end of this mode
          band, lastBand, seed

overlayVars == <<overlay, mode, drawable, progress, running, restarts, handed, band, lastBand, seed>>

Modes == {"none", "loop", "exit", "enter"}
IsPulse == overlay.style = "pulse"
Mounted == drawable /\ mode # "none"

\* Where the animation of a mode ends: a loop and an exit with the stroke gone, an
\* enter with it at its full length.
PulseEndGrown(m) == IF m = "loop" THEN 2 * Half ELSE Half
PulseEnd(m) == IF m = "enter" THEN Half ELSE 2 * Half
EndOf(m) == IF IsPulse THEN PulseEnd(m) ELSE FadeSteps

\* The effect of useGrowExitClip: a loop and an enter begin anew, an exit goes on from
\* where the stroke is.
RunPulseFromStart(m, at) == progress' = 0 /\ running' = TRUE
RunPulse(m, at) == progress' = (IF m = "exit" THEN at ELSE 0) /\ running' = TRUE

\* The transition of a sweep fades; a loop does not, and with reduced motion nothing does.
RunFade(m) == progress' = 0 /\ running' = (m # "loop" /\ ~overlay.reduce)

\* A render that mounts the overlay or changes its mode; with reduced motion the effect
\* of a sweep hands off at once.
Enact(m, at) ==
    /\ IF m = "none" \/ ~drawable' THEN progress' = 0 /\ running' = FALSE
       ELSE IF IsPulse THEN RunPulse(m, at) ELSE RunFade(m)
    /\ handed' = (m \in {"exit", "enter"} /\ ~IsPulse /\ overlay.reduce)

OverlayInit ==
    /\ overlay \in [style : {"pulse", "sweep"}, reduce : BOOLEAN]
    /\ mode = "loop" /\ drawable = TRUE /\ progress = 0 /\ running = IsPulse
    /\ restarts = 0 /\ handed = FALSE /\ band = BandFrom /\ lastBand = BandFrom /\ seed = 0

\* The phase of the chart changes.
ChangeMode ==
    /\ mode' \in Modes \ {mode} /\ UNCHANGED drawable
    /\ Enact(mode', progress)
    /\ IF mode = "none" THEN band' = BandFrom /\ lastBand' = BandFrom /\ seed' = 0
       ELSE UNCHANGED <<band, lastBand, seed>>
    /\ UNCHANGED <<overlay, restarts>>

\* The plot loses its size, or gets one: the overlay is unmounted, or mounted anew.
ResizePlot ==
    /\ drawable' = ~drawable /\ UNCHANGED mode
    /\ Enact(mode, 0)
    /\ band' = BandFrom /\ lastBand' = BandFrom /\ seed' = 0
    /\ UNCHANGED <<overlay, restarts>>

Step ==
    /\ Mounted /\ running /\ progress < EndOf(mode) /\ progress' = progress + 1
    /\ UNCHANGED <<overlay, mode, drawable, running, restarts, handed, band, lastBand, seed>>

\* The animation completes: a loop of the pulse waits for its timer, a transition hands off.
OverlayDone ==
    /\ Mounted /\ running /\ progress = EndOf(mode) /\ running' = FALSE
    /\ IF mode = "loop" THEN restarts' = restarts + 1 /\ UNCHANGED handed
       ELSE handed' = TRUE /\ UNCHANGED restarts
    /\ restarts' <= 2
    /\ UNCHANGED <<overlay, mode, drawable, progress, band, lastBand, seed>>

\* The timer bumps the epoch, whatever the mode is by now; the effect runs again.
RestartTimer ==
    /\ restarts > 0 /\ restarts' = restarts - 1
    /\ IF Mounted /\ IsPulse THEN RunPulse(mode, progress) ELSE UNCHANGED <<progress, running>>
    /\ UNCHANGED <<overlay, mode, drawable, handed, band, lastBand, seed>>

\* Another callback in the props of the line: the effect runs again.
ChangeCallback ==
    /\ Mounted /\ IsPulse /\ RunPulse(mode, progress)
    /\ UNCHANGED <<overlay, mode, drawable, restarts, handed, band, lastBand, seed>>

\* handleUpdate: the first update past the plot rolls the silhouette anew while looping.
RerollsAtWrap(x) == x < lastBand /\ mode = "loop"
Rerolls(x) == x >= BandClear /\ lastBand < BandClear /\ mode = "loop"

\* A frame of the sweep; frames may be dropped.
SweepFrame ==
    /\ Mounted /\ ~IsPulse /\ ~overlay.reduce
    /\ \E n \in 1..2 : band' = IF band + n > BandEnd THEN BandFrom ELSE band + n
    /\ lastBand' = band'
    /\ seed' = IF Rerolls(band') THEN seed + 1 ELSE seed
    /\ seed' <= MaxSeeds
    /\ UNCHANGED <<overlay, mode, drawable, progress, running, restarts, handed>>

OverlayNext ==
    \/ ChangeMode \/ ResizePlot \/ Step \/ OverlayDone \/ RestartTimer \/ ChangeCallback \/ SweepFrame

(* The chart goes on from an exit only when the stroke or the silhouette is    *)
(* gone, and from an enter only when it is all there: nothing is cut off in    *)
(* the middle of its way, whichever timers and renders came between.  Reduced  *)
(* motion, which has no way to wait for, is left out.                          *)
HandsOffAtEnd ==
    [][handed' /\ ~handed /\ ~overlay.reduce =>
        IF IsPulse THEN progress' = IF mode' = "exit" THEN 2 * Half ELSE Half
        ELSE progress' = FadeSteps]_overlayVars

(* A pulse that runs out never grows back, whatever restarts its effect: the   *)
(* timer of a loop that ended before, or another callback.                     *)
ExitRunsForward ==
    [][IsPulse /\ mode = "exit" /\ mode' = "exit" /\ Mounted /\ Mounted' => progress' >= progress]_overlayVars

(* The silhouette changes its shape only while the band is past the plot and   *)
(* never during a transition, so not under the user's eye.                     *)
SteadySilhouette ==
    [][seed' > seed => band' >= BandClear /\ mode = "loop"]_overlayVars
=============================================================================
