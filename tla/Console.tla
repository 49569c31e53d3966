------------------------------- MODULE Console -------------------------------
(* The parts of the console that share no state, side by side: its pages and   *)
(* the shell around them, and the charts.  Interleaving them would only        *)
(* multiply their states, so a behaviour is a behaviour of one of them, `part`, *)
(* while the others rest where they begin.                                     *)
EXTENDS QueryPages, ProviderWizard, DeployWizard, LogStream, Session, CommandMap, LiveTraffic,
        Shell, ApiClient, ChartPhase, ChartPointer, TimeAxis, SeriesShape, LiveChart, BarChart,
        TooltipPanel, LoadingOverlay, GridShimmer

VARIABLES part

consoleVars ==
    <<part, pagesVars, wizardVars, deployVars, logVars, sessionVars, mapVars, trafficVars,
      shellVars, apiVars, chartVars, pointerVars, axisVars, shapeVars, liveVars, barVars,
      panelVars, overlayVars, shimmerVars>>

Parts ==
    {"pages", "providers", "deploy", "logs", "session", "map", "traffic", "shell", "api",
     "phases", "pointer", "axis", "series", "live", "bars", "panel", "overlay", "shimmer"}

\* Where a part rests: one of its initial states.
PagesRest == page = "prompts" /\ stored = {}
SessionRest == place = "login" /\ storedKey = NoKey /\ ~token
MapRest == fleet = [providers |-> Providers, deployments |-> Deployments]
TrafficRest == connectedNow
ShellRest == pathname = (CHOOSE p \in Paths : TRUE) /\ ~storedCollapse
ApiRest == raw = [scheme |-> TRUE, path |-> <<>>]
ChartRest == chartStatus = "ready" /\ ~target.many /\ \A k \in DOMAIN setup : setup[k]
PointerRest == interactive /\ points = (CHOOSE p \in Scales : TRUE)
AxisRest == tickMode = "data" /\ \A n \in TickCounts : numTicks <= n
ShapeRest == lineAxis = (CHOOSE a \in Axes : TRUE) /\ proj = (CHOOSE p \in Projections : TRUE)
LiveChartRest == feed.value = (CHOOSE v \in LiveValues \cap 0..100 : TRUE)
BarRest == barProps = (CHOOSE p \in BarProps : TRUE) /\ barStatus = "loading"
TooltipRest == motion /\ sideways /\ labels = <<CHOOSE m \in Months : TRUE>>
OverlayRest == overlay = [style |-> "sweep", reduce |-> TRUE]
ShimmerRest == grid.sync /\ grid.loading /\ grid.sized

ConsoleInit ==
    /\ part \in Parts
    /\ PagesInit /\ (part # "pages" => PagesRest)
    /\ WizardInit
    /\ DeployInit
    /\ LogInit
    /\ SessionInit /\ (part # "session" => SessionRest)
    /\ MapInit /\ (part # "map" => MapRest)
    /\ TrafficInit /\ (part # "traffic" => TrafficRest)
    /\ ShellInit /\ (part # "shell" => ShellRest)
    /\ ApiInit /\ (part # "api" => ApiRest)
    /\ ChartInit /\ (part # "phases" => ChartRest)
    /\ PointerInit /\ (part # "pointer" => PointerRest)
    /\ AxisInit /\ (part # "axis" => AxisRest)
    /\ ShapeInit /\ (part # "series" => ShapeRest)
    /\ LiveChartInit /\ (part # "live" => LiveChartRest)
    /\ BarInit /\ (part # "bars" => BarRest)
    /\ TooltipInit /\ (part # "panel" => TooltipRest)
    /\ OverlayInit /\ (part # "overlay" => OverlayRest)
    /\ ShimmerInit /\ (part # "shimmer" => ShimmerRest)

\* A step of the part, the rest unchanged.
ConsoleNext ==
    /\ UNCHANGED part
    /\ \/ part = "pages" /\ PagesNext
       \/ part # "pages" /\ UNCHANGED pagesVars
    /\ \/ part = "providers" /\ WizardNext
       \/ part # "providers" /\ UNCHANGED wizardVars
    /\ \/ part = "deploy" /\ DeployNext
       \/ part # "deploy" /\ UNCHANGED deployVars
    /\ \/ part = "logs" /\ LogNext
       \/ part # "logs" /\ UNCHANGED logVars
    /\ \/ part = "session" /\ SessionNext
       \/ part # "session" /\ UNCHANGED sessionVars
    /\ \/ part = "map" /\ MapNext
       \/ part # "map" /\ UNCHANGED mapVars
    /\ \/ part = "traffic" /\ TrafficNext
       \/ part # "traffic" /\ UNCHANGED trafficVars
    /\ \/ part = "shell" /\ ShellNext
       \/ part # "shell" /\ UNCHANGED shellVars
    /\ \/ part = "api" /\ ApiNext
       \/ part # "api" /\ UNCHANGED apiVars
    /\ \/ part = "phases" /\ ChartNext
       \/ part # "phases" /\ UNCHANGED chartVars
    /\ \/ part = "pointer" /\ PointerNext
       \/ part # "pointer" /\ UNCHANGED pointerVars
    /\ \/ part = "axis" /\ AxisNext
       \/ part # "axis" /\ UNCHANGED axisVars
    /\ \/ part = "series" /\ ShapeNext
       \/ part # "series" /\ UNCHANGED shapeVars
    /\ \/ part = "live" /\ LiveChartNext
       \/ part # "live" /\ UNCHANGED liveVars
    /\ \/ part = "bars" /\ BarNext
       \/ part # "bars" /\ UNCHANGED barVars
    /\ \/ part = "panel" /\ TooltipNext
       \/ part # "panel" /\ UNCHANGED panelVars
    /\ \/ part = "overlay" /\ OverlayNext
       \/ part # "overlay" /\ UNCHANGED overlayVars
    /\ \/ part = "shimmer" /\ ShimmerNext
       \/ part # "shimmer" /\ UNCHANGED shimmerVars

ConsoleSpec == ConsoleInit /\ [][ConsoleNext]_consoleVars

-----------------------------------------------------------------------------
(* What the parts promise, gathered by what a user relies on; each conjunct is *)
(* stated, with the code it is about, in the module of its part.               *)

\* Every part keeps the variables of its components in their types.
ConsoleTypeOK ==
    /\ PagesTypeOK /\ WizardTypeOK /\ DeployTypeOK /\ LogTypeOK /\ SessionTypeOK
    /\ MapTypeOK /\ ApiTypeOK /\ ChartTypeOK /\ PointerTypeOK /\ AxisTypeOK /\ BarTypeOK

\* Whatever order its queries are answered in, a page says that there is nothing
\* only of an answer that is empty, and its rows are those of the filter it shows.
PagesTellData ==
    /\ NothingMeansEmpty
    /\ RowsOfFilter

\* A request that a page waits for is under way, was complete when it was sent,
\* and ends in the outcome that its cause calls for, sent again at most once; a
\* wizard that it outlives keeps to the provider it was sent for.
RequestsSettle ==
    /\ RowsOfProvider
    /\ SpinnerHasRequest
    /\ RequestComplete
    /\ NoFalseAlarm
    /\ OutcomeOfCause
    /\ OneRetry

\* The lines shown are those of the stream in their order, however its chunks are
\* cut and its readers aborted; the badge tells its state, the view its end.
LogFaithful ==
    /\ LinesOfStream
    /\ BadgeTellsStream
    /\ FollowsEnd

\* Only a key that the gateway accepted is kept, the redirects of the two layouts
\* come to rest, and the shell that is entered again listens, stands and points
\* as the one that was left did.
SessionSettles ==
    /\ StoredKeyAccepted
    /\ RedirectsSettle
    /\ KeyHeardOnce
    /\ SidebarKept
    /\ OneEntryActive

\* The map of the command center is of the fleet as it was last answered: no
\* particle off its edges, nothing in focus dimmed, nothing live without traffic.
MapTellsFleet ==
    /\ ParticlesOnMap
    /\ ParticlesFollowEdges
    /\ FocusStandsOut
    /\ LiveMeansTraffic

\* A chart ends every phase it begins, takes the pointer only with its data, and
\* has its dot, its bars and its shine in view while it changes; however bars are laid
\* out, their segments and squares stay apart and inside their bands.
ChartDrawsData ==
    /\ NotStranded
    /\ InteractsWithData
    /\ DomainsFit
    /\ DotInView
    /\ WholeReveal
    /\ SegmentsApart
    /\ SquaresApart
    /\ ShinesWhileLoading

\* What is shown beside the pointer is of one point, the one nearest to it, even
\* when the data, the scale or the pointer changed before the frame that shows it;
\* its dots lie on the bars.
TooltipTellsPoint ==
    /\ TooltipOnNearest
    /\ WithholdsShownOnly
    /\ BandAboutPoint
    /\ SelectionHeld
    /\ TooltipOnLine
    /\ KeyTellsTooltip
    /\ PillAmongLabels
    /\ HoverOverBand
    /\ DotsOnBars
    /\ PanelBesidePoint
    /\ PillShowsLabel

\* What is laid out by rounding, decimating, extending or morphing is true to the
\* rows, few or many: ticks and labels stay apart and in order, lines keep their
\* peaks and go on where they end.
LaidOutTrue ==
    /\ TicksReadable
    /\ EvenWhenPossible
    /\ DateOnce
    /\ LabelsApart
    /\ PeakKept
    /\ ProjectionGoesOn
    /\ DrawnInView
    /\ MorphInOrder

\* What no step does: delete a row twice, or hand a loading animation over, turn
\* its exit back, change its silhouette or cut its shine before it has run out.
StepsInOrder ==
    /\ DeletedOnce
    /\ HandsOffAtEnd
    /\ ExitRunsForward
    /\ SteadySilhouette
    /\ ShineRunsOut
=============================================================================
