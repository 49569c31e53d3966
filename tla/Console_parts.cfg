SPECIFICATION ConsoleSpec
CONSTANTS
    Ids = {1}
    NoId = 0
    Names = {"a", "b"}
    Models = {"m", "n"}
    MaxSessions = 2
    MaxVisits = 2
    MaxLines = 2
    MaxFrames = 3
    MaxStreams = 2
    MaxChunk = 6
    Keys = {"good", "bad"}
    Accepted = {"good"}
    Minted = "minted"
    NoKey = ""
    MaxLogouts = 1
    MaxMounts = 2
    Providers <- MCProviders
    Deployments <- MCDeployments
    MaxParticles = 1
    Pointable <- MCPointable
    NoNode = NoNode
    MaxEvents = 2
    NavItems <- MCNavItems
    Paths <- MCPaths
    Strict = TRUE
    PathSegments = {"api", "v1", "vi"}
    MaxSegments = 2
    MaxData = 2
    MaxChanges = 3
    MaxX = 2
    PointSets <- MCPointSets
    MaxRows = 5
    Gaps = {12, 24}
    TickCounts = {3, 4}
    Day = 24
    MaxGapLayouts = 2
    TickerHalf = 10
    MaxHistory = 5
    MaxOdd = 1
    Steps <- MCSteps
    Levels = {0, 3}
    NoValue = 99
    RenderPoints = 4
    DayMs = 3
    HorizonPoints = 2
    EndValue <- MCEndValue
    LiveValues = {0, 200}
    Cursors = {1, 9}
    MaxClock = 3
    MaxPoints = 2
    LiveWindow = 3
    TickUnit = 1
    Leading = 1
    CommitEvery = 2
    PaddingPercent = 15
    FlatPadding = 10
    Height = 100
    MinGap = 36
    NumTicks = 3
    BarValues = {20}
    NoBar = 99
    MaxBars = 2
    PlotSize = 55440
    Pixel = 504
    GrowTicks = 1
    StackGap = 2
    BoxWidth = 20
    BoxHeight = 10
    Offset = 2
    TipXs = {2, 11}
    TipYs = {1, 9}
    Months = {"jan", "feb"}
    MaxLabels = 4
    CompactAbove = 3
    Contents <- MCContents
    DefaultSize <- MCDefaultSize
    Half = 2
    FadeSteps = 2
    BandFrom <- MCBandFrom
    BandClear = 2
    BandEnd = 4
    MaxSeeds = 2
    Cycle = 2
    MaxEffects = 3
INVARIANTS
    ConsoleTypeOK
    
    
    LogFaithful
    SessionSettles
    
    
    TooltipTellsPoint
    LaidOutTrue

    
CHECK_DEADLOCK FALSE
