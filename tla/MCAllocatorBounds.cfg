SPECIFICATION Spec
CONSTANTS
    btc = btc
    eth = eth
    bar1m = bar1m
    None = None
    Minute = 2
    Bucket = 4
    Reports <- MCReports
    Starts <- MCStarts
    End = 20
    Aliases <- MCAliases
    Missing = Missing
    Unparsable = Unparsable
    Rows <- MCRows
    Symbol = btc
    Timeframe = bar1m
    new = new
    filled = filled
    Statuses = {new, filled}
    StreamEvents <- MCStreamEvents
    MaxEvents = 4
    Contents = {"halt", "fill"}
    MaxHeartbeatAge = 5
    MaxReplicationLag = 3
    Primaries <- MCPrimaries
    Signals <- MCSignals
    Checkpoints <- MCCheckpoints
    Whole = 10000
    MinWeight = 500
    MaxWeight = 3000
    Passes = 16
    ReservePct = 5
    MaxDrawdown = 30
    TargetVolatility = 2
    CostBudget = 15
    FactorWeights <- MCFactors
    AllocationSignals <- MCAllocationSignals
    Capital = 100000
    MaxPairCorr = 85
    MaxAvgCorr = 65
    Returns <- MCReturns
    Multiples <- MCMultiples
    Tails = {5, 20, 30}
    Positions <- MCPositions
    NumStrategies = 2
    MinHistory = 2
    RebalanceInterval = 2
    MaxLen = 3
    MaxDay = 5
    fast = fast
    slow = slow
    inverted = inverted
    Candidates = {fast, slow, inverted}
    Scorable = {fast, slow}
    First = inverted
    RetuneInterval = 3
    Explores = TRUE
    Scores <- MCScores
    Penalties = {0, 1}
    MaxSteps = 6
    NoDecision = NoDecision
CHECK_DEADLOCK FALSE
INVARIANTS
    WeightsKeepBounds
