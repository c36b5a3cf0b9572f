SPECIFICATION BacktestSpec
CONSTANTS
    btc = btc
    eth = eth
    trend = trend
    revert = revert
    Symbols = {btc, eth}
    Times <- MCTimes
    Closes <- MCCloses
    Strategies = {trend, revert}
    Weight <- MCWeight
    Signals <- MCSignals
    LatencyBars = 0
    LatencySeconds = 2
    Slip = 1
    MakerFeePct = 0
    TakerFeePct = 10
    FundingPct = 5
    PenaltyPct = 10
    InitialEquity = 14
    Leverage = 3
    MaintenancePct = 20
    NoBar = NoBar
CHECK_DEADLOCK FALSE
INVARIANTS
    TargetIsAccounted
    LatencyIsKept
