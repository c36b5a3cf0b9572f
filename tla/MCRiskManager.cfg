SPECIFICATION Spec
CONSTANTS
    NotionalCap = 24
    LeverageCap = 1
    WarnPct = 85
    DailyStopPct = 20
    TrailingPct = 25
    Prices <- MCPrices
    Equities <- MCEquities
    Targets <- MCTargets
    MaxDay = 3
    None = None
INVARIANTS
    StopBelongsToPosition
PROPERTIES
    StoppedPositionOnlyShrinks
    DailyStopHolds
