SPECIFICATION Spec
CONSTANTS
    Prefixes = {p1, p2}
    Targets <- MCTargets
    Prices <- MCPrices
    Slippage = 43200
    Fee = 1
    MaxReports = 2
    None = None
INVARIANTS
    UnreportedIsCutFlip
    PnlIsWealth
PROPERTIES
    ExecutionReachesTarget
SYMMETRY Perms
