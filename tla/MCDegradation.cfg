\* Three samples in the window, two healthy evaluations to recover.
SPECIFICATION FairDegradationSpec
CONSTANTS
    Metrics <- MCMetrics
    Values <- MCValues
    Warn <- MCWarn
    Critical <- MCCritical
    WindowSize = 3
    RecoverSamples = 2
INVARIANTS
    AutoHaltIsOwned
PROPERTIES
    ManualHaltSurvives
    CalmRecovers
