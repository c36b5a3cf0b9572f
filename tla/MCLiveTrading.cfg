\* Two client ids and two exchange orders: the ids settle side by side, or one
\* of them is POSTed twice; two reports can be in flight at once.  Liveness is
\* checked, hence no symmetry.
SPECIFICATION FairSpec
CONSTANTS
    Cids = {c1, c2}
    PostIds = {p1, p2}
    NoPost = NoPost
    NoCid = NoCid
    MaxStream = 2
    UniqueOpenIds = FALSE
INVARIANTS
    OmsAgreesWithExchange
    NoReportOfUnknownOrder
    HaltBoundsExposure
    FaultsComeFromResends
PROPERTIES
    LifecycleSpec
    AckedOrdersSettle
