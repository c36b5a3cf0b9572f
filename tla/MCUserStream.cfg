\* Four keys: one for each holder (cache, client, keepalive) and a fresh one.
\* Liveness is checked, hence no symmetry.  The service ends and the keepalive
\* thread may be dead: no deadlock check.
SPECIFICATION FairServiceSpec
CONSTANTS
    Keys = {k1, k2, k3, k4}
    NoKey = NoKey
    MaxFailures = 2
INVARIANTS
    OneSocket
    RebuiltAtThreshold
    RequestWhileListeningKept
PROPERTIES
    StopEndsService
    ServiceEndEndsKeepalive
CHECK_DEADLOCK FALSE
