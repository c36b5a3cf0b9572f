\* Two publishers, one worker per start; a second slot for the worker of a
\* start after a stop that timed out.  Batches of two; a full queue drops or
\* blocks.  A publisher may be blocked for good by a bus that has been stopped,
\* hence no deadlock check.
SPECIFICATION FairSpec
CONSTANTS
    Producers = {p1, p2}
    Flushers = {p1}
    Slots = {w1, w2}
    WorkerCount = 1
    QueueSize = 1
    BatchSize = 2
    MaxEvents = 3
INVARIANTS
    FlushedMeansHandled
PROPERTIES
    DeliverySpec
    QueuedIsHandled
    PublishingProgresses
CHECK_DEADLOCK FALSE
