\* A crash between a scrape's messages and its end marker, then a prune.
SPECIFICATION FairSpec
CONSTANTS
    JetStream = TRUE
    MaxEpochs = 1
    Interval = 1
    TicksPerSecond = 1
    Endpoints <- NoEndpoints
    Frequency <- NoEndpoints
    IntervalDisabled = FALSE
    OnDemandDisabled = FALSE
    Events = {"cancel", "crash"}
    Nobody = Nobody
    MaxClock = 2
    MaxTriggers = 0
    MaxLives = 1
PROPERTIES
    StartReturnsOnceCancelled
\* The explored time ends at MaxClock, and a runner that waits for its timer
\* then, or has returned from Start, has no step left.
CHECK_DEADLOCK FALSE
