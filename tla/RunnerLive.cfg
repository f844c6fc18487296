\* Progress of a runner that prunes, that was never killed, and whose
\* publications arrive.
SPECIFICATION FairSpec
CONSTANTS
    JetStream = TRUE
    MaxEpochs = 1
    Interval = 1
    TicksPerSecond = 1
    Endpoints <- NoEndpoints
    Frequency <- NoEndpoints
    IntervalDisabled = FALSE
    OnDemandDisabled = FALSE
    Events = {"cancel", "discovery", "pause", "start"}
    Nobody = Nobody
    MaxClock = 2
    MaxTriggers = 1
    MaxLives = 0
PROPERTIES
    TriggersAreAnswered
    DueScrapeIsTried
\* The explored time ends at MaxClock, and a runner that waits for its timer
\* then, or has returned from Start, has no step left.
CHECK_DEADLOCK FALSE
