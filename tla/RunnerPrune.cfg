\* Pruning to two epochs while triggers are served.
SPECIFICATION Spec
CONSTANTS
    JetStream = TRUE
    MaxEpochs = 2
    Interval = 1
    TicksPerSecond = 1
    Endpoints <- NoEndpoints
    Frequency <- NoEndpoints
    IntervalDisabled = FALSE
    OnDemandDisabled = FALSE
    Events = {"prune", "crash"}
    Nobody = Nobody
    MaxClock = 3
    MaxTriggers = 1
    MaxLives = 1
INVARIANTS
    NewestEpochsSurvive
PROPERTIES
    PruneSparesOpenScrape
    PruneLeavesMaxEpochs
\* The explored time ends at MaxClock, and a runner that waits for its timer
\* then, or has returned from Start, has no step left.
CHECK_DEADLOCK FALSE
