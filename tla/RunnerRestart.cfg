\* A clock of two ticks to the second, an interval of three, and a process that
\* dies anywhere and resumes from the stream.
SPECIFICATION Spec
CONSTANTS
    JetStream = TRUE
    MaxEpochs = 0
    Interval = 3
    TicksPerSecond = 2
    Endpoints <- NoEndpoints
    Frequency <- NoEndpoints
    IntervalDisabled = FALSE
    OnDemandDisabled = FALSE
    Events = {"crash", "discovery"}
    Nobody = Nobody
    MaxClock = 6
    MaxTriggers = 1
    MaxLives = 1
INVARIANTS
    IntervalsAreKept
    EpochsNeverDecrease
    IntervalsOutliveRestarts
    EndedEpochsStayClosed
\* The explored time ends at MaxClock, and a runner that waits for its timer
\* then, or has returned from Start, has no step left.
CHECK_DEADLOCK FALSE
