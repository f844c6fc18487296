\* A command that may fail to publish and to discover, run twice.
SPECIFICATION OnceSpec
CONSTANTS
    JetStream = TRUE
    MaxEpochs = 0
    Interval = 2
    TicksPerSecond = 1
    Endpoints <- OneEndpoint
    Frequency <- EveryScrape
    IntervalDisabled = FALSE
    OnDemandDisabled = TRUE
    Events = {"cancel", "crash", "discovery", "publish"}
    Nobody = Nobody
    MaxClock = 3
    MaxTriggers = 0
    MaxLives = 1
    DisabledFlags <- Flags
    FrequencyFlags <- Overrides
    MaxRuntime = 1
INVARIANTS
    ExitTellsTheTruth
    OverridesHonoured
PROPERTIES
    OnceEnds
\* The command exits, and at MaxClock it is not run again.
CHECK_DEADLOCK FALSE
