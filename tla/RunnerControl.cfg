\* Who may scrape, and what readers of the sink see of it.
SPECIFICATION Spec
CONSTANTS
    JetStream = TRUE
    MaxEpochs = 0
    Interval = 1
    TicksPerSecond = 1
    Endpoints <- NoEndpoints
    Frequency <- NoEndpoints
    IntervalDisabled = FALSE
    OnDemandDisabled = FALSE
    Events = {"lastEpoch", "publish", "crash", "discovery", "pause"}
    Nobody = Nobody
    MaxClock = 1
    MaxTriggers = 1
    MaxLives = 1
INVARIANTS
    TypeOK
    OneScrapeAtATime
    PauseHonoured
    ScrapesAreContiguous
    InspectionIsOneScrape
PROPERTIES
    ImplementsContract
