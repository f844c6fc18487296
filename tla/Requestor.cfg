\* Two servers to include and one to exclude, two scrapes, and an inspector.
SPECIFICATION InspectSpec
CONSTANTS
    Servers = {a, b, x}
    Excluded = {x}
    Everyone = Everyone
    Calls <- FiveCalls
    MaxScrapes = 2
    MaxReplies = 3
INVARIANTS
    TypeOK
    FilterHonoured
    EarlyMeansEveryIncluded
    CaptureIsOneScrape
\* The scraper stops after MaxScrapes.
CHECK_DEADLOCK FALSE
