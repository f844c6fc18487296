\* Two servers that may answer twice, with errors among the replies.
SPECIFICATION FairSpec
CONSTANTS
    Servers = {s1, s2}
    Modes <- AllModes
    Kinds = {"ok", "corrupt"}
    MayBeAlone = TRUE
    Timeout = 3
    QuietWindow = 2
    MaxReplies = 2
    MaxClock = 4
INVARIANTS
    TypeOK
    EarlyMeansComplete
    NeverMoreThanExpected
    QuietWindowIsWaitedOut
PROPERTY
    StuckOnlyBehindAnError
\* A request stuck behind an error reply stops the model: the property says so.
CHECK_DEADLOCK FALSE
