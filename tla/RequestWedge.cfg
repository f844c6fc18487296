SPECIFICATION FairSpec
CONSTANTS
    Servers = {s1, s2}
    Modes <- AllModes
    Kinds = {"ok", "corrupt"}
    MayBeAlone = TRUE
    Timeout = 3
    QuietWindow = 2
    MaxReplies = 1
    MaxClock = 4
PROPERTY
    RequestReturns
\* A request stuck behind an error reply stops the model: the property says so.
CHECK_DEADLOCK FALSE
