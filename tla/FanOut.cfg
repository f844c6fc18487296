\* Two workers, three accounts and two servers: a server may fail while the
\* other worker has been sent to it already, with an account still to come.
SPECIFICATION FairSpec
CONSTANTS
    Collectors <- Both
    Workers = {w1, w2}
    Servers = {1, 2}
    Accounts = {a1, a2, a3}
    Nothing = Nothing
INVARIANTS
    TypeOK
    NoAnswerIsLost
    EveryAccountIsAsked
    FailuresAreRemembered
PROPERTIES
    FanOutReturns
