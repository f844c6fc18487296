\* Batches of two: up to two full ones and a rest of one.
SPECIFICATION FairSpec
CONSTANTS
    Sizes <- UpToFive
    BatchSize = 2
    AcksLost = TRUE
    Cancels = TRUE
INVARIANTS
    TypeOK
    InFlightIsBounded
    CountMeansSettled
PROPERTIES
    PrepareReturns
\* A lost acknowledgement stops Prepare for good: PrepareReturns says so.
CHECK_DEADLOCK FALSE
