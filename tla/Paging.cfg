\* Pages of one or, by default, two entries, servers of up to five: enough for
\* three pages, for a server to answer last whose entries end pages before
\* another's do, and for a listing that grows or shrinks between two pages.
SPECIFICATION FairSpec
CONSTANTS
    Servers = {s1, s2}
    Loops <- AllLoops
    OptionLimits <- GivenLimits
    DefaultLimit = 2
    NoServer = NoServer
    MaxRows = 5
    MaxChanges = 1
INVARIANTS
    TypeOK
    PagesAreDisjoint
    DeciderIsReadThrough
PROPERTY
    PagingEnds
