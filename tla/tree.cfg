SPECIFICATION FairSpec
CONSTANTS
    Consumers = {c1}
    Readers = {r1, r2}
    N = 3
    Parent <- Chain
    Responses = {2}
    Limit = 2
    Missing = Missing
    Orphan = Orphan
    Faults = {"evict", "raise", "kill"}
    MaxDeaths = 2
INVARIANTS
    TypeOK
    AckedAreListed
    ListedOnce
    PagesAreCurrent
PROPERTIES
    AllListed
