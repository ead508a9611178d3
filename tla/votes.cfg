SPECIFICATION Spec
CONSTANTS
    None = None
    Orphan = Orphan
    Author = author
    Consumers = {c1, c2}
    Voters = {author, bob}
    Queues <- MCQueues
    DefaultKarma = 1
INVARIANTS
    TypeOK
    DriftIsBounded
    ListedAreVotes
    KarmaAddsUp
    LastVoteStands
    ListingsFollow
SYMMETRY Symmetry
CHECK_DEADLOCK FALSE
