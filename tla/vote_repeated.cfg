SPECIFICATION Spec
CONSTANTS
    None = None
    Orphan = Orphan
    Author = author
    Consumers = {c1}
    Voters = {author, bob}
    Queues <- Undisturbed
    DefaultKarma = 1
INVARIANTS
    VotesAreListed
CHECK_DEADLOCK FALSE
