SPECIFICATION Spec
CONSTANTS
    Procs = {p1, p2}
    Props = {spam, deleted}
    Vals = {TRUE, FALSE}
    NoThing = NoThing
    NoRow = NoRow
    Unasked = Unasked
    NoOwner = NoOwner
    Orphan = Orphan
    Fresh <- NewlyMade
    Faults = {"sql"}
    MaxIncrs = 3
SYMMETRY SymmetryOfBoth
INVARIANTS
    TypeOK
    CacheCoherent
    CommitLands
    KarmaExact
PROPERTIES
    ImplementsThing
