SPECIFICATION Spec
CONSTANTS
    Procs = {p1, p2}
    Props = {spam}
    Vals = {TRUE, FALSE}
    NoThing = NoThing
    NoRow = NoRow
    Unasked = Unasked
    NoOwner = NoOwner
    Orphan = Orphan
    Fresh <- NewlyMade
    Faults = {"evict", "early", "cache", "fill", "sql", "commit", "crash", "expire"}
    MaxIncrs = 2
SYMMETRY SymmetryOfProcs
CONSTRAINT NotYetAmiss
INVARIANTS
    DriftIsKnown
