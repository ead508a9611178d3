SPECIFICATION Spec
CONSTANTS
    Writers = {w1, w2}
    Readers = {r1}
    a = a
    b = b
    Items = {a, b, c, d}
    Sorts <- MCSorts
    Limit = 3
    Dumps <- MCDumps
    None = None
    Loads <- MCLoads
INVARIANTS TypeOK UpdatesLand BestAreListed
SYMMETRY Symmetry
CHECK_DEADLOCK FALSE
