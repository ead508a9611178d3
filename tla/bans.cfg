SPECIFICATION Spec
CONSTANTS
    Staff = {s1, s2}
    Victims = {v1, v2}
    Uses = {"ban", "mute", "timeout"}
    v1 = v1
    None = None
    Forever = Forever
    Days <- MCDays
    MuteDays = 3
    Buffer = 2
    Grace = 2
    Lateness = 2
    MaxTime = 5
    Loads <- MCLoads
    MaxFaults = 1
INVARIANTS TypeOK NotLiftedEarly
PROPERTY BansEnd
CHECK_DEADLOCK FALSE
