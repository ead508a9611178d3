SPECIFICATION Spec
CONSTANTS
    None = None
    Free = Free
    Requests = {r1, r2}
    Payments = {p1, p2}
    Manual = {p2}
    Budgets = {1, 2}
    Unspent = 1
    Loads <- MCLoads
    MaxFaults = 1
INVARIANTS
    TypeOK
    TransactionsAreBacked
    KeptMoneyIsTheCampaigns
    LiveIsPaidFor
SYMMETRY Symmetry
CHECK_DEADLOCK FALSE
