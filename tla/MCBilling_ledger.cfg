CONSTANTS
    Clerks = {h1, h2}
    Jobs = {"trials"}
    MaxCycles = 2
    Amounts = {1}
    Approvals <- OneBack
    Dues = {2}
    Plans = {FALSE}
    HqStatuses = {}
    Periods = {1, 2}
    Grace = 0
    TrialDays = {1}
    MaxPaid = 2
    MaxBack = 0
    MaxTime = 2
    MaxFaults = 1
    None = None
SPECIFICATION Spec
SYMMETRY ClerkSymmetry
INVARIANTS
    TypeOK
    PaidIsBacked
    PaidIsCovered
    PeriodsContiguous
CHECK_DEADLOCK FALSE
