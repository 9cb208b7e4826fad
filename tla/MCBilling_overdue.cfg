CONSTANTS
    Clerks = {h1}
    Jobs = {"overdue", "payg", "renew"}
    MaxCycles = 1
    Amounts = {1}
    Approvals = {1}
    Dues = {2}
    Plans = {TRUE, FALSE}
    HqStatuses = {"ACTIVE"}
    Periods = {2}
    Grace = 1
    TrialDays = {}
    MaxPaid = 1
    MaxBack = 0
    MaxTime = 4
    MaxFaults = 1
    None = None
SPECIFICATION FairSpec
INVARIANTS
    OverdueIsLate
PROPERTIES
    LateIsMarked
    PastDueIsHealed
CHECK_DEADLOCK FALSE
