SPECIFICATION ApprovalsSpec
CONSTANTS
    StepIds = {s}
    NoStep = none
    MaxApprovals = 2
    MaxRequested = 2
    Deciders = {t1, t2}
    Users = {u1, u2}
    NoUser = nobody
PROPERTIES
    DecisionIsFinal
CHECK_DEADLOCK FALSE
