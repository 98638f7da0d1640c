SPECIFICATION SafetySpec
CONSTANTS
    a = a
    b = b
    c = c
    StepIds <- MCStepIds
    NoStep = none
    MaxApprovals = 5
    MaxRequested = 0
    Deciders = {}
    Users = {u}
    NoUser = nobody
    MaxWorkflows = 1
    MaxExecutions = 2
    Requests = {r1, r2}
    NoRequest = free
    Cancellers = {t}
    Definitions <- GatedDefinitions
PROPERTIES
    CancelIsFinal
CHECK_DEADLOCK FALSE
