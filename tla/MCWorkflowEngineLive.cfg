SPECIFICATION Spec
CONSTANTS
    a = a
    b = b
    c = c
    StepIds <- MCStepIds
    NoStep = none
    MaxApprovals = 5
    MaxRequested = 0
    Deciders = {}
    Users = {u}
    NoUser = nobody
    MaxWorkflows = 2
    MaxExecutions = 2
    Requests = {r1, r2}
    NoRequest = free
    Cancellers = {}
    Definitions <- FewDefinitions
INVARIANTS
    StatusesAgree
PROPERTIES
    RunningSettles
    ImplementsDag
CHECK_DEADLOCK FALSE
