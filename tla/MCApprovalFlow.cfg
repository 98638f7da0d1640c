CONSTANTS
    a = a
    b = b
    c = c
    Calls = {c1, c2}
    Insiders = {x}
    Runs <- MCRuns
    Inputs <- MCInputs
    InputOf <- MCInputOf
    Budgets <- MCBudgets
    RecursionLimit = 25
    StepIds <- MCStepIds
    NoStep = none
    MaxApprovals = 1
    MaxRequested = 0
    Deciders = {}
    Users = {u}
    NoUser = nobody
    MaxWorkflows = 1
    MaxExecutions = 1
    NoRequest = free
    Definitions <- MCDefinitions
SPECIFICATION PlatformSafety
INVARIANTS
    CompletedIsDoneOrApproved
CHECK_DEADLOCK FALSE
