CONSTANTS
    a = a
    b = b
    Calls = {c1, c2}
    Insiders = {x}
    Runs <- MCRuns
    Inputs <- MCInputs
    InputOf <- MCInputOf
    Budgets <- MCBudgets
    RecursionLimit = 25
    StepIds <- MCStepIds
    NoStep = none
    MaxApprovals = 2
    MaxRequested = 0
    Deciders = {}
    Users = {u}
    NoUser = nobody
    MaxWorkflows = 1
    MaxExecutions = 2
    NoRequest = free
    Definitions <- MCDefinitions
SPECIFICATION PlatformSpec
INVARIANTS
    StoreTypeOK
    RecordIsOneRun
    OneRecordPerExecution
    TasksFollowTheDag
    ToldMeansHandled
PROPERTIES
    EscalationStands
    EveryRequestAnswered
    EveryCallAnswered
CHECK_DEADLOCK FALSE
