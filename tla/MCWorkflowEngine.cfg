SPECIFICATION SafetySpec
CONSTANTS
    a = a
    b = b
    c = c
    StepIds <- MCStepIds
    NoStep = none
    MaxApprovals = 6
    MaxRequested = 1
    Deciders = {}
    Users = {u}
    NoUser = nobody
    MaxWorkflows = 1
    MaxExecutions = 2
    Requests = {r1, r2}
    NoRequest = free
    Cancellers = {t}
    Definitions <- AllDefinitions
INVARIANTS
    TypeOK
    SingleWalker
    AtMostOncePost
    DependenciesRespected
    GateHolds
    LocalSetsMatchResults
    PausedAwaitsGate
    CompletedMeansAll
    GateAskedOnce
    StrandedByAnswer
PROPERTIES
    ResultsAreFinal
SYMMETRY RequestSymmetry
CHECK_DEADLOCK FALSE
