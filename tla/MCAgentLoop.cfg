CONSTANTS
    Runs = {r1}
    Budgets <- MCBudgets
    RecursionLimit = 25
SPECIFICATION Spec
INVARIANTS
    TypeOK
    HistoryFollowsPlan
    NothingAfterPending
PROPERTIES
    KeepsContract
CHECK_DEADLOCK FALSE
