CONSTANTS
    Runs = {r1}
    Budgets <- MCBudgets
    RecursionLimit = 25
SPECIFICATION Spec
INVARIANTS
    SameAsFallback
CHECK_DEADLOCK FALSE
