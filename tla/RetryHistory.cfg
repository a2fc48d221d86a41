SPECIFICATION HistorySpec
CONSTANTS
    Bases = {0, 1, 2, 3, 5}
    MaxDelays = {0, 1, 4, 7, 30, 100}
    Budgets = {0, 1, 2, 7}
    Jitters = {0, 1, 3, 4}
    Den = 4
    Bits = 3
    DurationMax = 100
INVARIANTS
    DelayWithinCap
    BudgetIsExact
PROPERTY DelaysGrow
CHECK_DEADLOCK FALSE
