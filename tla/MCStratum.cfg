CONSTANTS
    None = None
    Rates = {0, 4, 5, 6}
    Masks = {m1}
    Diffs = {1, 2}
    Prompt = TRUE
    Budgets <- MCBudgets
SPECIFICATION StratumSpec
CHECK_DEADLOCK FALSE
INVARIANTS
    SharesStayWithSession
    TemplatesMatchPool
PROPERTIES
    SourceProgresses
    ImplementsJobSource
