CONSTANTS
  Delta = 2
  BudgetDelta = 3
  Headless = FALSE
  ConfirmationMode = TRUE
  MaxUserEvents = 3
  Faults = {"llm_error", "context", "stuck", "no_balance", "run_error", "memory_error"}
SPECIFICATION FairSpec
INVARIANTS IdleHasNoPending CallsBounded ConfirmedRunsOnce PendingIsAnswered
PROPERTY MessageStartsStep
CHECK_DEADLOCK FALSE
