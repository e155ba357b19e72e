CONSTANTS
  Delta = 2
  BudgetDelta = 0
  Headless = FALSE
  ConfirmationMode = FALSE
  MaxUserEvents = 2
  Faults = {}
SPECIFICATION FairSpec
PROPERTY MessageIsServed
CHECK_DEADLOCK FALSE
