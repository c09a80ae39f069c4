SPECIFICATION Spec
CONSTANTS
  Top = 4
  Limit = 5
  Depth = 2
  Backlog = 2
  BatchSize = 2
  Forged = {1}
  Budgets <- MCBudgets
INVARIANTS TypeOK  SweepSound
  
CHECK_DEADLOCK FALSE
