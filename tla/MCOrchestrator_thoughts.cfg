SPECIFICATION FairSpec
CONSTANTS
  a = a
  b = b
  c = c
  x = x
  nil = nil
  Ids <- MCIds
  Missing = x
  Documents <- MCDocuments
  Budgets <- MCBudgets
  Estimates = {0, 2}
  Unset = nil
  Usages <- MCUsages
INVARIANTS
  TypeOK
  PlanExecutable
  BudgetKept
  ReportComplete
PROPERTIES
  StopsWhenOver
  KeepsOrder
  EventuallyReturns
CHECK_DEADLOCK FALSE
