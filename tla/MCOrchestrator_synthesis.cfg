SPECIFICATION Spec
CONSTANTS
  a = a
  b = b
  c = c
  x = x
  nil = nil
  Ids <- MCIds
  Missing = x
  Documents <- MCDocuments
  Budgets <- MCBudgets
  Estimates = {0, 2}
  Unset = nil
  Usages <- MCUsages
INVARIANT SynthesisSucceeded
CHECK_DEADLOCK FALSE
