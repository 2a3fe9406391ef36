SPECIFICATION FairSpec
CONSTANTS
  a = a
  b = b
  c = c
  s = s
  u = u
  Tasks = {a, b, c}
  Missing = Missing
  MaxRetries <- MCMaxRetries
  Stages = {s, u}
  StageOf <- MCStageOf
  MaxDeps = 2
CHECK_DEADLOCK FALSE
INVARIANT TypeOK
INVARIANT CycleVerdict
INVARIANT RetriesRight
PROPERTY EventuallyReturns
PROPERTY KeepsOrder
