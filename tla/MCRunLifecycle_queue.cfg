SPECIFICATION FairSpec
CONSTANTS
  r1 = r1
  r2 = r2
  p1 = p1
  p2 = p2
  d1 = d1
  d2 = d2
  Runs = {r1, r2}
  Pipelines = {p1, p2}
  Deciders = {d1}
  Origins = {"trigger", "scheduler"}
  Policy = "threshold"
  None = None
  MaxFaults = 1
PROPERTY EventuallyDecided
CHECK_DEADLOCK FALSE
