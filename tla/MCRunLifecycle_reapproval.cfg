SPECIFICATION Spec
CONSTANTS
  r1 = r1
  r2 = r2
  p1 = p1
  p2 = p2
  d1 = d1
  d2 = d2
  Runs = {r1}
  Pipelines = {p1}
  Deciders = {d1}
  Origins = {"trigger"}
  Policy = "always"
  None = None
  MaxFaults = 0
INVARIANT StaysPending
CHECK_DEADLOCK FALSE
