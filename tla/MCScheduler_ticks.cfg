SPECIFICATION FairSpec
CONSTANTS
  s1 = s1
  s2 = s2
  t1 = t1
  t2 = t2
  Schedulers = {s1, s2}
  Topics = {t1, t2}
  None = None
  MaxPeriods <- MCMaxPeriods
  MaxFaults = 1
INVARIANT TypeOK
INVARIANT OneHolder
INVARIANT BoundedDuplicates
PROPERTY EventuallyFired
