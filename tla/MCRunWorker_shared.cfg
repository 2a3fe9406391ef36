SPECIFICATION Spec
CONSTANTS
  w1 = w1
  w2 = w2
  s1 = s1
  s2 = s2
  e1 = e1
  e2 = e2
  e3 = e3
  v1 = v1
  v2 = v2
  v3 = v3
  r1 = r1
  r2 = r2
  t1 = t1
  Workers = {w1, w2}
  Slots = {}
  SlotOwner <- MCOwner
  Entries = {e1, e2, e3}
  Undecodable = {}
  Events = {v1, v2}
  EntryEvent <- MCRepeated
  Runs = {r1, r2}
  Topics = {t1}
  PayloadRun <- MCPayloadRun
  PayloadTopic <- MCPayloadTopic
  Garbled = {}
  Anonymous = {r2}
  None = None
  Blank = Blank
  ReadBatchSize = 2
  PeriodicResume = TRUE
  BackpressureLimit = 0
  MaxEdits = 0
  MaxFaults = 1
  MaxSent = 2
INVARIANT TypeOK
INVARIANT RetriesCovered
INVARIANT NoSilentLoss
 
PROPERTY KeepsPromise
SYMMETRY MCWorkerSymmetry
