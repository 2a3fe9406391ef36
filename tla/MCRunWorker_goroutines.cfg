SPECIFICATION FairSpec
CONSTANTS
  w1 = w1
  w2 = w2
  s1 = s1
  s2 = s2
  e1 = e1
  e2 = e2
  e3 = e3
  v1 = v1
  v2 = v2
  v3 = v3
  r1 = r1
  r2 = r2
  t1 = t1
  Workers = {w1}
  Slots = {s1, s2}
  SlotOwner <- MCOwner
  Entries = {e1, e3}
  Undecodable = {}
  Events = {v1, v3}
  EntryEvent <- MCEntryEvent
  Runs = {r1, r2}
  Topics = {t1}
  PayloadRun <- MCPayloadRun
  PayloadTopic <- MCPayloadTopic
  Garbled = {}
  Anonymous = {}
  None = None
  Blank = Blank
  ReadBatchSize = 2
  PeriodicResume = TRUE
  BackpressureLimit = 1
  MaxEdits = 1
  MaxFaults = 1
  MaxSent = 1
INVARIANT ApprovalRespected
PROPERTY EventuallyAcked
