CONSTANTS
  Nil = Nil
  x1 = x1
  x2 = x2
  y1 = y1
  y2 = y2
  k1 = k1
  k2 = k2
  u1 = u1
  u2 = u2
  u3 = u3
  u4 = u4
  MaxMishaps = 1

  Fingerprints = {f1}
  Names = {y1, y2}
  Templates = {x1, x2}
  Planners = {p1}
  Editors = {e1, e2}
  MaxSeen = 3
  MaxVersions = 2

  Runs = {x1, x2}
  Batch = 1
  Retention = 0
  PruneInterval = 1
  MaxTime = 2

  PastRuns = {x1, x2}
  Points = {0, 2}
  Thresholds <- SemanticThresholds
  TopK = 1
  DeltaWindow = 1
  DeltaWithSteps = TRUE
  Askers = {c1}
  Batches <- ItemBatches
  KnownIDs <- KnownKeys
  Searchers = {s1}
  MaxDay = 3

  Requests = {q1, q2}
  Scheduler = clock
  SummaryInterval = 1
  MaxHour = 3
  MaxJobs = 4

  TopicRuns = {x1, x2}
  Writers = {w1}
  Signers = {y1, y2}

  Chats = {h1}
  Edits = {o1}
  Amendments = {b1, b2}
  Saves = {v1, v2, v3}
  Preferences = {"wide", "narrow"}
  Crons = {"@daily", "@weekly"}
  Contents = {"a", "b"}
  Amounts <- BudgetAmounts

  Hosts = {"press", "mill"}
  Urls = {u1, u2, u3, u4}
  HostOf <- UrlHosts
  PageOf <- UrlPages
  Others <- FoundByOthers
  Known = {u3}
  Preferred = {"press"}
  Blocked = {"mill"}
  Strict = TRUE
  DomainCap = 2
  MaxPages = 2
  Target = 4
  FewSources = 1
  FewHosts = 1
  Retries = 1
  PageSize = 2
  MinCredibility = 7
  Limit = 1
  MinConfidence = 1
  MaxNodes = 1
  Fair = TRUE
  DomainBias <- HostBiases
  BiasRange = 4
  MinFair = 5
  Biases <- Sliders
  Digests <- DigestsOfModel

  Servers = {x1, x2}
  Services = {z1}
  ToolCount = 2
  EventCount = 1
  CardVersions = {1, 2}
  Secrets = {k1, k2}
  Policies <- PolicyFiles
  Defaults <- SecurityDefaults
  MaxPublished = 1

SPECIFICATION Spec
SYMMETRY Symmetry
CHECK_DEADLOCK FALSE
INVARIANTS
  RecordsTypeOK
  CurrentIsNewestApproved
  TemplatesFollowed
  MemoryKept
  JobsClosed
  SucceededHasResult
  ManifestsAgree
  TopicsKept
  RecallSound
  
  StartedWhole
