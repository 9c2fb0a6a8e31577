SPECIFICATION Spec
CONSTANTS
  None = None
  h1 = h1
  h2 = h2
  t1 = t1
  t2 = t2
  k1 = k1
  c1 = c1
  d1 = d1
  d2 = d2
  op = op
  r1 = r1
  r2 = r2
  y1 = y1
  y2 = y2
  Handler = {h1, h2}
  Server = {h1}
  Worker = {h1}
  Operator = {"o1"}
  Reader = {h1}
  Tenant = {t1, t2}
  Root = t1
  Administrator = op
  MaxFaults = 1
  Artifact = {k1}
  Content = {"c1", "c2"}
  Format = {1, 2}
  SourceDocument = {d1}
  User = {"u1"}
  Password = {"p1", "p2"}
  MaxFailedLogins = 2
  Lockout = 1
  IdleLimit = 1
  MaxSessions = 1
  MaxTime = 2
  ApiKey = {k1}
  CacheTTL = 2
  MaxClock = 4
  Evaluation = {"e1", "e2"}
  Limited = {t1}
  RequestKey = {k1}
  SubmissionLimit = 1
  RunLimit = 2
  TokenLimit = 2
  ConcurrencyLimit = 2
  OcrTotal = 2
  OcrLimit = 1
  Reruns = 2
  Period = 2
  WorkerCounts = TRUE
  Scenarios <- MCScenarios
  MaxMinutes = 3
  QueueRow = {"r1", "r2"}
  RunPriority = {0}
  Starvation = 1
  ServiceWindow = 2
  Lease = 1
  MaxClaims = 2
  TickInterval = 2
  ParserReading = {r1, r2}
  ModelReply = {y1, y2}
  Model = {"asked", "other"}
  Asked = "asked"
  Mode = {"run", "verify", "ocr"}
  ApiRun = {1, 2, 3}
  Callback = {c1}
  PageSize = 1
  Scenes <- MCScenes
  Name = {"n1"}
  Draft = {d1, d2}
  SchemaFiles <- MCFilesShipped
  FileDraft = "file"
  MaxVersion = 2
  Master = {k1}
  Configured = {"m1"}
  Shipped = "shipped"
  Priorities <- MCPriorities
  Jobs <- MCJobs
  MaxPages = 3
  ChunkPages = 2
  MaxParses = 3
  AttemptTimeout = 2
  StartTimeout = 3
  ParseDeadline = 7
  RetryAfters = {4}
  Drips = FALSE
  Drafts <- MCDrafts
  ModelAnswers <- MCAnswers
  UngroundedSeverity = {"error", None}
  MaxCalls = 3
  CallDeadline = 6
  MaxCall = 3
  Documents <- MCDocuments
  Claims <- MCClaims
  Num = 9
  Den = 10
  Short = {9}
  Budget = 3
  Parts = {"store", "accounts", "keys", "evaluations", "limits", "claims", "pipeline", "api",
           "schemas", "providers", "ingest", "validation", "extraction", "grounding"}
INVARIANTS
  TypeOK ArtifactsAreSafe AccountsAreGuarded RevocationPropagates ErasedDocumentsAreForgotten
  LimitsHold ReuseAgrees AnswersStandUp SavedVersionsServe KeysAreNotPassedOver
  DocumentsAreWhole VerdictsAreSound CallsAreBounded EvidenceIsGenuine
PROPERTIES
  SettledFactsStay
CHECK_DEADLOCK FALSE
