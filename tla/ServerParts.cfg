CONSTANTS
  alpha = alpha
  beta = beta
  gamma = gamma
  Processes = {p1}
  Namespaces <- OneNamespace
  Targets <- OneTarget
  Floor <- FloorOne
  Levels <- TwoLevels
  Approved = 1
  MinLogs = 2
  MaxLogsPerRun = 1
  BatchSize = 1
  MaxAttempts = 1
  MaxFailures = 1
  MaxPreviews = 0
  MaxLogs = 3
  MaxTime = 2
  MaxEdits = 0
  MaxExits = 0
  Callers = {"c1", "c2", "c3"}
  Credential <- OneCredentialForTwo
  CallerMax = 1
  CredentialMax = 2
  GlobalMax = 2
  WindowMs = 2
  MaxCallers = 1
  MaxMs = 5
  Clients = {"c1", "c2"}
  Workers = {"embedding", "consolidation"}
  Principals = {"owner", "guest"}
  Entries = {1, 2, 3, 4}
  Scopes = {{1, 2, 3, 4}, {2}}
  Canonical = {4}
  RerankWindow = 1
  MaxMatches = 4
  MaxOwn = 1
  MaxAll = 1
  MaxLimit = 2
  MaxQueries = 2
  MaxChanges = 1
  Threshold = 2
  MaxKeys = 3
  MaxFaults = 5
  Steps <- Wordings
  Dated = {"by may"}
  Alike <- TwoWordings
  Writers = {"owner", "guest"}
  Trackers = {"owner"}
  MaxSteps = 2
  MaxSources = 1
  MaxRows = 4
  MaxAge = 1
  Records <- Evidence
  Consumers = {"owner"}
  Ceiling <- HighestForAll
  RecordLevels = {0, 1}
  Freshness = 1
  RecordsKept = 2
  Lifetime = 2
  ExportPage = 1
  MaxDeletes = 1
  MaxDay = 3
  Paths <- Nested
  Filters <- EveryFilter
  RuleSets <- OneOrTwoRules
  HistoryPage = 1
  MaxHistory = 3
  Sessions = {"s1", "s2"}
  Results = {"e1"}
  NamespaceOf <- OneArea
  Correlation = 1
  EventsKept = 1
  SessionKept = 1
  MaxEvents = 3
  MaxFeedback = 1
  MaxHour = 2
SPECIFICATION PartsSpec
INVARIANTS
  PartsTypeOK DrainedOnce AdmissionBounded CleanExit PagesSkipNothing KeyIsKnown
  OpenAreWritten RefsResolve HistoryIsWhole RatesAreFractions
PROPERTIES
  NeverFromStale BacklogDrains ShutdownEnds OthersKeepTheirs
  RewordingIsNotDelivery CompleteMeansAll NeverRecreated
CHECK_DEADLOCK FALSE
