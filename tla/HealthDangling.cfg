CONSTANTS
  Records <- Chained
  Consumers = {"owner"}
  Ceiling <- OneLevel
  Levels = {0}
  Freshness = 1
  Retention = 2
  Lifetime = 1
  PageLimit = 1
  MaxDeletes = 0
  MaxTime = 3
SPECIFICATION Spec
INVARIANTS ReferencesNeverDangle
CHECK_DEADLOCK FALSE
