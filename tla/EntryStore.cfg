CONSTANTS
  owner = owner
  agent = agent
  status = status
  text = text
  none = none
  Keys <- MCKeys
  NoKey = none
  Clients <- MCClients
  OwnerClients <- MCOwnerClients
  Contents <- MCContents
  LogContents <- MCNone
  StatusKeys <- MCKeys
  AllowNamespaceDelete = FALSE
  ClockStepsBack = TRUE
  DeleteTokenTTL = 0
  MaxTime = 3
  MaxRevs = 4
  MaxTokens = 0
SPECIFICATION ScenarioSpec
INVARIANTS LineageSound StampIdentifiesRevision AsOfFaithful AsOfMissesExplained
PROPERTIES DeletesOnlyWhatWasPreviewed
