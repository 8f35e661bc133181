CONSTANTS
  owner = owner
  agent = agent
  status = status
  text = text
  none = none
  Keys <- MCKeys
  NoKey = none
  Clients <- MCClients
  OwnerClients <- MCOwnerClients
  Contents <- MCContents
  LogContents <- MCNone
  StatusKeys <- MCNone
  AllowNamespaceDelete = FALSE
  ClockStepsBack = FALSE
  DeleteTokenTTL = 0
  MaxTime = 2
  MaxRevs = 3
  MaxTokens = 0
SPECIFICATION Spec
PROPERTIES SwapReplacesWhatWasRead
