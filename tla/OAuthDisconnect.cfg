CONSTANTS
  laptop = laptop
  phone = phone
  ada = ada
  ben = ben
  none = none
  Clients <- MCClients
  Principals <- MCPrincipals
  Null = none
  LegacyOwner <- MCLegacyOwner
  CodeTTL = 0
  AccessTTL = 0
  RefreshTTL = 1
  MaxTime = 2
  MaxGrants = 1
  MaxPairs = 2
SPECIFICATION Spec
INVARIANT AskedIsRevoked
CHECK_DEADLOCK FALSE
