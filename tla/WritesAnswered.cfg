CONSTANTS
  first = first
  second = second
  owner = owner
  status = status
  none = none
  nobody = nobody
  u1 = u1
  u2 = u2
  nokey = nokey
  Intents <- MCIntents
  Principals <- MCPrincipals
  PrincipalOf <- MCPrincipalOf
  OperationOf <- SwapAndRead
  Slots <- MCSlots
  NoSlot = none
  Nobody = nobody
  Uuids <- OneUuid
  NoKey = nokey
  MaxRows = 1
  MaxStamp = 2
  MaxRetries = 1
  MaxCalls = 1
  MaxExits = 1
SPECIFICATION FairSpec
PROPERTIES EveryCallAnswered
CHECK_DEADLOCK FALSE
