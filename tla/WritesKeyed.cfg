CONSTANTS
  first = first
  second = second
  owner = owner
  status = status
  none = none
  nobody = nobody
  u1 = u1
  u2 = u2
  nokey = nokey
  Intents <- MCIntents
  Principals <- MCPrincipals
  PrincipalOf <- MCPrincipalOf
  OperationOf <- CreateAndLog
  Slots <- MCSlots
  NoSlot = none
  Nobody = nobody
  Uuids <- TwoUuids
  NoKey = nokey
  MaxRows = 2
  MaxStamp = 2
  MaxRetries = 1
  MaxCalls = 2
  MaxExits = 0
SPECIFICATION Spec
INVARIANTS TypeOK
PROPERTIES WritesOnceOnly CommittedIsNotRefused UnchangedMeansUntouched
SYMMETRY UuidSymmetry
CHECK_DEADLOCK FALSE
