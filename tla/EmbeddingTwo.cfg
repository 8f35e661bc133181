CONSTANTS
  w1 = w1
  w2 = w2
  status = status
  profile = profile
  old = old
  new = new
  bge = bge
  minilm = minilm
  null = null
  Workers <- TwoWorkers
  Keys <- OneKey
  Contents <- TwoContents
  Identities <- TwoIdentities
  NoIdentity = null
  BatchSize = 1
  MaxFailures = 1
  MaxEntries = 2
  MaxStamp = 2
  MaxCrashes = 1
SPECIFICATION Spec
INVARIANTS ServedVectorsFresh ProcessingIsHeld
CHECK_DEADLOCK FALSE
