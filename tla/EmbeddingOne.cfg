CONSTANTS
  w1 = w1
  w2 = w2
  status = status
  profile = profile
  old = old
  new = new
  bge = bge
  minilm = minilm
  null = null
  Workers <- OneWorker
  Keys <- TwoKeys
  Contents <- TwoContents
  Identities <- TwoIdentities
  NoIdentity = null
  BatchSize = 2
  MaxFailures = 2
  MaxEntries = 2
  MaxStamp = 2
  MaxCrashes = 1
SPECIFICATION FairSpec
PROPERTIES EventuallyIndexed
CHECK_DEADLOCK FALSE
