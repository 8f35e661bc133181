CONSTANTS
  status = status
  log = log
  nothing = nothing
  Keys <- MCKeys
  First = status
  Log = log
  Nothing = nothing
  ProposalTTL = 2
  TerminalRetention = 1
  UndoRetention = 1
  SourceRefMax = 1
  MaxTime = 4
  MaxProposals = 3
  MaxExtracts = 1
  MaxWrites = 4
  MaxOthers = 1
SPECIFICATION Spec
INVARIANT ApprovedUndoLandsOnOriginal
CHECK_DEADLOCK FALSE
