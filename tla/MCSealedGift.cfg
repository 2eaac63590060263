SPECIFICATION SealedSpec
CONSTANTS
  Depth = 2
  Zero = zero
  Notes = {n1, x}
  RootHistory = 2
  Strangers = {x}
  NoNote = none
  Syncs = {cron, kick}
  Lookbacks = {4}
  PageSize = 2
  MaxFaults = 1
SYMMETRY SyncSymmetry
CHECK_DEADLOCK FALSE
INVARIANTS
  SealedTypeOK
  RootsAreTrees
  
  CursorCovers
  ProofRootWasHeld
  
