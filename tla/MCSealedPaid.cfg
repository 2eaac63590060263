SPECIFICATION FairSealedSpec
CONSTANTS
  Depth = 2
  Zero = zero
  Notes = {n1, x}
  RootHistory = 2
  Strangers = {x}
  NoNote = none
  Syncs = {cron}
  Lookbacks = {0, 4}
  PageSize = 2
  MaxFaults = 1
CHECK_DEADLOCK FALSE

  
INVARIANTS
  ProofRootWasHeld
