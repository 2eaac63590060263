SPECIFICATION FairSpec
CONSTANTS
  Builders = {b1}
  Submitters = {s1, s2}
  MaxTxs = 3
  MaxFaults = 2
CHECK_DEADLOCK FALSE
INVARIANTS
  TypeOK
  LinkIsFunded
  OneLinkPerGift
  LinkKeepsResolving
PROPERTIES
  StatusMachine
  ActiveRowStands
  LandedIsRecorded
