SPECIFICATION Spec
CONSTANTS
  Builders = {b1}
  Submitters = {s1}
  MaxTxs = 2
  MaxFaults = 0
CHECK_DEADLOCK FALSE
INVARIANTS
  OneGiftPerRow
