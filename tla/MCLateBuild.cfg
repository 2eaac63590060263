SPECIFICATION Spec
CONSTANTS
  Builders = {b1, b2}
  Submitters = {s1}
  MaxTxs = 2
  MaxFaults = 0
SYMMETRY Symmetry
CHECK_DEADLOCK FALSE
PROPERTIES
  StatusMachine
