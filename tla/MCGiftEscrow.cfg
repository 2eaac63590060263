SPECIFICATION Spec
CONSTANTS
  Users = {u1, u2}
  Escrow = escrow
  Tokens = {xlm}
  Answers = {right}
  NoAnswer = none
  StepGates = {1}
  MaxGifts = 2
  MaxTime = 2
  MaxAmount = 1
  InitialBalance = 2
SYMMETRY Symmetry
CHECK_DEADLOCK FALSE
INVARIANTS
  TypeOK
  Solvency
  FundedInFull
  StepsWithinGate
  ClaimedThroughGate
PROPERTIES
  LifecycleSpec
  RefundMakesWhole
  ClaimPaysAll
