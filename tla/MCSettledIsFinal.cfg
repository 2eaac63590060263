SPECIFICATION CacheSpec
CONSTANTS
  Users = {u1, u2}
  Escrow = escrow
  Tokens = {xlm}
  Answers = {}
  NoAnswer = none
  StepGates = {1}
  MaxGifts = 1
  MaxTime = 2
  MaxAmount = 1
  InitialBalance = 2
  Sender = u1
  Receiver = u2
  Txs = {t1, t2}
  NoTx = notx
  Requests = {r1}
  Sweeper = sweeper
  MaxRequests = 2
  MaxFaults = 0
SYMMETRY Symmetry
CHECK_DEADLOCK FALSE
PROPERTIES
  SettledIsFinal
