SPECIFICATION FairCacheSpec
CONSTANTS
  Users = {u1, u2}
  Escrow = escrow
  Tokens = {xlm}
  Answers = {}
  NoAnswer = none
  StepGates = {1}
  MaxGifts = 1
  MaxTime = 2
  MaxAmount = 1
  InitialBalance = 1
  Sender = u1
  Receiver = u2
  Txs = {t1, t2}
  NoTx = notx
  Requests = {r1}
  Sweeper = sweeper
  MaxRequests = 1
  MaxFaults = 1
CHECK_DEADLOCK FALSE
PROPERTIES
  CacheConverges
  ReclaimOffered
