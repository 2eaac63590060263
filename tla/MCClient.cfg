SPECIFICATION ClientSpec
CONSTANTS
  Wallets = {w1, w2}
  NoWallet = nowallet
  MaxSwitches = 1
  MaxStarts = 2
  MaxPolls = 1
  MaxFaults = 1
  TypedAmounts = {30}
  MaxSends = 1
  MaxSeals = 2
  MaxPresses = 2
SYMMETRY WalletSymmetry
CHECK_DEADLOCK FALSE
INVARIANTS
  ClientTypeOK
  DepositCreditsSigner
  CompletedIsReal
  WaitingIsServed
  NoSelfGift
  SealedLinkIsLive
  SentIsReal
