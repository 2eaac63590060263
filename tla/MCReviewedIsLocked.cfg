SPECIFICATION CreateSpec
CONSTANTS
  Wallets = {w1, w2}
  NoWallet = nowallet
  MaxSwitches = 0
  TypedAmounts = {30}
  MaxSends = 1
  MaxSeals = 0
CHECK_DEADLOCK FALSE
INVARIANT
  ReviewedIsLocked
