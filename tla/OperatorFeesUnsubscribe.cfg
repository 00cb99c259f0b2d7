SPECIFICATION OperatorSpec
CONSTANTS
  ann = ann
  ben = ben
  Accounts = {ann, ben}
  IdOf <- TwoIds
  Subnets = {1}
  FeeScale = 4
  Limits = {1}
  OperatorShares = {0, 1}
  MaxItems = 1
  FeesLeft = {}
  MaxFees = 0
INVARIANTS
  UnsubscribeTakesEffect
