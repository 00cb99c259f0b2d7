SPECIFICATION OperatorSpec
CONSTANTS
  ann = ann
  ben = ben
  Accounts = {ann, ben}
  IdOf <- TwoIds
  Subnets = {1}
  FeeScale = 4
  Limits = {1, 2}
  OperatorShares = {0, 1, 2, 4}
  MaxItems = 2
  FeesLeft = {3, 7}
  MaxFees = 7
INVARIANTS
  SplitIsExact
