SPECIFICATION SafeCallSpec
ACTION_CONSTRAINT Scope
CONSTANTS
  p1 = p1
  user = user
  wallet = wallet
  Nobody = Nobody
  Policies = {p1}
  Policy = p1
  TaskDefinitions = {0, 1}
  Operators = {1, 2, 3}
  MaxAttesters = 3
  Accounts = {user, wallet}
  Values = {2}
  Fees = {0, 1}
  Approvals <- OneCall
  MaxDepth = 4
  MaxTxs = 2
  MaxSafeCalls = 2
INVARIANTS
  RequiredHaveAttested
  AttestedAreAccepted
  BodiesAreVetted
  ToldLessLatestFee
