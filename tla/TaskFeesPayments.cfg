CONSTANTS
  dex = dex
  vault = vault
  blue = blue
  treasury = treasury
  dao = dao
  Policies = {dex, vault}
  Subnets = {blue}
  Recipients = {treasury, dao}
  FeeScale = 4
  InitialWorlds <- ConfiguredOrNot
  Fees = {2}
  Shares = {0, 3}
  Ether = 2
  MaxClaimed = 3
  MaxBatch = 2
  MaxDepth = 2

SPECIFICATION Spec
ACTION_CONSTRAINT Scope
INVARIANTS
  PoolIsSolvent
  CollectedIsDistributed
  QuoteSuffices
PROPERTIES
  PrepaidIsProtected
