SPECIFICATION Spec
CONSTANTS
  alice = alice
  bob = bob
  router = router
  vault = vault
  deposit = deposit
  execute = execute
  p1 = p1
  other = other
  nobody = nobody
  NoToken = NoToken
  ZeroHash = ZeroHash
  Origins = {alice, bob}
  Routers = {router}
  Consumers = {vault}
  Methods = {deposit}
  Data = {deposit}
  MethodOf <- MethodOfAll
  AssemblyReturns = {}
  CallPolicies = {p1}
  OtherPolicies = {}
  ApprovalLists <- SignedLists
  Owner = nobody
  PolicyAdmin = bob
  SignerKeys = {bob}
  AdminOf <- AdminIsOffline
  InitialWorlds <- SignedWorlds
  MaxSlots = 1
  MaxDepth = 3
  MaxNonce = 2
  MaxTime = 0
  MaxSigned = 2
INVARIANTS
  ApprovalsNotReplayed
