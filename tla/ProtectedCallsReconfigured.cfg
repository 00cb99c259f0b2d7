SPECIFICATION Spec
CONSTANTS
  alice = alice
  bob = bob
  router = router
  vault = vault
  deposit = deposit
  execute = execute
  p1 = p1
  other = other
  nobody = nobody
  NoToken = NoToken
  ZeroHash = ZeroHash
  Origins = {alice}
  Routers = {router}
  Consumers = {vault}
  Methods = {deposit, execute}
  Data = {deposit, execute}
  MethodOf <- MethodOfAll
  AssemblyReturns = {execute}
  CallPolicies = {p1}
  OtherPolicies = {}
  ApprovalLists <- ReconfiguredLists
  Owner = vault
  PolicyAdmin = nobody
  SignerKeys = {}
  AdminOf <- AdminIsSelf
  InitialWorlds <- ReconfiguredWorlds
  MaxSlots = 1
  MaxDepth = 3
  MaxNonce = 1
  MaxTime = 0
  MaxSigned = 0
CONSTRAINT Scope
PROPERTIES
  EffectsPassPostHooks
