SPECIFICATION Spec
CONSTANTS
  alice = alice
  bob = bob
  router = router
  vault = vault
  deposit = deposit
  execute = execute
  p1 = p1
  other = other
  nobody = nobody
  NoToken = NoToken
  ZeroHash = ZeroHash
  Origins = {alice}
  Routers = {router}
  Consumers = {vault}
  Methods = {deposit}
  Data = {deposit}
  MethodOf <- MethodOfAll
  AssemblyReturns = {deposit}
  CallPolicies = {p1}
  OtherPolicies = {other}
  ApprovalLists <- NestedLists
  Owner = nobody
  PolicyAdmin = nobody
  SignerKeys = {}
  AdminOf <- AdminIsOffline
  InitialWorlds <- NestedWorlds
  MaxSlots = 2
  MaxDepth = 4
  MaxNonce = 2
  MaxTime = 1
  MaxSigned = 0
INVARIANTS
  TypeOK
  RunningCallsAreApproved
  EachCallHasItsOwnApproval
  ConsumedInOrder
PROPERTIES
  SpentOnce
  ImplementsTickets
