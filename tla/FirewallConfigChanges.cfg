SPECIFICATION Spec
CONSTANTS
  vault = vault
  bank = bank
  alice = alice
  bob = bob
  p1 = p1
  p2 = p2
  m1 = m1
  NoOne = NoOne
  NoMethod = NoMethod
  NoCall = NoCall
  Consumers = {vault, bank}
  Methods = {m1}
  Policies = {p1, p2}
  Accounts = {alice, bob}
  Candidates = {alice, bob}
  Owner = alice
  FirstOwners <- SomeOwners
  FirstAdmins <- SomeAdmins
  MaxBatch = 2
SYMMETRY PolicySymmetry
CONSTRAINT Scope
INVARIANTS
  NoDuplicates
  PendingIsFromAdmin
PROPERTIES
  BatchesAreAtomic
  OnlyAdminConfigures
  ImplementsSubscriptions
