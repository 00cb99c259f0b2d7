CONSTANTS
  o1 = o1
  o2 = o2
  Deployer = deployer
  Operators = {o1, o2}
  MetadataURIs = {"new"}
  RequiredLists = {{}, {1}}
  Prepaid = TRUE
  Scenarios <- SetupScenarios
  MaxDefinitions = 2
  MaxPolicies = 2
  MaxHeight = 5
  MaxRestarts = 1
  StartBlock = 1
  BLOCK_RANGE = 3
  MaxFailures = 1
  MaxCrashes = 1
  Syncers = {s1, s2}
  MaxUpkeep = 2
  Owners <- ThreeOwners
  Threshold = 2
  MaxReruns = 1

SPECIFICATION NetworkSpec
CHECK_DEADLOCK FALSE
INVARIANTS
  SampleIsComplete
  SubnetsAreComplete
  PagedExactly
  ProtocolsWereCurrent
  QuietScanIsExact
  RegisteredHaveStake
  PowerFollowsStake
  SafeExecutesOnce
  QuietRunSucceeds
PROPERTIES
  EventuallyKnown
