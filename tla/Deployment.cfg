SPECIFICATION Spec
CONSTANTS
  Deployer = deployer
  adminAddress = admin
  Networks = {"17000", "80002"}
  AvsNames = {1, 2}
  Ranges <- OnlyOrFrom
  MaxRuns = 1
  MaxCrashes = 1
CHECK_DEADLOCK FALSE
INVARIANTS
  PublishedIsReady
  WiredInOrder
PROPERTIES
  EventuallyDeployed
