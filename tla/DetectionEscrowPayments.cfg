SPECIFICATION EscrowSpec
CONSTANTS
  FeeScale = 4
  MaxFee = 2
  DetectionFees = {0, 1, 2, 3}
  EscrowAmounts = {1, 3}
  MaxDeposited = 4
  MaxRequested = 4
  MaxPayments = 2
INVARIANTS
  ApprovedIsPaid
  RequestsArePaidOnce
