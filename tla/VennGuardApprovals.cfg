SPECIFICATION Spec
CONSTANTS
  pay = pay
  swap = swap
  NoHash = NoHash
  NoTx = NoTx
  Batches = {pay, swap}
  SafeTxs <- WithPlainCall
  WaitTime = 0
  MaxTime = 2
  MaxNonce = 2
  MaxDepth = 3
INVARIANTS
  EachNonceApprovesOnce
PROPERTIES
  ExecutedIfApprovedOrAnnounced
  AnnouncementsStand
