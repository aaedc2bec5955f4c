SPECIFICATION RetryingSpec
CONSTANTS
  a = a
  u = u
  NoTx = NoTx
  Tx <- MCTx
  Uploads <- MCUploads
  Opaque <- MCOpaque
  Emits <- MCEmits
  Times = {1}
  MaxStaged = 1
  MaxFaults = 2
INVARIANTS
  NodeInv
  WorldFollowsLedgers
  AckedIsDurable
  BaselineIsPriorState
  EventsSound
  PersistedConfigIdle
PROPERTIES
  Answered
  RetriedIsDecided
  ReceiptFinal
  TraceFrozen
  ImplementsLossyTxLog
