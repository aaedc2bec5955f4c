SPECIFICATION PagingSpec
CONSTANTS
  a = a
  b = b
  c = c
  NoTx = NoTx
  Tx <- MCTx
  Uploads = {}
  Opaque = {}
  Emits <- MCEmits
  Times = {1}
  MaxStaged = 0
  LedgerUnit = 16
  OrderUnit = 4
  Limits = {1, 2}
  Starts = {1, 2}
  EndLedgers <- MCEndLedgers
  Wanted <- MCWanted
INVARIANTS
  PagingTypeOK
  HistoryExactlyOnce
  EventsExactlyOnce
