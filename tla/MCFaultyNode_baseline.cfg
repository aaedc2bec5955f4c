SPECIFICATION FaultySpec
CONSTANTS
  a = a
  u = u
  NoTx = NoTx
  Tx <- MCTx
  Uploads <- MCUploads
  Opaque <- MCOpaque
  Emits <- MCEmits
  Times = {1}
  MaxStaged = 1
  MaxFaults = 0
INVARIANT
  BaselineSequenceIsOwn
