SPECIFICATION Spec
CONSTANTS
  a = a
  b = b
  u = u
  NoTx = NoTx
  Tx <- MCTx
  Uploads <- MCUploads
  Opaque <- MCOpaque
  Emits <- MCEmits
  Times = {1, 2}
  MaxStaged = 1
INVARIANTS
  TypeOK
  ChainAgreement
  HashChain
  ArtifactsComplete
  NoReturnValueLeft
PROPERTY
  ImplementsTxLog
