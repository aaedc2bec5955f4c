SPECIFICATION RpcSpec
CONSTANTS
  up = up
  mk = mk
  put1 = put1
  put2 = put2
  put3 = put3
  pay = pay
  acct = acct
  wasm = wasm
  cid = cid
  sym = sym
  ff = ff
  NoTx = NoTx
  NoId = NoId
  NoContract = NoContract
  Tx <- MCTx
  Uploads <- MCUploads
  Opaque = {put2}
  Emits <- MCEmits
  Times = {1}
  MaxStaged = 0
  MaxFaults = 0
  WordBase = 4
  ScVals <- MCScVals
  NotUtf8 = {ff}
  KeyLimit = 3
  Ops <- MCOps
  Bodies <- OddKeys
  MaxBodies = 2
INVARIANT UnresolvedKeysAreAbsent
