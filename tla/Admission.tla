------------------------------ MODULE Admission ------------------------------
(***************************************************************************)
(* What the transaction encoder makes of the operations of a transaction    *)
(* envelope (transaction.py), and what the result it is answered with is    *)
(* made of once it ran (result_xdr.py).  Both go over the operations; they  *)
(* have to agree on which there can be.                                     *)
(*                                                                         *)
(* An operation is a record whose `type` names its kind; "upload",          *)
(* "createContract" and "invokeContract" are the three InvokeHostFunction   *)
(* kinds, and "other" is every kind the node has no use for.                *)
(***************************************************************************)
EXTENDS ScVal, FiniteSetsExt, SequencesExt

CONSTANT NoContract    \* an address that is not a contract's

HostFunctions == {"upload", "createContract", "invokeContract"}

\* Amounts are counted in tenths of a stroop: the finest a client can send.
TenthsPerStroop == 10

NoStep   == [op |-> "none"]
BadStep  == [op |-> "raises"]

\* Decimal: exact, and refused rather than rounded.
XlmToStroops(tenths) ==
  IF tenths % TenthsPerStroop = 0 THEN tenths \div TenthsPerStroop ELSE -1

SetAccount(op) ==
  IF XlmToStroops(op.balance) = -1 THEN BadStep
  ELSE [op |-> "setAccount", account |-> op.account,
        balance |-> XlmToStroops(op.balance)]

\* Only contracts made of wasm can be deployed.
DeployContract(op) ==
  IF ~op.isWasm THEN BadStep
  ELSE [op |-> "deployContract", address |-> op.address, wasmHash |-> op.wasmHash]

CallTx(op) ==
  LET args == [i \in DOMAIN op.args |-> scval_to_json[op.args[i]]]
  IN  IF op.to = NoContract \/ \E i \in DOMAIN args : Raises(args[i]) THEN BadStep
      ELSE [op |-> "callTx", to |-> op.to, func |-> op.func, args |-> args]

\* _encode_operation; NoStep stands for None.
EncodeOperation(op) ==
  CASE op.type = "createAccount"  -> SetAccount(op)
    [] op.type = "createContract" -> DeployContract(op)
    [] op.type = "invokeContract" -> CallTx(op)
    [] OTHER -> NoStep

\* _encode_steps: the first operation that has no step, or cannot be encoded,
\* ends the encoding of the others.
EncodeSteps(ops) ==
  LET steps == [i \in DOMAIN ops |-> EncodeOperation(ops[i])]
      stops == {i \in DOMAIN ops : steps[i] \in {NoStep, BadStep}}
  IN  IF stops = {} THEN [path |-> "steps", steps |-> steps]
      ELSE [path |-> IF steps[Min(stops)] = NoStep THEN "none" ELSE "raises",
            steps |-> << >>]

\* _upload_steps: every operation is an upload whose bytes parse.
UploadSteps(ops) ==
  IF \A i \in DOMAIN ops : ops[i].type = "upload" /\ ops[i].parses
  THEN [path |-> "upload",
        steps |-> [i \in DOMAIN ops |-> [op |-> "uploadWasm", hash |-> ops[i].hash]]]
  ELSE [path |-> "raises", steps |-> << >>]

BuildTxRequest(ops) ==
  IF EncodeSteps(ops).path = "none" THEN UploadSteps(ops) ELSE EncodeSteps(ops)

Admitted(ops) == BuildTxRequest(ops).path # "raises"

\* build_simulate_request: one operation, and that a contract invocation.
BuildSimulateRequest(ops) ==
  IF Len(ops) # 1 THEN "rejected"
  ELSE IF ops[1].type # "invokeContract" THEN "rejected"
  ELSE IF EncodeOperation(ops[1]) = BadStep THEN "raises" ELSE "step"

-----------------------------------------------------------------------------
(* result_xdr.py.                                                           *)

\* A mutant: the deployment of a contract is forgotten.
OpSuccessResultOfCalls(op) ==
  CASE op.type = "createAccount" -> "CREATE_ACCOUNT_SUCCESS"
    [] op.type \in {"upload", "invokeContract"} -> "INVOKE_HOST_FUNCTION_SUCCESS"
    [] OTHER -> "raises"

OpSuccessResult(op) ==
  CASE op.type = "createAccount" -> "CREATE_ACCOUNT_SUCCESS"
    [] op.type \in HostFunctions -> "INVOKE_HOST_FUNCTION_SUCCESS"
    [] OTHER -> "raises"

OpFailureResults(ops) ==
  IF Len(ops) = 1 /\ ops[1].type \in HostFunctions
  THEN <<"INVOKE_HOST_FUNCTION_TRAPPED">> ELSE << >>

TransactionResult(ops, success) ==
  [code    |-> IF success THEN "txSUCCESS" ELSE "txFAILED",
   results |-> IF success THEN [i \in DOMAIN ops |-> OpSuccessResult(ops[i])]
               ELSE OpFailureResults(ops)]

\* Whether a result can be made at all: one of the operations may raise.
ResultEncodes(ops) ==
  "raises" \notin {TransactionResult(ops, TRUE).results[i] : i \in DOMAIN ops}

\* An admitted transaction that ran can be answered, and takes the path of
\* uploads only if it is made of them.
Finishes(ops) ==
  /\ ResultEncodes(ops)
  /\ BuildTxRequest(ops).path = "upload" <=>
       ops # << >> /\ \A i \in DOMAIN ops : ops[i].type = "upload"
=============================================================================
