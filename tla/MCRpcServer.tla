----------------------------- MODULE MCRpcServer -----------------------------
(***************************************************************************)
(* Six transactions: an upload, the deployment of a contract from it with   *)
(* an account created beside it, two invocations that store under one key   *)
(* (a negative i128, and a vec), one of a map the semantics cannot build,   *)
(* and one with an operation the node has no use for.  The bodies send them *)
(* in batches with the reads that see them.                                 *)
(***************************************************************************)
EXTENDS RpcClaims

CONSTANTS up, mk, put1, put2, put3, pay, acct, wasm, cid, sym, ff

\* -5 and a u256 that uses all four words, when a word has two bits.
minus5 == <<"i128", <<-2, 3>>>>
big    == <<"u256", <<3, 0, 2, 1>>>>
name   == <<"symbol", sym>>
pair   == <<"vec", <<minus5, big>>>>
addr   == <<"address", <<"account", acct>>>>
dict   == <<"map", {<<name, big>>}>>
huge   == <<"i256", <<-2, 1, 0, 3>>>>
odd    == <<"string", ff>>

twice  == <<"map", {<<name, big>>, <<name, minus5>>}>>

MCScVals == {minus5, big, name, pair, addr, dict, huge, odd, twice}

Put(func, k, v) == [type |-> "invokeContract", to |-> cid, func |-> func, args |-> <<k, v>>]

MCTx  == {up, mk, put1, put2, put3, pay}
MCOps == [t \in MCTx |->
  CASE t = up   -> <<[type |-> "upload", hash |-> wasm, parses |-> TRUE]>>
    [] t = mk   -> <<[type |-> "createAccount", account |-> acct, balance |-> 20],
                     [type |-> "createContract", address |-> cid, wasmHash |-> wasm,
                      isWasm |-> TRUE]>>
    [] t = put1 -> <<Put("persistent", name, minus5)>>
    [] t = put2 -> <<Put("persistent", name, pair), Put("instance", addr, dict),
                     Put("temporary", name, huge)>>
    [] t = put3 -> <<Put("persistent", name, twice)>>
    [] t = pay  -> <<[type |-> "upload", hash |-> wasm, parses |-> TRUE],
                     [type |-> "other"]>>]

MCUploads == {up}
MCEmits   == [t \in MCTx |-> << >>]

C(method, t) == [method |-> method, tx |-> t, keys |-> << >>, valid |-> TRUE]
E(n, call)   == [frame |-> "ok", id |-> n, call |-> call]
Bad(f, n)    == [frame |-> f, id |-> n, call |-> C("unknown", NoTx)]
Send(n, t)   == E(n, C("sendTransaction", t))
Entries(n, keys) == E(n, [C("getLedgerEntries", NoTx) EXCEPT !.keys = keys])
Batch(es)    == [parses |-> TRUE, batch |-> TRUE, elements |-> es]
Single(e)    == [parses |-> TRUE, batch |-> FALSE, elements |-> <<e>>]

Data(k, d) == [type |-> "CONTRACT_DATA", contract |-> cid, key |-> k, durability |-> d]
CodeKey    == [type |-> "CONTRACT_CODE", hash |-> wasm]
AcctKey    == [type |-> "ACCOUNT", account |-> acct]
Inst       == Data(InstanceKey, "persistent")

MCBodies == {
  Batch(<<Send(1, up), Send(NoId, mk), Entries(3, <<AcctKey, CodeKey>>)>>),
  Batch(<<Send(1, put1), Bad("badFrame", NoId), Send(3, put2),
          Entries(4, <<Data(name, "persistent"), Inst, Data(name, "temporary")>>)>>),
  Batch(<<Send(1, pay), Bad("notObject", NoId), E(NoId, C("unknown", NoTx)),
          Send(4, put1), E(5, C("getTransaction", put1)), E(6, C("traceTransaction", put1))>>),
  Batch(<< >>),
  [parses |-> FALSE, batch |-> FALSE, elements |-> << >>],
  Batch(<<E(1, [C("getTransaction", up) EXCEPT !.valid = FALSE]), Bad("badParams", 2),
          Entries(0, <<CodeKey>>), Send(3, up), E(4, C("simulateTransaction", put1)),
          E(5, C("simulateTransaction", up)), Entries(6, <<[type |-> "garbage"]>>),
          Entries(7, <<Inst, Inst, CodeKey, AcctKey>>), E(8, C("getHealth", NoTx)),
          Entries(9, <<CodeKey, Data(twice, "persistent")>>), Send(10, put3)>>),
  Single(E(NoId, C("simulateTransaction", put1))) }

\* A key that is a string of bytes which are no text: nothing is stored there.
OddKeys == {Single(Entries(1, <<Data(odd, "persistent"), AcctKey>>))}
=============================================================================
