---------------------------- MODULE LedgerEntries ----------------------------
(***************************************************************************)
(* getLedgerEntries (ledger_entries.py and node.md).  Python turns the      *)
(* ledger keys of the request into descriptors, K looks these up in the     *)
(* world state, Python turns what was found into ledger entries.            *)
(*                                                                         *)
(* The world state is a function from the places something is stored at to  *)
(* what is stored there.  TTLs are left out.                                *)
(***************************************************************************)
EXTENDS Admission

CONSTANT KeyLimit    \* KEY_LIMIT

\* The ScVal that names the entry of a contract itself.
InstanceKey == <<"ledgerKeyContractInstance", "">>

-----------------------------------------------------------------------------
(* Request: LedgerKey -> key descriptor.                                    *)

UnsupportedKey == [kind |-> "unsupported"]

DataDescriptor(k) ==
  LET sc == scval_to_json[k.key]
  IN  IF sc = Raise("NotImplementedError") THEN UnsupportedKey
      ELSE IF Raises(sc) THEN [kind |-> "raises"]
      ELSE [kind |-> "contractData", contract |-> k.contract,
            durability |-> k.durability, scKey |-> sc]

Descriptor(k) ==
  CASE k.type = "ACCOUNT" -> [kind |-> "account", accountId |-> k.account]
    [] k.type = "CONTRACT_CODE" -> [kind |-> "contractCode", hash |-> k.hash]
    [] k.type = "CONTRACT_DATA" ->
         IF k.contract = NoContract THEN UnsupportedKey
         ELSE IF k.key # InstanceKey THEN DataDescriptor(k)
         ELSE IF k.durability = "persistent"
              THEN [kind |-> "contractInstance", contract |-> k.contract]
         ELSE UnsupportedKey
    [] OTHER -> UnsupportedKey

\* What becomes of the list: a key that is no XDR, or one too many, is the
\* client's error; one whose ScVal cannot be decoded is an internal error.
KeysOutcome(keys) ==
  LET Bad(i) == keys[i].type = "garbage" \/ Descriptor(keys[i]).kind = "raises"
      bad    == {i \in DOMAIN keys : Bad(i)}
  IN  IF Len(keys) > KeyLimit THEN "invalidParams"
      ELSE IF bad = {} THEN "lookup"
      ELSE IF keys[Min(bad)].type = "garbage" THEN "invalidParams" ELSE "internal"

-----------------------------------------------------------------------------
(* The world state.                                                         *)

\* A key whose ScVal the semantics can build.
Buildable(d) == d.kind = "contractData" => Defined[d.scKey]

EmptyWorld == << >>

\* The place a descriptor is looked up at.
Place(d) ==
  CASE d.kind = "account" -> <<"account", d.accountId>>
    [] d.kind = "contractCode" -> <<"code", d.hash>>
    [] d.kind = "contractInstance" -> <<"contract", d.contract>>
    [] d.kind = "contractData" ->
         <<"data", d.contract, d.durability, decodeArg[d.scKey]>>
    [] OTHER -> <<"nowhere">>

\* The place a step writes.  What the called contract does is not the node's: a
\* call stores its second argument under its first, where the function's name says.
Target(step) ==
  CASE step.op = "setAccount" -> <<"account", step.account>>
    [] step.op = "uploadWasm" -> <<"code", step.hash>>
    [] step.op = "deployContract" -> <<"contract", step.address>>
    [] step.op = "callTx" ->
         IF step.func = "instance" THEN <<"contract", step.to>>
         ELSE <<"data", step.to, step.func, decodeArg[step.args[1]]>>

StoredIn(storage, key, val) == {e \in storage : e[1] # key} \cup {<<key, val>>}

\* What it leaves there.
Content(w, step) ==
  CASE step.op = "setAccount" -> step.balance
    [] step.op = "uploadWasm" -> step.hash
    [] step.op = "deployContract" -> [wasmHash |-> step.wasmHash, storage |-> {}]
    [] step.op = "callTx" ->
         LET key == decodeArg[step.args[1]]
             val == decodeArg[step.args[2]]
         IN  IF step.func = "instance"
             THEN [w[Target(step)] EXCEPT !.storage = StoredIn(@, key, val)]
             ELSE val

RunStep(w, step) ==
  [p \in DOMAIN w \cup {Target(step)} |->
     IF p = Target(step) THEN Content(w, step) ELSE w[p]]

\* The steps run one after the other, each in the world the last one left:
\* WorldsOf(steps)[n] is the one after the first n.
WorldsOf(steps) ==
  LET world[n \in 0 .. Len(steps)] ==
        IF n = 0 THEN EmptyWorld ELSE RunStep(world[n - 1], steps[n])
  IN  world

RunSteps(steps) == WorldsOf(steps)[Len(steps)]

\* The places the steps write, which something is at from then on.
Places(steps) == {Target(steps[i]) : i \in DOMAIN steps}

\* A step the semantics run: deploying needs the code, calling the contract and
\* arguments that can be decoded.
CanRun(written, step) ==
  CASE step.op = "deployContract" -> <<"code", step.wasmHash>> \in written
    [] step.op = "callTx" ->
         /\ <<"contract", step.to>> \in written
         /\ \A i \in DOMAIN step.args : Defined[step.args[i]]
    [] OTHER -> TRUE

AllCanRun(written, steps) ==
  \A i \in DOMAIN steps :
    CanRun(written \cup {Target(steps[j]) : j \in 1 .. i - 1}, steps[i])

-----------------------------------------------------------------------------
(* #ledgerEntries: one intermediate entry per key that resolves, in order.  *)

PayloadJson(w, d) ==
  LET stored == w[Place(d)]
  IN  CASE d.kind = "contractInstance" ->
             [wasmHash |-> stored.wasmHash,
              storage  |-> {<<scVal2JSON[e[1]], scVal2JSON[e[2]]>> : e \in stored.storage}]
        [] d.kind = "contractData" -> scVal2JSON[stored]
        [] OTHER -> stored

Found(w, k) ==
  IF Place(Descriptor(k)) \in DOMAIN w
  THEN <<[key |-> k, kind |-> Descriptor(k).kind,
          payload |-> PayloadJson(w, Descriptor(k))]>>
  ELSE << >>

Lookup(w, keys) == FlattenSeq([i \in DOMAIN keys |-> Found(w, keys[i])])

-----------------------------------------------------------------------------
(* Response: intermediate entry -> LedgerEntryData.                         *)

\* An entry that cannot be represented is dropped from the answer.
Dropped == <<"dropped">>

InstanceData(payload) ==
  LET storage == MapOf({<<scval_from_json[e[1]], scval_from_json[e[2]]>> :
                          e \in payload.storage})
  IN  IF Raises(storage) THEN Dropped
      ELSE <<"instance", payload.wasmHash, storage[2]>>

ValueData(payload) ==
  IF Raises(scval_from_json[payload]) THEN Dropped
  ELSE <<"value", scval_from_json[payload]>>

\* Code is served from the file its bytes were kept in at the upload.
EntryData(entry, wasmFiles) ==
  CASE entry.kind = "account" -> <<"balance", entry.payload>>
    [] entry.kind = "contractCode" ->
         IF entry.payload \in wasmFiles THEN <<"code", entry.payload>> ELSE Dropped
    [] entry.kind = "contractInstance" -> InstanceData(entry.payload)
    [] entry.kind = "contractData" -> ValueData(entry.payload)

\* The entry in the answer, or nothing.
Formatted(key, data, latestLedger) ==
  IF data = Dropped THEN << >>
  ELSE <<[key |-> key, lastModified |-> latestLedger, data |-> data]>>

FormatResponse(found, latestLedger, wasmFiles) ==
  [entries |-> FlattenSeq([i \in DOMAIN found |->
                 Formatted(found[i].key, EntryData(found[i], wasmFiles), latestLedger)]),
   latestLedger |-> latestLedger]
=============================================================================
