----------------------------- MODULE ChainStore -----------------------------
(***************************************************************************)
(* The io-dir of a komet node: the directory that holds the whole chain     *)
(* between two runs of the one-shot interpreter (class ChainStore).  Each   *)
(* file, or directory of per-item files, is one variable.                   *)
(*                                                                         *)
(* A directory is a function whose domain is the set of files it holds, so  *)
(* "the file exists" is membership in the domain.  The data inside a file   *)
(* is abstracted to what the properties tell apart: a configuration to the  *)
(* sequence of transactions whose effects it contains, a ledger hash to an  *)
(* injective function (a tuple) of the header fields it is computed from.   *)
(***************************************************************************)
EXTENDS Integers, Sequences

CONSTANTS
  Tx,        \* the transactions clients may submit, named by their hash
  NoTx,      \* "no transaction"; not a member of Tx
  Uploads,   \* the transactions that consist of one wasm upload
  Emits,     \* Emits[t]: the events the steps of t stage if nothing traps
  Opaque,    \* transactions that may return what scval_from_json cannot decode
  Times      \* the wall-clock seconds int(time.time()) may return

(***************************************************************************)
(* A staged event is "plain", or "opaque" when its topics or data hold a    *)
(* value with no JSON form.  uploadWasm runs no contract code, so an upload *)
(* stages no event and leaves no return value.                              *)
(***************************************************************************)
ASSUME ChainStoreAssumption ==
  /\ NoTx \notin Tx
  /\ Uploads \subseteq Tx
  /\ Emits \in [Tx -> Seq({"plain", "opaque"})]
  /\ Opaque \subseteq Tx \ Uploads
  /\ \A t \in Uploads : Emits[t] = << >>
  /\ Times \subseteq Nat \ {0}

VARIABLES
  stateKore,   \* state.kore
  latest,      \* metadata.json's latest_ledger, or NoMetadata
  receipts,    \* receipts/receipt_<hash>.json
  traces,      \* traces/trace_<hash>.jsonl
  staged,      \* events_staged.jsonl (an absent file and an empty one alike)
  events,      \* events/events_<ledger>.json
  wasms,       \* wasms/<hash>.wasm, named by the transaction that uploads it
  ledgers,     \* ledgers/ledger_<seq>.json
  response     \* response.json

chainFiles == <<receipts, traces, events, wasms, ledgers>>
storeVars  == <<stateKore, latest, receipts, traces, staged, events, wasms,
                ledgers, response>>

NoMetadata == -1

-----------------------------------------------------------------------------
(* The files.                                                               *)

\* A K configuration.  `idle` says that its <k>, <instrs> and <program> cells
\* are empty, which is what a run that got stuck never reaches.
Config == [txs : Seq(Tx), idle : BOOLEAN]

EmptyConfig == [txs |-> << >>, idle |-> TRUE]

\* state.kore is rewritten in place with write_text: it is opened, truncated
\* and then written.  While `file` is "torn" it holds no configuration, and
\* `config` is only a record of the last one it held: nothing reads it.
StateKore == [file : {"absent", "torn", "whole"}, config : Config]

Receipt == [status : {"SUCCESS", "FAILED"},
            ledger : Nat,
            result : {"returnValue", "resultXdr", "voidXdr", "omitted"}]

\* The first record of a trace: the ledger baseline.  The balances in it stand
\* for the transactions that made them, those that act on accounts.
Trace == [sequence : Nat, accounts : SUBSET Tx]

StagedEvent == [tx : Tx, data : {"plain", "opaque"}]

Event == [index : Nat, origin : Tx, txHash : Tx]

Responses == {"none", "PENDING", "DUPLICATE", "result"}

\* write_text / #writeFile: create the file or replace its content.
WriteFile(dir, name, content) ==
  [n \in DOMAIN dir \cup {name} |-> IF n = name THEN content ELSE dir[n]]

NoFiles == [n \in {} |-> {}]

-----------------------------------------------------------------------------
(* Ledger header artifacts.  SHA-256 over the header XDR is modelled as the *)
(* tuple of the header fields that are not constant.                        *)

GenesisHash == << >>

HeaderHash(seq, closedAt, previous) == <<seq, closedAt, previous>>

LedgerRecord(seq, txHash, closedAt, previous) ==
  [txHash   |-> txHash,
   closedAt |-> closedAt,
   previous |-> previous,
   hash     |-> HeaderHash(seq, closedAt, previous)]

\* A mutant: the record of seq itself instead of the one before it.
PreviousHashAtSeq(seq) ==
  IF seq \in DOMAIN ledgers THEN ledgers[seq].hash ELSE GenesisHash

\* The hash a new record of ledger seq chains to.
PreviousHash(seq) ==
  IF seq - 1 \in DOMAIN ledgers THEN ledgers[seq - 1].hash ELSE GenesisHash

HasReceipt(t) == t \in DOMAIN receipts

Succeeded(t) == HasReceipt(t) /\ receipts[t].status = "SUCCESS"
Failed(t)    == HasReceipt(t) /\ receipts[t].status = "FAILED"

\* The transactions whose effects the last configuration written to state.kore
\* contains.  While the file is torn that is a record of what it held: what can
\* still be loaded is Applied only if stateKore.file = "whole".
Applied == {stateKore.config.txs[i] : i \in 1 .. Len(stateKore.config.txs)}

-----------------------------------------------------------------------------
(* An io-dir nobody has served from yet: the directories exist (the         *)
(* constructor makes them), no file does.                                   *)
StoreInit ==
  /\ stateKore = [file |-> "absent", config |-> EmptyConfig]
  /\ latest = NoMetadata
  /\ receipts = NoFiles
  /\ traces = NoFiles
  /\ staged = << >>
  /\ events = NoFiles
  /\ wasms = {}
  /\ ledgers = NoFiles
  /\ response = "none"

StoreTypeOK ==
  /\ stateKore \in StateKore
  /\ latest \in Nat \cup {NoMetadata}
  /\ DOMAIN receipts \subseteq Tx
  /\ \A t \in DOMAIN receipts : receipts[t] \in Receipt
  /\ DOMAIN traces \subseteq Tx
  /\ \A t \in DOMAIN traces : traces[t] \in Trace
  /\ staged \in Seq(StagedEvent)
  /\ DOMAIN events \subseteq Nat
  /\ \A n \in DOMAIN events : events[n] \subseteq Event
  /\ wasms \subseteq Uploads
  /\ DOMAIN ledgers \subseteq Nat
  /\ \A n \in DOMAIN ledgers :
       /\ DOMAIN ledgers[n] = {"txHash", "closedAt", "previous", "hash"}
       /\ ledgers[n].txHash \in Tx
       /\ ledgers[n].closedAt \in Times
  /\ response \in Responses
=============================================================================
