------------------------------ MODULE KometNode ------------------------------
(***************************************************************************)
(* One komet node serving requests over its io-dir.                         *)
(*                                                                         *)
(* The HTTP server is single-threaded, so at most one request is in flight. *)
(* Serving it interleaves two programs that share the io-dir: the Python    *)
(* server (StellarRpcServer, NodeInterpreter) and the K semantics run by    *)
(* the interpreter subprocess (node.md).  `pc` says which of their steps is *)
(* next; a step is one write to the io-dir, because that is the grain at    *)
(* which a failure (module FaultyNode) can separate them.                   *)
(*                                                                         *)
(*   Python: submit -> launch                                               *)
(*   K:        [program] -> dispatch -> steps -> metadata -> receipt ->     *)
(*             respond -> exit                                              *)
(*   Python: truncate -> persist -> attach -> events -> file -> [wasm] ->   *)
(*           close, or after a run that got stuck: clear -> fail            *)
(*                                                                         *)
(* A request rejected before it reaches the store (undecodable XDR, an      *)
(* inadmissible transaction, bad parameters) changes nothing modelled here. *)
(***************************************************************************)
EXTENDS ChainStore

CONSTANT
  MaxStaged    \* bound: staged events a simulation may add up to

ASSUME MaxStagedAssumption == MaxStaged \in Nat

VARIABLES
  pc,      \* the next step of the request in flight
  cur,     \* the request in flight
  config,  \* the configuration in the memory of the interpreter
  acked    \* history: the transactions a client was answered PENDING for

nodeVars == <<pc, cur, config, acked>>
vars     == <<storeVars, nodeVars>>

Booting == {"down", "seeding", "seeded", "resuming"}
InK     == {"program", "dispatch", "steps", "metadata", "receipt", "respond",
            "exit"}
InPython == {"launch", "persist", "fail", "attach", "events", "file", "wasm", "close"}

\* `dup` is is_duplicate: the hash had a receipt when the request came in;
\* `lines` are the staged events the server holds while it makes records of them.
Request == [method : {"none", "sendTransaction", "read"}, tx : Tx \cup {NoTx},
            dup : BOOLEAN, now : Times \cup {0}, lines : Seq(StagedEvent)]

NoRequest == [method |-> "none", tx |-> NoTx, dup |-> FALSE, now |-> 0,
              lines |-> << >>]

\* Mutants: wrong variants of the definition they stand before, which no action
\* uses; they show that the properties tell them from the code.
InjectsProgramForDuplicates(r) ==
  r.method = "sendTransaction" /\ r.tx \in Uploads

\* Steps embedded in the <program> cell: the upload path, but not for a
\* duplicate, whose injection the server suppresses.
InjectsProgram(r) ==
  /\ r.method = "sendTransaction"
  /\ r.tx \in Uploads
  /\ ~r.dup

\* The first k events of t as they are staged.
StagedBy(t, k) == [i \in 1 .. k |-> [tx |-> t, data |-> Emits[t][i]]]

\* The configuration after the steps of t ran on the one in memory.
RunOf(t) == [txs |-> Append(config.txs, t), idle |-> TRUE]

\* The condition on which the semantics run a sendTransaction's steps.
IsFreshAlways(t)  == TRUE
IsFreshByTrace(t) == t \notin DOMAIN traces

IsFresh(t) == ~HasReceipt(t)

TypeOK ==
  /\ StoreTypeOK
  /\ pc \in {"idle"} \cup Booting \cup InK \cup InPython
  /\ cur \in Request
  /\ config \in Config
  /\ acked \subseteq Tx

Init ==
  /\ StoreInit
  /\ pc = "down"
  /\ cur = NoRequest
  /\ config = EmptyConfig
  /\ acked = {}

-----------------------------------------------------------------------------
(* Start-up, ChainStore.initialize, and shutdown.                           *)

\* A fresh io-dir: state.kore is created, empty until empty_config() is in it.
SeedState ==
  /\ pc = "down"
  /\ stateKore.file = "absent"
  /\ pc' = "seeding"
  /\ stateKore' = [stateKore EXCEPT !.file = "torn"]
  /\ UNCHANGED <<latest, chainFiles, staged, response, cur, config, acked>>

SeedWritten ==
  /\ pc = "seeding"
  /\ pc' = "seeded"
  /\ stateKore' = [file |-> "whole", config |-> EmptyConfig]
  /\ UNCHANGED <<latest, chainFiles, staged, response, cur, config, acked>>

\* An existing state.kore is left untouched, whatever it holds.
ResumeState ==
  /\ pc = "down"
  /\ stateKore.file # "absent"
  /\ pc' = "resuming"
  /\ UNCHANGED <<storeVars, cur, config, acked>>

SeedMetadata ==
  /\ pc \in {"seeded", "resuming"}
  /\ latest' = IF pc = "seeded" \/ latest = NoMetadata THEN 0 ELSE latest
  /\ pc' = "idle"
  /\ UNCHANGED <<stateKore, chainFiles, staged, response, cur, config, acked>>

\* shutdown, between two requests: the next start resumes the io-dir.
Stop ==
  /\ pc = "idle"
  /\ pc' = "down"
  /\ UNCHANGED <<storeVars, cur, config, acked>>

Boot == SeedState \/ SeedWritten \/ ResumeState \/ SeedMetadata

-----------------------------------------------------------------------------
(* The Python side before the run.                                          *)

KeepStaged == UNCHANGED staged

\* clear_staged_events
ClearStaged == staged' = << >>

KeepResponse == UNCHANGED response

\* run starts by unlinking the response of the run before.
UnlinkResponse == response' = "none"

\* sendTransaction for t, up to interpreter.run: is_duplicate is decided and
\* the events an earlier run left behind are cleared.
SubmitTx(t, now) ==
  /\ pc = "idle"
  /\ pc' = "launch"
  /\ cur' = [method |-> "sendTransaction", tx |-> t, dup |-> HasReceipt(t),
             now |-> now, lines |-> << >>]
  /\ ClearStaged
  /\ UNCHANGED <<stateKore, latest, chainFiles, response, config, acked>>

\* A read-only method (getHealth, getTransaction, getLedgerEntries, ...).
SubmitRead ==
  /\ pc = "idle"
  /\ pc' = "launch"
  /\ cur' = [NoRequest EXCEPT !.method = "read"]
  /\ UNCHANGED <<storeVars, config, acked>>

\* interpreter.run: the stale response is unlinked and the interpreter loads
\* state.kore, with the upload steps spliced into its <program> cell.
Launch ==
  /\ pc = "launch"
  /\ stateKore.file = "whole"
  /\ UnlinkResponse
  /\ config' = stateKore.config
  /\ pc' = IF InjectsProgram(cur) THEN "program" ELSE "dispatch"
  /\ UNCHANGED <<stateKore, latest, chainFiles, staged, cur, acked>>

\* The request is over; the next one may come in.
Reply ==
  /\ pc' = "idle"
  /\ cur' = NoRequest
  /\ config' = EmptyConfig

-----------------------------------------------------------------------------
(* The K side.                                                              *)

\* The <program> steps run before request.json is looked at.
ProgramRuns ==
  /\ pc = "program"
  /\ config' = RunOf(cur.tx)
  /\ pc' = "dispatch"
  /\ UNCHANGED <<storeVars, cur, acked>>

\* A run that gets stuck stops where it is, with exit code 0 and no response.
Stuck ==
  /\ config' = [config EXCEPT !.idle = FALSE]
  /\ pc' = "exit"

ProgramStuck ==
  /\ pc = "program"
  /\ Stuck
  /\ UNCHANGED <<storeVars, cur, acked>>

\* A sendTransaction whose hash has a receipt is answered without running it.
DispatchDuplicate ==
  /\ pc = "dispatch"
  /\ cur.method = "sendTransaction"
  /\ ~IsFresh(cur.tx)
  /\ response' = "DUPLICATE"
  /\ pc' = "exit"
  /\ UNCHANGED <<stateKore, latest, chainFiles, staged, cur, config, acked>>

\* The transactions that made the balances of the accounts: an upload makes none.
AccountsOf(txs) == {txs[i] : i \in 1 .. Len(txs)} \ Uploads

BaselineAfterSteps ==
  [sequence |-> latest, accounts |-> AccountsOf(RunOf(cur.tx).txs)]

\* generateLedgerTrace, the sequence being the one setLedgerSequence just set.
\* Of the world it records the balances only: contracts and codes are empty.
Baseline == [sequence |-> latest, accounts |-> AccountsOf(config.txs)]

\* #runTx up to the steps: the trace is cleared and opened with its baseline.
OpenTrace ==
  /\ pc = "dispatch"
  /\ cur.method = "sendTransaction"
  /\ IsFresh(cur.tx)
  /\ traces' = WriteFile(traces, cur.tx, Baseline)
  /\ pc' = "steps"
  /\ UNCHANGED <<stateKore, latest, receipts, staged, events, wasms, ledgers,
                 response, cur, config, acked>>

\* The decoded steps run to the end, staging an event per contract_event.  A
\* call that traps is rolled back and the run goes on (uncheckedCallTx), so
\* fewer events may be staged; those staged before the trap stay.  The upload
\* path carries no steps: they ran in the <program> cell.
StepsRun ==
  /\ pc = "steps"
  /\ config' = IF cur.tx \in Uploads THEN config ELSE RunOf(cur.tx)
  /\ \E k \in 0 .. Len(Emits[cur.tx]) : staged' = staged \o StagedBy(cur.tx, k)
  /\ pc' = "metadata"
  /\ UNCHANGED <<stateKore, latest, chainFiles, response, cur, acked>>

\* The steps get stuck after staging some of their events.
StepsStuck ==
  /\ pc = "steps"
  /\ cur.tx \notin Uploads
  /\ \E k \in 0 .. Len(Emits[cur.tx]) : staged' = staged \o StagedBy(cur.tx, k)
  /\ Stuck
  /\ UNCHANGED <<stateKore, latest, chainFiles, response, cur, acked>>

\* #recordAndRespond: the counter, then the receipt, then the response.
WriteMetadata ==
  /\ pc = "metadata"
  /\ latest' = latest + 1
  /\ pc' = "receipt"
  /\ UNCHANGED <<stateKore, chainFiles, staged, response, cur, config, acked>>

ReceiptOfLedgerBefore ==
  [status |-> "SUCCESS", ledger |-> latest - 1, result |-> "returnValue"]

\* #txReceipt: it carries the new ledger (L + 1, which latest now is) and the
\* K-internal returnValue field.
TxReceipt == [status |-> "SUCCESS", ledger |-> latest, result |-> "returnValue"]

WriteReceipt ==
  /\ pc = "receipt"
  /\ receipts' = WriteFile(receipts, cur.tx, TxReceipt)
  /\ pc' = "respond"
  /\ UNCHANGED <<stateKore, latest, traces, staged, events, wasms, ledgers,
                 response, cur, config, acked>>

RespondPending ==
  /\ pc = "respond"
  /\ response' = "PENDING"
  /\ pc' = "exit"
  /\ UNCHANGED <<stateKore, latest, chainFiles, staged, cur, config, acked>>

\* A read-only method computes its result from the configuration and the
\* files and changes neither.
DispatchRead ==
  /\ pc = "dispatch"
  /\ cur.method = "read"
  /\ response' = "result"
  /\ pc' = "exit"
  /\ UNCHANGED <<stateKore, latest, chainFiles, staged, cur, config, acked>>

\* ... or gets stuck on it.
ReadStuck ==
  /\ pc = "dispatch"
  /\ cur.method = "read"
  /\ Stuck
  /\ UNCHANGED <<storeVars, cur, acked>>

Semantics ==
  \/ ProgramRuns \/ ProgramStuck
  \/ DispatchDuplicate \/ DispatchRead \/ ReadStuck
  \/ OpenTrace \/ StepsRun \/ StepsStuck
  \/ WriteMetadata \/ WriteReceipt \/ RespondPending

-----------------------------------------------------------------------------
(* The Python side after the run.                                           *)

FailedReceiptOfLedgerBefore ==
  [status |-> "FAILED", ledger |-> latest - 1, result |-> "resultXdr"]

FailedReceipt == [status |-> "FAILED", ledger |-> latest, result |-> "resultXdr"]

\* No response.json: the transaction failed.  state.kore stays as it was, what
\* was staged is cleared ...
DropStaged ==
  /\ pc = "exit"
  /\ cur.method = "sendTransaction"
  /\ response = "none"
  /\ ClearStaged
  /\ pc' = "fail"
  /\ UNCHANGED <<stateKore, latest, chainFiles, response, cur, config, acked>>

\* ... and the FAILED receipt is written, at the ledger the chain stays at.
RecordFailure ==
  /\ pc = "fail"
  /\ receipts' = WriteFile(receipts, cur.tx, FailedReceipt)
  /\ acked' = acked \cup {cur.tx}
  /\ Reply
  /\ UNCHANGED <<stateKore, latest, traces, staged, events, wasms, ledgers,
                 response>>

\* A read-only request that got stuck is answered with an internal error.
ReadFails ==
  /\ pc = "exit"
  /\ cur.method = "read"
  /\ response = "none"
  /\ Reply
  /\ UNCHANGED <<storeVars, acked>>

\* state_file.write_text opens and truncates state.kore ...
TruncateState ==
  /\ pc = "exit"
  /\ response # "none"
  /\ stateKore' = [stateKore EXCEPT !.file = "torn"]
  /\ pc' = "persist"
  /\ UNCHANGED <<latest, chainFiles, staged, response, cur, config, acked>>

UncommittedState == [file |-> "whole", config |-> stateKore.config]

PrintedState == [file |-> "whole", config |-> config]

AfterPersistSwapped == IF cur.dup THEN "attach" ELSE "events"

\* The receipt of a duplicate was finished when it was first submitted.
AfterPersist == IF cur.dup THEN "events" ELSE "attach"

\* ... and writes what the interpreter printed.  A read-only request, which
\* is answered here, rewrites state.kore as well.
PersistState ==
  /\ pc = "persist"
  /\ stateKore' = PrintedState
  /\ \/ /\ cur.method = "read"
        /\ Reply
     \/ /\ cur.method = "sendTransaction"
        /\ pc' = AfterPersist
        /\ UNCHANGED <<cur, config>>
  /\ UNCHANGED <<latest, chainFiles, staged, response, acked>>

\* _attach_result_xdr replaces returnValue by resultXdr and resultMetaXdr; of
\* a receipt without that field it would make one that returned nothing.
AttachedTo(result) == IF result = "returnValue" THEN "resultXdr" ELSE "voidXdr"

AttachResult ==
  /\ pc = "attach"
  /\ receipts' = [receipts EXCEPT ![cur.tx].result = AttachedTo(@)]
  /\ pc' = "events"
  /\ UNCHANGED <<stateKore, latest, traces, staged, events, wasms, ledgers,
                 response, cur, config, acked>>

\* A return value it cannot decode: the receipt is stored without returnValue
\* and the exception ends the request with an internal error.  (A transaction
\* of Opaque whose call traps has the return value null, which it can decode.)
AttachFails ==
  /\ pc = "attach"
  /\ cur.tx \in Opaque
  /\ receipts' = [receipts EXCEPT ![cur.tx].result = "omitted"]
  /\ Reply
  /\ UNCHANGED <<stateKore, latest, traces, staged, events, wasms, ledgers,
                 response, acked>>

\* _finalize_events reads the staged lines and clears their file ...
TakeStaged ==
  /\ pc = "events"
  /\ cur' = [cur EXCEPT !.lines = staged]
  /\ ClearStaged
  /\ pc' = "file"
  /\ UNCHANGED <<stateKore, latest, chainFiles, response, config, acked>>

\* The Event records made of the lines: the opaque ones are dropped, the others
\* keep the index of their line, counted from 0.
FinishedEvents ==
  {[index |-> i - 1, origin |-> cur.lines[i].tx, txHash |-> cur.tx] :
     i \in {j \in 1 .. Len(cur.lines) : cur.lines[j].data = "plain"}}

AfterEventsWithoutWasm == "close"

AfterEventsOnce == IF cur.tx \in Uploads /\ ~cur.dup THEN "wasm" ELSE "close"

AfterEvents == IF cur.tx \in Uploads THEN "wasm" ELSE "close"

\* ... and files the records, if there are any, under the ledger just closed.
FileEvents ==
  /\ pc = "file"
  /\ events' = IF FinishedEvents = {} THEN events
               ELSE WriteFile(events, latest, FinishedEvents)
  /\ pc' = AfterEvents
  /\ UNCHANGED <<stateKore, latest, receipts, traces, staged, wasms, ledgers,
                 response, cur, config, acked>>

\* The raw bytes are stored for duplicates too.
StoreWasm ==
  /\ pc = "wasm"
  /\ wasms' = wasms \cup {cur.tx}
  /\ pc' = "close"
  /\ UNCHANGED <<stateKore, latest, receipts, traces, staged, events, ledgers,
                 response, cur, config, acked>>

\* _record_closed_ledger, for duplicates too, and the answer to the client.
CloseLedger ==
  /\ pc = "close"
  /\ ledgers' = WriteFile(ledgers, latest,
                  LedgerRecord(latest, cur.tx, cur.now, PreviousHash(latest)))
  /\ acked' = IF response = "PENDING" THEN acked \cup {cur.tx} ELSE acked
  /\ Reply
  /\ UNCHANGED <<stateKore, latest, receipts, traces, staged, events, wasms,
                 response>>

PostProcess ==
  \/ DropStaged \/ RecordFailure \/ ReadFails \/ TruncateState \/ PersistState
  \/ AttachResult \/ AttachFails
  \/ TakeStaged \/ FileEvents \/ StoreWasm \/ CloseLedger

-----------------------------------------------------------------------------
(* simulateTransaction runs one invocation with commit=False: of its whole  *)
(* run only the staged events and response.json outlive the request.        *)

\* An upload computes no value; the server refuses to simulate it.
CanSimulate(t) == t \notin Uploads

\* A call that returned or trapped is answered, one that got stuck is not.
SimulationAnswers == {"none", "result"}

Simulate(t) ==
  /\ pc = "idle"
  /\ CanSimulate(t)
  /\ stateKore.file = "whole"
  /\ \E k \in 0 .. Len(Emits[t]) :
       /\ Len(staged) + k <= MaxStaged
       /\ staged' = staged \o StagedBy(t, k)
  /\ response' \in SimulationAnswers
  /\ UNCHANGED <<stateKore, latest, chainFiles, pc, cur, config, acked>>

-----------------------------------------------------------------------------
Clients ==
  \/ \E t \in Tx, now \in Times : SubmitTx(t, now)
  \/ SubmitRead
  \/ \E t \in Tx : Simulate(t)

Serving == Launch \/ Semantics \/ PostProcess

Next == Boot \/ Stop \/ Clients \/ Serving

Spec == Init /\ [][Next]_vars

-----------------------------------------------------------------------------
(* Properties.                                                              *)

World == stateKore.config.txs

\* The world state only contains transactions with a SUCCESS receipt, each in
\* a ledger of its own that the counter has reached, in ledger order.  So no
\* transaction is applied twice, whichever runs were cut short in between.
WorldFollowsLedgers ==
  /\ \A i \in 1 .. Len(World) :
       Succeeded(World[i]) /\ receipts[World[i]].ledger <= latest
  /\ \A i, j \in 1 .. Len(World) :
       i < j => receipts[World[i]].ledger < receipts[World[j]].ledger

\* Between requests counter, receipts and world state tell the same story: the
\* n-th transaction applied closed ledger n, the last of them is the latest
\* ledger, and no SUCCESS receipt is without its effects.
ChainAgreement ==
  pc = "idle" =>
    /\ latest = Len(World)
    /\ \A i \in 1 .. Len(World) : receipts[World[i]].ledger = i
    /\ \A t \in Tx : Succeeded(t) => t \in Applied

\* What a client was told is PENDING stays decided: it has a receipt that says
\* FAILED, or one that says SUCCESS and its effects are in every state.kore that
\* can be loaded, now or later.  A death while the file is rewritten may leave
\* none that can; it never leaves one that lacks an acknowledged transaction.
AckedIsDurable ==
  \A t \in acked :
    \/ Failed(t)
    \/ Succeeded(t) /\ (stateKore.file = "whole" => t \in Applied)

\* A receipt is written once: a later submission, of this or another
\* transaction, leaves it alone.  (The one permitted change takes the
\* K-internal returnValue out of a fresh SUCCESS receipt.)
ReceiptFinal ==
  [][\A t \in DOMAIN receipts :
       /\ t \in DOMAIN receipts'
       /\ receipts'[t] # receipts[t] =>
            /\ receipts[t].result = "returnValue"
            /\ receipts'[t] = [receipts[t] EXCEPT !.result = receipts'[t].result]
    ]_vars

\* Resubmitting a transaction that has a receipt never disturbs its trace.
TraceFrozen ==
  [][\A t \in DOMAIN receipts \cap DOMAIN traces :
       t \in DOMAIN traces' /\ traces'[t] = traces[t]]_vars

\* The balances in the ledger baseline that opens the trace of an applied
\* transaction are those its steps found: what the transactions applied before
\* it left, no more and no less, whatever runs failed or were killed between.
BaselineIsPriorState ==
  \A i \in 1 .. Len(World) :
    /\ World[i] \in DOMAIN traces
    /\ traces[World[i]].accounts = AccountsOf(SubSeq(World, 1, i - 1))

\* An Event record is attributed to the transaction that emitted it, and filed
\* under the ledger that transaction closed: what a failed run, a killed run
\* or a simulation staged reaches nobody.
EventsSound ==
  \A n \in DOMAIN events : \A e \in events[n] :
    /\ e.origin = e.txHash
    /\ Succeeded(e.txHash)
    /\ receipts[e.txHash].ledger = n

\* The ledger records form a hash chain: each names the hash of the record
\* before it as that record now is.
HashChain ==
  \A n \in DOMAIN ledgers :
    n - 1 \in DOMAIN ledgers => ledgers[n].previous = ledgers[n - 1].hash

\* A transaction whose result was attached left nothing half-done: its ledger
\* has a record, and an upload's raw bytes are kept.
ArtifactsComplete ==
  pc = "idle" =>
    \A t \in Tx :
      Succeeded(t) /\ receipts[t].result = "resultXdr" =>
        /\ receipts[t].ledger \in DOMAIN ledgers
        /\ t \in Uploads => t \in wasms

\* The K-internal field is in no receipt a client can ask for.
NoReturnValueLeft ==
  pc = "idle" => \A t \in DOMAIN receipts : receipts[t].result # "returnValue"

\* A configuration that got stuck is never saved: the one every later request
\* starts from can always dispatch it.
PersistedConfigIdle == stateKore.file = "whole" => stateKore.config.idle

-----------------------------------------------------------------------------
(* What the node promises: module TxLog.                                    *)

InFlight(t) == cur.tx = t /\ ~cur.dup

Rejected == {t \in Tx : Failed(t)}
Lost     == {t \in Tx : Succeeded(t) /\ t \notin Applied /\ ~InFlight(t)}

Log == INSTANCE TxLog WITH log <- World, rejected <- Rejected, lost <- Lost

\* The node decides each transaction once and atomically: a commit is the
\* write of state.kore, a rejection the write of a FAILED receipt.
ImplementsTxLog == Log!Spec
=============================================================================
