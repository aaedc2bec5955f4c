# komet-node in TLA+

TLA+ models, TLC runs and TLAPS proofs about komet-node, the local Stellar
node whose transactions are executed by the K semantics of Soroban. Paths below
are relative to the repository; `node.md` is `src/komet_node/kdist/node.md`.

1. [The system](#1-the-system)
2. [Modules](#2-modules)
3. [Model and code](#3-model-and-code)
4. [Runs](#4-runs)
5. [What the code does not keep](#5-what-the-code-does-not-keep)
6. [Proofs](#6-proofs)
7. [What is not modelled](#7-what-is-not-modelled)
8. [Plan](#8-plan)

## 1. The system

A JSON-RPC server in Python accepts one request at a time. For each one it
starts the LLVM interpreter of the K definition as a subprocess, on the
configuration that the run before saved. The two programs talk through files of
one directory, the io-dir, which also is the chain: nothing else survives a
request.

| component | state | operations | talks to |
|---|---|---|---|
| JSON-RPC framing (`server.py`, `_handle`, `_handle_batch`, `_handle_call`) | the body in flight, the answers to its elements so far | batches, notifications, error envelopes | clients; the request handlers |
| request handlers (`server.py`) | the request in flight, the number of the next archived request | `sendTransaction`, `simulateTransaction`, read-only methods, post-processing of a run | framing; interpreter driver; chain store |
| interpreter driver (`interpreter.py`) | none between requests | `run`: write `request.json`, unlink `response.json`, run, commit `state.kore`; `empty_config` | the interpreter subprocess |
| cache of converted uploads (`interpreter.py`, `steps_kore_text`) | a directory that all servers on the machine share | look up, convert, write and rename an entry | interpreter driver; KORE emission |
| chain store (`store.py`) | `state.kore`, `metadata.json`, `receipts/`, `traces/`, `ledgers/`, `events/`, `wasms/`, `requests/`, `events_staged.jsonl` | `initialize`, reads and writes of one file each | everything |
| ledger artifacts (`ledger.py`) | none | the hash-chained header of a closed ledger | server |
| K semantics (`node.md`) | the configuration in memory | dispatch, duplicate test, trace, steps, receipt, response; the read methods | the io-dir, through file-system hooks |
| transaction encoder (`transaction.py`), result encoder (`result_xdr.py`), ledger keys and entries (`ledger_entries.py`), values (`scval.py`) | none | pure translations between XDR, JSON and K | request handlers |
| KORE emission (`kore_emit.py`) | the stack and the memo tables of a conversion | a term to its text, in one pass | cache of converted uploads |
| command line, protocols, K definition build | none | wiring | (not modelled) |

**What is hard here.** There is no concurrency inside the server, by decision
(`server.py:182-185`); what is hard is the *order of the writes* and what
happens when the sequence is cut short.

* One commit is up to nine writes by two programs: trace, staged events, counter,
  receipt, response (K), `state.kore` twice (truncated, then written), receipt
  again, events, wasm, ledger record (Python). A process may die between any
  two; an exception of the post-processing (`_attach_result_xdr`) ends it early.
* A failed run is told from a successful one only by the absence of
  `response.json`, so a stale one would be fatal.
* A duplicate is recognised twice, by the server and by the semantics, from the
  same file at different times; the steps of an upload run in between.
* The post-processing also runs for duplicates.
* Files that are cleared lazily (staged events, trace) carry data from one
  request to another.
* Clients page through a history that grows between their pages.
* The elements of one batch act on one chain: a later one sees what an earlier
  one left, and each can end in a dozen ways, of which none may stop the rest.
* A ledger entry is found under a key that went from XDR over JSON to K, and was
  stored under one that went the same way with the arguments of a call.
* Servers fill one cache directory without locks, and the text in it is tied to
  a build of the semantics that may be replaced.

**What makes each component right.**

* Server and semantics together: every transaction is decided once; counter,
  receipts, world state, ledger records, events and wasm files agree; what a
  client was told stays true.
* Interpreter driver: only a configuration that reached idle is saved; the node
  never starts a request from another one.
* Chain store: a restart resumes from what was committed.
* Read methods: a client that follows the cursors gets every record once;
  `getLedgerEntries` serves what the applied transactions made of each key.
* Framing: every element that has to be answered is, once, in order, under its
  id; what it is told is so.
* Encoders: what the transaction encoder admits the result encoder can answer.
* Conversions: splitting integers and joining words are inverse; a value comes
  back as it was sent.
* Cache and emission: a text used is the one the installed build makes of its
  steps, whoever wrote it and whoever died writing; the fast loop writes what the
  general conversion would.

`PROJECT.json` lists, under `hazards`, each place where one of these can go
wrong, and the properties that watch it.

## 2. Modules

The node:

| module | what it is |
|---|---|
| `ChainStore` | the io-dir: a variable per file or directory, their types, the ledger records |
| `KometNode` | a node serving requests, `EXTENDS ChainStore`; the safety properties; the refinement mapping to `TxLog` |
| `TxLog` | abstract specification: a log of committed transactions, the rejected and the lost ones |
| `FaultyNode` | `KometNode` with processes that die; fairness; liveness |
| `ReadApi` | the pure functions of the paginated read methods: pages, cursors, windows |
| `PagingClients` | a client walking the history of a `KometNode` through `ReadApi` |

What is in front of it:

| module | what it is |
|---|---|
| `Words` | integers as two or four words, and back |
| `ScVal` | the conversions of values: XDR to JSON, JSON to K, K to JSON, JSON to XDR |
| `Admission` | what the encoder makes of the operations of a transaction, and the result encoder of them later |
| `LedgerEntries` | keys to descriptors, what the steps make of the world state, the lookup, entries to XDR |
| `RpcServer` | bodies and batches, each element served to its end by a `FaultyNode`; the request archive |

The cache of converted uploads:

| module | what it is |
|---|---|
| `StepsCache` | processes that share the cache; a conversion is one step |
| `KoreEmit` | the emission loop, and the recursive definition of the text it has to produce |
| `StepsEmitter` | `StepsCache` with the loop of `KoreEmit` for the conversion; implements `StepsCache` |

What is said of them:

| module | what it is |
|---|---|
| `NodeClaims`, `RpcClaims` | statements of the documentation that the code does not keep |
| `NodeInvariant` | the inductive invariant `NodeInv` |
| `NodeProofs` | theorems about the node: its invariant and what it implements; the files beside the world |
| `RpcProofs` | theorems about the server of batches, and about admission |
| `PagingProofs` | theorems about listing a set in order, the cursors, and the clients that page |
| `EntriesProofs` | what `getLedgerEntries` serves is what the committed operations left |
| `DataLemmas` | induction up to a number, along a sequence, along a rank; flattening, reversing, mapping sequences |
| `RankedRecursion` | that a function defined by recursion along a rank exists, for any such definition |
| `EmitterProofs` | theorems about the emission loop, and about the cache with it |
| `ScValProofs` | theorems about the words of integers and the conversions of values |
| `MCKometNode`, `MCFaultyNode`, `MCPagingClients`, `MCRpcServer`, `MCStepsEmitter` | instances for TLC |

    TxLog                ChainStore                Words -- ScVal -- Admission
      |  (INSTANCE)      /        \                                      |
      +---------- KometNode      ReadApi                           LedgerEntries
                  /       \        /                                     |
          FaultyNode      PagingClients                                 |
           /    |   \                                                   |
    NodeClaims  |  RpcServer -------------------------------------------+
                |      \------- RpcClaims
          NodeInvariant

    StepsCache   KoreEmit      DataLemmas           NodeProofs (with NodeInvariant)
          \        /            /   |   \             /        \
         StepsEmitter          /    |   RankedRec.  /          PagingProofs (with PagingClients)
                  \           /     |             RpcProofs (with RpcServer)
               EmitterProofs    ScValProofs        /
                                     \            /
                                      EntriesProofs

`EmitterProofs` and `ScValProofs` instantiate `RankedRecursion`.

## 3. Model and code

**One write, one action.** `pc` names the next step of the request in flight.
An action is one write to the io-dir with the code around it, because a write is
the grain at which a death can separate two parts of a handler. Two actions are
coarser: `OpenTrace` clears the trace and writes its first record (a run that
finds either clears it again), and `Simulate` is a whole run, of which only the
staged events outlive the request.

| actions | code |
|---|---|
| `SeedState`, `SeedWritten`, `ResumeState`, `SeedMetadata` | `ChainStore.initialize`, `store.py:77-89` |
| `Stop` | `shutdown` between two requests, `server.py:215-218` |
| `SubmitTx` | `_handle_send_transaction` up to `interpreter.run`, `server.py:327-363` |
| `SubmitRead` | `_dispatch`, `server.py:301-325` |
| `Launch`, and `LaunchFails` of `FaultyNode` | `NodeInterpreter.run` up to the subprocess, `splice_program`, `interpreter.py:89-106,264-304` |
| `ProgramRuns`, `ProgramStuck` | the upload steps in the `<program>` cell, `node.md:146-157` |
| `DispatchDuplicate`, `DispatchRead`, `ReadStuck` | the rules of `#dispatchMethod` |
| `OpenTrace` | `#enableTrace`, `setLedgerSequence`, `#traceLedger`, `node.md:440-524` |
| `StepsRun`, `StepsStuck` | `#decodeSteps`, `uncheckedCallTx`, `#stageEvent` |
| `WriteMetadata`, `WriteReceipt`, `RespondPending` | `#recordAndRespond`, `node.md:586-632` |
| `DropStaged`, `RecordFailure` | no `response.json`: the staged events are cleared, `_failure_response` writes the FAILED receipt, `server.py:364-366,734-772` |
| `ReadFails` | no `response.json` of a read-only request: an internal error |
| `TruncateState`, `PersistState` | `state_file.write_text(result)`, `interpreter.py:277-280` |
| `AttachResult`, `AttachFails` | `_attach_result_xdr`, `server.py:574-595` |
| `TakeStaged`, `FileEvents` | `_finalize_events`: the staged lines are read and cleared, `server.py:682-683`, then the event file is written, `684-713` |
| `StoreWasm`, `CloseLedger` | `server.py:376-381` and the methods called there |
| `Simulate`, and `SimulationFails` of `FaultyNode` | `_handle_simulate` with `commit=False`, in one step; on a torn `state.kore` it fails |
| `Crash`, `InterpreterDies` | the death of the server (with its interpreter), or of the interpreter alone |
| `PageHistory`, `PageEvents` | `_history_envelope`, `_get_events_envelope`, and the K rules that collect the records |

In front of the node (`RpcServer`), where an element is served to its end before
the next:

| actions | code |
|---|---|
| `Post`, `SendReply` | `_handle`, `_handle_batch`, the bodies that do not parse or are empty, `server.py:221-262` |
| `RejectFrame`, `RejectParams` | an element that is no object, no valid request, or has bad parameters, `server.py:264-291` |
| `ServeAtOnce` | unknown methods, `InvalidParams`, refused transactions (status ERROR), simulations refused before the run, bad ledger keys, `traceTransaction` |
| `Start` | the call reaches the node: `SubmitTx` or `SubmitRead` of `KometNode`; the request is archived |
| `SimulateCall` | `_handle_simulate`, with what the simulated call is answered |
| `Work` | the steps of the node that do not end the call |
| `AnswerRead` | `DispatchRead`, with what the interpreter finds: a receipt's status, ledger entries; not if a key cannot be built (`KeysBuild`), when the lookup gets stuck |
| `Finish` | the steps that end the call, with the client's answer or the error envelope of an exception |
| `StartUp`, `Shutdown` | the start of the node with `_next_request_index`, and its end |
| `ServerDies`, `CallDies` | `Crash`, which loses the body, and `InterpreterDies`, after which the batch goes on |

The cache (`StepsCache`), for each process:

| actions | code |
|---|---|
| `Ask`, `Hit`, `Miss` | `steps_kore_text` up to the conversion, `interpreter.py:164-197` |
| `Convert`; in `StepsEmitter` `EmitBegin`, `EmitStep`, `EmitFails`, `EmitEnd`, `ConvertGenerically` | `_convert_steps`; the loop of `kore_emit.py`, a turn a step |
| `OpenTmp`, `WriteTmp`, `Rename`, `CacheFails` | `_write_cache_entry`, `interpreter.py:203-211`: the temporary file, its text, the rename; an `OSError` at any of them |
| `Start`, `Die`, `Rebuild` | processes that come and go; a new build of the semantics, between them |

The rest are operators: `EncodeSteps`, `UploadSteps`, `BuildTxRequest`,
`BuildSimulateRequest` and `OpSuccessResult` (`Admission`); `scval_to_json`,
`decodeArg`, `scVal2JSON` and `scval_from_json` (`ScVal`), recursive functions on
the values of an instance; `Descriptor`, `RunStep`, `Lookup` and
`FormatResponse` (`LedgerEntries`); `Split2`, `Split4`, `Join2`, `Join4` (`Words`).

**Abstractions.**

* A transaction is a model value that stands for its hash. In `KometNode` its
  effect on the accounts, contracts and storage is opaque: a configuration is
  the sequence of the transactions whose effects it contains, and whether it is
  idle. `RpcServer` gives each transaction its operations (`Ops`) and reads the
  world off that sequence: `WorldOf(config.txs)` runs the steps in order. A call
  stores its second argument under its first, which is all a contract does here.
* Constants say what a transaction may do: `Uploads` (one wasm upload, run from
  the `<program>` cell), `Emits` (the events its steps stage unless something
  traps), `Opaque` (its call may return what `scval_from_json` cannot decode).
  Whether its steps run through, trap or get stuck is chosen in the behaviour,
  anew each time they run.
* A directory is a function from the names of the files in it. The hash of a
  ledger is a tuple of the header fields that vary, so that it is injective.
* `request.json` is not a variable: it is written and read within one run.
* A read-only request is a full run (`SubmitRead` to `PersistState`), since it
  rewrites `state.kore`, but which read it is matters only in `PagingClients`,
  where a page is computed in one step from the io-dir between two requests.
* What an event filter matches is a set of transactions (`Wanted`).

* A word has `WordBase` values, 2^64 in the code; four in the runs, so that 128
  and 256 bit integers have 4 and 8 bits, and every even number in the proofs.
* A value is a tuple that begins with its type; its JSON and its K form are other
  tuples, and each conversion is written out, with the types it refuses and
  those that raise. A string of bytes that are no text is a model value. Each is a
  recursive function whose body (`ToJson`, `Decode`, `Present`, `FromJson`) is given what it
  makes of the parts of a value; `ValDepth`, how deep a value nests, is there for the
  proofs only.
* What a client is answered is a tuple that begins with its kind; error codes
  are names. An element's `frame` says how far its form is in order.
* The text of a term is the sequence of its lexemes. An emission adds to the
  chunks one lexeme at a time, as the loop does, and asks the memo tables of
  `emit_kore_text` where it does. `Depth`, how deep a term nests, is there for the proofs only.

`dup` is the server's `is_duplicate`; `acked` is a history variable that holds
the transactions for which a client was answered PENDING.

## 4. Runs

| run | instance, bounds | shows |
|---|---|---|
| `core` | `Spec`; three transactions (`a` opaque return value, events `opaque, plain`; `b` plain; `u` upload), two clock values, one simulated event | without deaths: `ImplementsTxLog`, `ChainAgreement`, `HashChain`, `ArtifactsComplete`, `NoReturnValueLeft` |
| `crash` | `RetryingSpec`; `a` and `u`, two deaths | `WorldFollowsLedgers`, `AckedIsDurable`, `ReceiptFinal`, `TraceFrozen`, `BaselineIsPriorState`, `EventsSound`, `PersistedConfigIdle`, `ImplementsLossyTxLog`, the inductive invariant `NodeInv`, and the liveness of `Answered` and `RetriedIsDecided` |
| `pages` | `PagingSpec`; three transactions of which one stages two events and one is filtered out; pages of 1 and 2, windows from ledgers 1 and 2 to ledgers 1, 2 or open; TOIDs with `LedgerUnit = 16`, `OrderUnit = 4` | `HistoryExactlyOnce`, `EventsExactlyOnce` |
| `batch` | `FairRpcSpec`; six transactions (an upload, the deployment of it beside a new account, two that store under one key, one whose map repeats a key, one the node refuses), seven bodies of up to eight elements, two bodies posted, one death, `WordBase = 4` | `BatchAnswersMatch`, `AnswersAreTrue`, `EntriesExact`, `AckedUploadIsServed`, `AdmittedCanBeFinished`, `ArchiveKept`, `BodyAnswered` |
| `steps` | `EmitterSpec`; two processes, five step lists (a parametric label at two sorts; ill-sorted; no upload; two orders of uploads that are not plain), two builds that disagree about a sort, two texts asked for | `EntriesWhole`, `ServedTextIsCurrent`, `EmissionOnCourse`, `ImplementsStepsCache`, `AskedIsServed` |
| `history`, `baseline`, `traced`, `restart`, `internal`, `window`, `keys` | the same instances, no or one death | one refuted statement each, see section 5 |

**Bounds.** Two transactions are the least with which one can disturb the other
(a record overwritten, an event inherited); `core` and `pages` take a third, so
that a ledger lies strictly between two others. Transactions can be resubmitted
without bound; `MaxStaged` bounds the staging file (only simulations make it
grow) and `MaxFaults` the deaths. Two deaths cover one that leaves a partial
commit and one that interrupts the retry, or the start-up after it; the theorems
hold for any number. Only
the order of two clock values matters to the hash. `LedgerUnit` and
`OrderUnit` are 2^32 and 2^12 in the code; the theorems of `PagingProofs` hold
for every pair with `0 < OrderUnit < LedgerUnit`. There is no symmetry: the
transactions differ. In `batch`, two bodies (`MaxBodies`) are what it takes for a
body to find the chain that another left, whole or cut short; the values stored
are a negative `i128`, a `u256` that uses every word, a `vec` of both, a `map` that holds it, an
address, an `i256`, which has no JSON form on the way out, and a `map` with one key
twice, which has no K form on the way in. In `steps`, two questions (`MaxAsks`) are a
writer and a reader, or a writer that died and the process that gets its pid.
`AdmittedCanBeFinished` goes over every list of up to three operations of the
instance, and `AdmittedFinishes` is proved for lists of any length.

**Deadlock** is checked in every run: an idle node can always take a request or
be stopped, and a process of the cache can always start or die.

**Fairness.** `FairSpec` assumes weak fairness of the server's own steps
(`Boot`, `Serving`): the process is restarted when it is down, its only thread
runs, and the interpreter terminates, with an answer or stuck. The
last is an assumption about contracts: the code gives the subprocess no
timeout. `FairSpec` asks nothing of clients. `RetryingSpec` adds, for the sake of one
property, a client that keeps submitting a transaction that has no receipt;
fairness has to be strong, as other clients may keep the server busy. Restarting
a stopped server is up to its operator; without it nothing is served at all.
`FairRpcSpec` assumes weak fairness of `ServerStep`, the one thread of the server:
once a body came in, nobody has to post anything for it to be answered.
`EmitterSpec` assumes weak fairness of each process's own steps, apart from the
others: that no process waits for another is what `AskedIsServed` says.
`RetriedIsDecided` excepts the behaviours in which a death leaves `state.kore` torn
for ever (see `WorldSurvivesRestart` below), not its passing truncation at every
commit.

## 5. What the code does not keep

Each of these is a run that must find a counterexample, and a finding.

* `HistoryFollowsReceipts` (`docs/server.md:225`, `docs/architecture.md:100`).
  `_record_closed_ledger` also runs for a duplicate, under the sequence of the
  latest ledger. Shortest counterexample: `a` fails on a fresh chain, is
  resubmitted, is answered DUPLICATE, and `ledgers/ledger_0.json` names it: a
  failed transaction is in the history. With two committed transactions,
  resubmitting the first replaces the record of the second by one that names
  the first, which `getTransactions` then lists twice.
* `BaselineSequenceIsOwn` (`node.md:469-470`). The ledger sequence is set from
  the counter before `#recordAndRespond` bumps it: the trace of the transaction that
  closes ledger 1 opens with sequence 0.
* `TraceOpensFirst` (`README.md:167`, `docs/node-semantics.md:207`, `node.md:469-471`).
  The steps of an upload are spliced into the `<program>` cell and run before the
  request is dispatched, hence before the trace is opened: the upload is part of
  the world that its own baseline describes. It does not show in the record,
  whose `codes` are not filled in yet; `BaselineIsPriorState` is about what is
  there, the accounts.
* `WorldSurvivesRestart` (`docs/server.md:98`). Stopped between the truncation
  of `state.kore` and the write, the server restarts on a file that exists and
  holds nothing; every request fails from then on. A read-only request, which
  rewrites `state.kore` too, is enough.
* `ReturnValueStaysInternal` (`node.md:581-583`). The interpreter is killed after it
  wrote the receipt: `getTransaction` serves the receipt with `returnValue`.
  A resubmission does not repair it, as it is a duplicate.
* `EventsFromStart` (`docs/server.md:278`). `endLedger` is not compared with
  `startLedger`. A window from 2 to 1 is empty, and its cursor leads to ledger 1.
* `UnresolvedKeysAreAbsent` (`docs/server.md:261`). A well-formed key whose symbol
  or string is not UTF-8 raises `UnicodeDecodeError` in `scval_to_json`, while
  `_descriptor` (`ledger_entries.py:130`) catches `NotImplementedError` only: the
  whole request is answered -32603, and the keys beside it that do resolve are
  not served.

**What the properties leave to these.** A `state.kore` torn for good holds no
transaction, the acknowledged ones neither: that is `WorldSurvivesRestart`. `AckedIsDurable`
says what is true beside it: no state.kore that can be loaded lacks an acknowledged
transaction. An upload whose run was killed between its receipt and `state.kore` is in no
world, although its receipt says SUCCESS and a resubmission, a DUPLICATE, stores
its bytes; `AckedUploadIsServed` is about clients that were answered PENDING, and about
those answered DUPLICATE of an upload that was applied.

Two remarks that are not runs. An upload that gets stuck has a FAILED receipt but no trace
file. And a death after the staged events were cleared, before the event file is
written, loses the events of a committed transaction; nothing in the
documentation promises them.

## 6. Proofs

The proofs hold for every set of transactions, every `Uploads`, `Emits`, `Opaque`
and `Times` that satisfy `ChainStoreAssumption`, and any number of deaths; those of
`RpcProofs` for every `Ops` and `Bodies` that satisfy `RpcServerAssumption`, that of
`EntriesProofs` under `OperationsAssumption` too (below), those of
`EmitterProofs` for every set of processes, builds and step lists, and for all
definitions, terms and sorts that satisfy `KoreEmitAssumption` (a term is a finite tree)
and `ArityAssumption` (a label is applied to as many arguments as its
production has); `StepsEmitterAssumption` names the conversion and the keys of the cache.
Those of `ScValProofs` hold for every even `WordBase` and every set of values that
satisfies `ScValAssumption`: a value is a finite tree, and its content is what its XDR
type has (the words of an integer are words, of which only the first may be negative).

**The inductive invariant of the node.** None of the properties is inductive: whether
`state.kore` may be overwritten depends on what the configuration in memory
holds, that on which run it is the end of, that on what the duplicate test saw
when the request came in. `NodeInv` writes this down along the path of a
request:

* `RequestInv`: what kind of request can be at which `pc`;
* `FreshnessInv`: while a transaction can still run it has no receipt, and
  the server's `is_duplicate` agrees with the semantics' own test, although
  they read the receipts at different times;
* `ResponseInv`: `response.json` is of this run, and its status tells a commit
  from a duplicate (this is where the unlinking is used);
* `ConfigInv`: the configuration in memory is the world, with the transaction
  in flight appended exactly from the step that runs it on;
* `CommitInv`: the transaction being committed has the youngest ledger, so that
  appending it keeps the ledger order;
* `BootInv`: a `state.kore` not yet written stands for the empty world;
* `AckedInv`: what was acknowledged failed, or is in the world as last recorded,
  torn file or not (`AckedIsDurable` follows);
* `TypeOK` and `WorldFollowsLedgers` themselves.

It does not mention the fault counter, so the same invariant serves `Spec` and
`FaultySpec`: a death resets `pc` and `cur`, and every conjunct about the io-dir
alone holds at each single write. TLC checks `NodeInv` in the run `crash`.
`NodeProofs` proves it by parts: types and each conjunct, before, during and
after the run.

| theorem | states |
|---|---|
| `NodeInvariance`, `FaultyInvariance` | `Spec => []NodeInv`, `FaultySpec => []NodeInv` |
| `WorldIsInLedgerOrder` | `FaultySpec => []WorldFollowsLedgers` |
| `AcknowledgedIsDurable` | `FaultySpec => []AckedIsDurable` |
| `ReceiptsAreFinal` | `FaultySpec => ReceiptFinal` |
| `NodeImplementsTxLog` | `Spec => ImplementsTxLog` |
| `FaultyNodeImplementsLossyTxLog` | `FaultySpec => ImplementsLossyTxLog` |
| `SavedConfigIsIdle`, `BaselinesArePrior`, `EventsAreSound` | `FaultySpec => []PersistedConfigIdle`, `[]BaselineIsPriorState`, `[]EventsSound` |
| `TracesAreFrozen` | `FaultySpec => TraceFrozen` |
| `RecordsAreChained` | `Spec => []HashChain` and `FaultySpec => []HashChain` |
| `ChainAgrees`, `ReturnValuesAreReplaced`, `ArtifactsAreComplete`, `NodeTypes` | `Spec => []ChainAgreement`, `[]NoReturnValueLeft`, `[]ArtifactsComplete`, `[]TypeOK` |
| `ServerIsFaultyNode` | `RpcSpec => FaultySpec` |
| `ClientsAreToldTheTruth`, `AckedUploadsAreServed` | `RpcSpec => []AnswersAreTrue`, `[]AckedUploadIsServed` |
| `ArchiveIsKept` | `RpcSpec => ArchiveKept` |
| `AdmittedFinishes`, `AdmittedIsFinished` | the two passes over the operations agree, for every list; `RpcSpec => []AdmittedCanBeFinished` |
| `EntriesAreWhole`, `ServedTextsAreCurrent` | `StepsSpec => []EntriesWhole`, `[]ServedTextIsCurrent` |
| `LoopStaysOnCourse`, `LoopRaisesRightly`, `LoopWritesTheText` | the emission loop keeps its invariant, raises rightly, ends with the text |
| `EmissionsAreOnCourse`, `EmitterImplementsStepsCache` | `EmitterSpec => []EmissionOnCourse`, `EmitterSpec => ImplementsStepsCache` |
| `EmittedEntriesAreWhole`, `EmittedTextsAreCurrent` | `EmitterSpec => []EntriesWhole`, `[]ServedTextIsCurrent` |
| `JoinUndoesSplit`, `SplitUndoesJoin`, `WordsAreInRange` | words and integers, for every even `WordBase` |
| `ValuesComeBack`, `KeysDoNotCollide` | a value stored and read back is the value written; values stored alike are alike |
| `SolutionExists` | a definition by recursion along a rank defines a function |
| `EntriesAreExact` | `RpcSpec => EntriesExact` |
| `BatchIsAnswered`, `RpcTypes` | `RpcSpec => []BatchAnswersMatch`, `[]RpcTypeOK` |
| `HistoryIsReadOnce`, `EventsAreReadOnce`, `PagingTypes` | `PagingSpec => []HistoryExactlyOnce`, `[]EventsExactlyOnce`, `[]PagingTypeOK` |
| `CursorResumes` | the cursor of a full page leads to the next ledger |
| `EventCursorResumes`, `WindowCursorSeparates` | an event cursor leads back to its ledger; a window cursor lies between the ids on its two sides |

**Refinement.** The log is the transaction sequence of `state.kore`, `rejected`
the transactions with a FAILED receipt, `lost` those with a SUCCESS receipt that
are neither in the world nor in flight. A commit is `PersistState` (not the
truncation: nothing reads a torn file, and the history of its content is kept),
a rejection is `RecordFailure`, a loss is a death after `WriteReceipt`; every other
step leaves the three alone. `NodeProofs` proves this step by step.

**The files beside the world.** `NodeProofs` then adds four conjuncts to `NodeInv`, each
about files that several steps of a run write: `IdleInv` (a configuration that
may be saved is idle), `BaselineInv` (the baseline in an open trace is the world
before the transaction, and of an applied one the world it was applied to, as far as
it is recorded: the accounts),
`EventsInv` (what is staged is of this run once the staging file was cleared)
and `HashInv` (the records are chained, and none is ahead of the counter, so that
the one about to be written has no successor yet).
`StoreInv` is inductive with deaths at every step.

**A node that does not die.** Counter, receipts and world agree only if nothing cuts
a commit short, so `ChainInv` (`AgreementInv`, `ReturnValueInv`, `ArtifactsInv` on top of
`StoreInv`) is inductive under `Spec` alone. It says how far the commit in flight
has come at each `pc`, and that a failing post-processing leaves the same
gap in every file.

**Batches.** `ServerIsFaultyNode` maps every step of `RpcServer` to a step of
`FaultyNode` or a stutter, so the theorems about `FaultySpec` carry over to batches.
`RpcInv` then adds what the server knows: `BodyInv` (what is served was posted),
`FlightInv` (the call in flight is the one the node works on, and none is
between elements), `AdmittedInv` (a transaction in the world or with a receipt
was admitted) and `AnswersInv` (every answer of the batch so far is true of the
chain, which needs that receipts and traces are never rewritten). `UploadInv`
relates the uploads that were acknowledged to the bytes in `wasms/`, through the
deaths between a commit and its artifacts (`BytesAreKept`); `EntriesProofs` adds that the code
is in the world and found there (`KeptCodeIsServed`), which makes `AckedUploadsAreServed`. `ArchiveInv` says that the archive is
numbered without gaps and that a server that is up knows the next number.
`FrontInv` says of the framing what `FlightInv` says of the calls: the elements before the
one being served are answered, the call in flight is a well-formed element, and
what was sent back answers the whole body. It rests on the assumption that the
elements of a body are a sequence and that a body with elements parses.

**Clients that page.** That nothing is skipped is a race between the cursor of a client
and the files a commit writes, at three moments: the counter is moved up, the
receipt gets its result, the events are filed. `WalkInv`, on top of `ChainInv`,
says that a cursor never gets ahead of it: a history position is at most one past
the counter, and at most at the counter while the ledger it names is still being
recorded (`Recording`); an event cursor does not come after the end of the last
ledger, and not after its beginning while its events are still to be filed (`Filing`).
So what the node adds (`FinishedGrows`, `FilesGrow`) is added in front of every
cursor, and what is behind a cursor was got. That a page is served only between
two requests is used here: it is when nothing is `Filing`. The pages themselves
are lists of finite sets: `ListedByRank` proves that listing by rank gives every
element once and in order, `PageIsInterval` and `FirstAreBelow` that a page leaves out
nothing below its last record, and `LedgerCursorGrows`, `AfterCursor` and
`WindowCursorSeparates` that TOIDs are ordered as their ledgers are.

**The cache.** `CacheInv` follows the text of a process from its conversion to the
temporary file that only its pid writes, and to the rename. It rests on the
assumption `KeyDeterminesText`: modules with the same declared hashes are the same
modules.

**The emission loop.** `Course` is its invariant: what is written, followed by
the texts of what is on the stack from the top down, is the text of the term; the term is
well-sorted just if every node still on the stack is; and each of the five memo
tables answers, under every key it has, what the definition would (`MemoTrue`).
The last part is what makes memoization sound, and it holds because no key has two
answers (`OneAnswer`: false of labels told apart by name alone). The table of injections
also stands for a check that is not made twice, so it must hold no pair that does
not fit (`InjectionsFit`). A lexeme on top moves to the text; a token or an
application is replaced by what is written for it at once and pushed for it, whose texts
together are its own (`CourseOfToken`, `CourseOfApplication`). As arguments are
pushed in reverse, with commas between them, that needs how texts of sequences
concatenate, flatten and reverse (`TextOfConcat`, `TextOfFlatten`, `TextOfReverse`,
`PushedArguments`). `EmissionInv` says that every emission of a process is on the
course of its own steps; with it a step of the loop is a stutter of `StepsCache`, and its
end the conversion.

**Values.** `ValuesComeBack` is about the composition of four recursive functions, each on
the image of the one before. `Tree` says of a set of values that the parts of a member are
members of lower rank; `ImageIsTree` that it carries over to the image under a function
that makes the parts of a result from the parts of its argument (`KeepsParts`, by
`PartsMade`), the rank of a result being the least of what is made into it. So each
function in turn is well-defined (`ToJsonIs`, `DecodeIs`, `PresentIs`, `FromJsonIs`), and what it makes
of a value that came this far can be written down (`JsonOfFine`, `StoredIs`, `ServedIs`). Induction
on the depth of a value then needs a case for vectors, one for maps and one for leaves,
in which the words of integers meet `SplitUndoesJoin`. A value is in `Fine` if `scval_to_json`
converts it, and `Storable` if `#decodeArg` then has a term for it (`Defined`: no map in it repeats a key); it is in `NoForm` if it is or contains an `i256`, for which `#scVal2JSON` has no rule.
`KeysDoNotCollide` is the same induction once more, since a value without a form can still be a key.

**Entries.** `EntriesExact` says of every answer to `getLedgerEntries`, in the step that
gives it, that it holds what is due for each key asked, in the order of the keys:
`EntryDue` looks at the *operations* of the ledgers up to the answer's `latestLedger`, and
finds the last that concerns the key. The code looks at something else: the world
that the *steps* made of them, under a key converted once more. The
proof goes between the two in five parts.

* *Worlds.* After steps that ran in order, there is at a place what the last step to write it
  left (`LastWriter`), by induction on the steps. The entry of a contract is written by many
  steps; it is its last deployment with the last value stored under each key since
  (`ContractThere`), which needs that a contract is called only where one is deployed
  (`CalledWhereDeployed`).
* *Encoding.* Step by step, the steps are the operations translated (`TranslatedAs`), and, as
  what is in the world could run and so had arguments with a K form (`RanIsEncoded`), encoded
  (`EncodedAs`), for one transaction (`StepsOfAre`) and for all of them flattened (`WorldEncoded`): the
  encoder makes one step of each operation it admits.
* *Entries.* Where the writers of a place are the operations on the key, what is served of
  the place is what is due (`EntryIsExact`, a lemma for each kind of key). `KeysDoNotCollide` is what
  makes these two the same set, and `ValuesComeBack` what makes the value of the last one the
  value served. A value that contains an `i256` is stored and dropped from the answer, with the
  whole contract entry if it is part of one.
* *The chain.* `CommittedAreApplied`: the operations of the ledgers, in the order of the ledgers,
  are those of the transactions in the world, in theirs. That is `WorldFollowsLedgers`
  again, with ledgers that hold no transaction (a crash leaves some) flattened away (`FlattenSpread`).
* *The answer.* `EntriesInv` is the inductive part: what is in the world, on disk or in memory,
  could run in its order (`RanInv`); a receipt of a success names a ledger from 1 on
  (`CountedInv`); and what a lookup found stays what the world holds until it is
  served (`AskedInv`), since a read runs to its end before anything commits.

`OperationsAssumption` says of contracts what the model does: a call passes a key and a
value, which the contract stores under the one the other. It says of the rest what XDR types
say: a created contract has an address, contract data is persistent or temporary.
The property is about steps and not about states: code whose bytes a death kept out of
`wasms/` is missing from an answer and served once the upload is submitted again, which an
element later in the same batch may do. The answer was right when it was given.

**Recursion.** The text of a term and the conversions of values are defined by recursion.
That such a definition defines anything is itself proved: `SolutionExists` of
`RankedRecursion` constructs a function by recursion along a rank, on the least
counterexample, for any body that looks only at arguments of lower rank. The body is
a constant of that module, so that an instance takes the place of a theorem with an
operator for a parameter, which the provers cannot use. `RankInduction` of `DataLemmas` is the
induction that goes with it.

**Only model-checked.** Liveness (`Answered`, `RetriedIsDecided`, `BodyAnswered`,
`AskedIsServed`), which rests on fairness and is out of the prover's reach. Every
invariant and every action property that a passing run checks is proved.

## 7. What is not modelled

* What contracts compute. A call stores a value or traps; a TTL, an
  authorisation, an archived entry or a call of another contract is not there,
  nor is what a trapped call leaves behind.
* The JSON of results, the constant results (`getHealth`, `getNetwork`,
  `getVersionInfo`, `getFeeStats`), `transaction_meta_xdr`, `liveUntilLedgerSeq` and the
  constant fields of an account entry; the instruction records of a trace.
* The order of the entries of a map: a map is a set of pairs. Which entry is the
  first to raise is left open, and two entries with the same key and the same
  value are one.
* How an undefined `#decodeArg` (a map that repeats a key) comes out: the model has the
  run get stuck, at the step or the key that needs it. The backend may abort instead,
  which is `InterpreterDies` here, and may evaluate the arguments before the trace is
  opened; for a read it is an internal error either way.
* An `id` that is explicitly `null` is told from a missing one by its value
  only.
* A cache entry that is corrupt or empty, which is read as a miss (`Miss` may
  happen although there is an entry); a build replaced under a running server,
  whose interpreter and stamp would then differ.
* The command line, the protocols, the build of the K definition.
* An interpreter that outlives a killed server and goes on writing; two servers
  on one io-dir, which nothing prevents and nothing supports; an operator who
  edits the io-dir; torn writes of files other than `state.kore`, which is by far
  the largest; failing file operations outside the cache.

## 8. Plan

Done: the node with and without deaths, its read methods and the clients that
page, the server of batches with the encoders and conversions, the cache with
the emission loop, and the proofs of section 6.

What is left:

1. TTLs of storage entries, and the entries an archived one is answered with.
2. The rollback of a trapped call as steps of the semantics, so that what it leaves
   in the trace and in the staging file can be said.
