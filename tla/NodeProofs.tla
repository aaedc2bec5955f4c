------------------------------ MODULE NodeProofs ------------------------------
(***************************************************************************)
(* NodeInv is inductive: every step of the node, a fault included, preserves *)
(* it.  Hence, for all constants, the type invariant, WorldFollowsLedgers   *)
(* and AckedInv, the action property ReceiptFinal, and the refinement *)
(* of the abstract logs of module TxLog.  Then what the files of the io-dir *)
(* have to do with each other, however often the processes die: the saved   *)
(* configuration, the traces, the events and the ledger records, each by an *)
(* invariant that is inductive together with NodeInv.  Last, what holds of  *)
(* them in a node that does not die.                                        *)
(*                                                                          *)
(* A lemma is about one part of an invariant, with one step per action that *)
(* can disturb it.                                                          *)
(***************************************************************************)
EXTENDS NodeInvariant, SequenceTheorems, TLAPS

-----------------------------------------------------------------------------
(* Data.                                                                    *)

\* Appending a transaction to the world leaves the others where they were.
LEMMA AppendedWorld ==
  ASSUME NEW w \in Seq(Tx), NEW t \in Tx
  PROVE  /\ Append(w, t) \in Seq(Tx)
         /\ Len(Append(w, t)) = Len(w) + 1
         /\ \A i \in 1 .. Len(w) : Append(w, t)[i] = w[i]
         /\ Append(w, t)[Len(w) + 1] = t
OBVIOUS

\* The events that t stages are staged events.
LEMMA StagedType ==
  ASSUME NEW t \in Tx, NEW k \in 0 .. Len(Emits[t]), staged \in Seq(StagedEvent)
  PROVE  staged \o StagedBy(t, k) \in Seq(StagedEvent)
<1>1. Emits[t] \in Seq({"plain", "opaque"})
  BY ChainStoreAssumption
<1>2. \A i \in 1 .. k : Emits[t][i] \in {"plain", "opaque"}
  BY <1>1
<1>3. StagedBy(t, k) \in [1 .. k -> StagedEvent]
  BY <1>2 DEF StagedBy, StagedEvent
<1>4. StagedBy(t, k) \in Seq(StagedEvent)
  BY <1>1, <1>3
<1> QED
  BY <1>4

-----------------------------------------------------------------------------
(* Types.                                                                   *)

\* Start-up and the server's part before the run keep the types.
LEMMA TypeBeforeRun ==
  ASSUME NodeInv, Boot \/ Stop \/ Clients \/ Launch
  PROVE  TypeOK'
<1> USE DEF NodeInv, TypeOK, StoreTypeOK
<1>1. CASE Boot
  <2>1. pc' \in {"idle"} \cup Booting /\ latest' \in Nat \cup {NoMetadata}
    BY <1>1 DEF Boot, SeedState, SeedWritten, ResumeState, SeedMetadata, Booting,
       storeVars
  <2>2. stateKore' \in StateKore
    <3>1. CASE SeedState
      BY <3>1 DEF SeedState, StateKore
    <3>2. CASE SeedWritten
      BY <3>2 DEF SeedWritten, StateKore, Config, EmptyConfig
    <3>3. CASE ResumeState \/ SeedMetadata
      BY <3>3 DEF ResumeState, SeedMetadata, storeVars
    <3> QED
      BY <1>1, <3>1, <3>2, <3>3 DEF Boot
  <2> QED
    BY <1>1, <2>1, <2>2 DEF Boot, SeedState, SeedWritten, ResumeState, SeedMetadata,
       storeVars, chainFiles
<1>2. ASSUME NEW t \in Tx, NEW now \in Times, SubmitTx(t, now) PROVE TypeOK'
  <2>1. cur' \in Request
    BY <1>2 DEF SubmitTx, Request, HasReceipt
  <2>2. staged' \in Seq(StagedEvent)
    BY <1>2 DEF SubmitTx, ClearStaged
  <2> QED
    BY <1>2, <2>1, <2>2 DEF SubmitTx, chainFiles, InPython
<1>3. CASE SubmitRead
  <2>1. << >> \in Seq(StagedEvent)
    OBVIOUS
  <2>2. cur' \in Request
    BY <1>3, <2>1 DEF SubmitRead, Request, NoRequest
  <2> QED
    BY <1>3, <2>2 DEF SubmitRead, storeVars, chainFiles, InPython
<1>4. ASSUME NEW t \in Tx, Simulate(t) PROVE TypeOK'
  <2>1. staged' \in Seq(StagedEvent)
    BY <1>4, StagedType DEF Simulate
  <2>2. response' \in Responses
    BY <1>4 DEF Simulate, SimulationAnswers, UnlinkResponse, Responses
  <2> QED
    BY <1>4, <2>1, <2>2 DEF Simulate, chainFiles
<1>5. CASE Launch
  BY <1>5 DEF Launch, UnlinkResponse, chainFiles, StateKore, Responses, InPython, InK
<1>6. CASE Stop
  BY <1>6 DEF Stop, storeVars, chainFiles, Booting
<1> QED
  BY <1>1, <1>2, <1>3, <1>4, <1>5, <1>6 DEF Clients

\* The run keeps the types.
LEMMA TypeDuringRun ==
  ASSUME NodeInv, Semantics
  PROVE  TypeOK'
<1> USE DEF NodeInv, TypeOK, StoreTypeOK
<1>0. pc \in SendOnly => cur.tx \in Tx
  BY DEF RequestInv, SendOnly, Sending
<1>1. CASE ProgramRuns
  BY <1>0, <1>1 DEF ProgramRuns, RunOf, Config, storeVars, chainFiles, SendOnly, InK
<1>2. CASE ProgramStuck \/ ReadStuck
  BY <1>2 DEF ProgramStuck, ReadStuck, Stuck, Config, storeVars, chainFiles, InK
<1>3. CASE DispatchDuplicate \/ DispatchRead
  BY <1>3 DEF DispatchDuplicate, DispatchRead, chainFiles, Responses, InK
<1>4. CASE OpenTrace
  <2>1. cur.tx \in Tx /\ Baseline \in Trace
    <3>1. cur.tx \in Tx /\ latest \in Nat
      BY <1>4 DEF OpenTrace, RequestInv, Sending, Booting
    <3>2. AccountsOf(config.txs) \subseteq Tx
      BY DEF AccountsOf, Config
    <3> QED
      BY <3>1, <3>2 DEF Baseline, Trace
  <2>2. /\ DOMAIN traces' \subseteq Tx
        /\ \A t \in DOMAIN traces' : traces'[t] \in Trace
    BY <1>4, <2>1 DEF OpenTrace, WriteFile
  <2> QED
    BY <1>4, <2>2 DEF OpenTrace, InK
<1>5. CASE StepsRun
  <2>1. staged' \in Seq(StagedEvent)
    BY <1>0, <1>5, StagedType DEF StepsRun, SendOnly
  <2> QED
    BY <1>0, <1>5, <2>1 DEF StepsRun, RunOf, Config, chainFiles, SendOnly, InK
<1>6. CASE StepsStuck
  <2>1. staged' \in Seq(StagedEvent)
    BY <1>0, <1>6, StagedType DEF StepsStuck, SendOnly
  <2> QED
    BY <1>6, <2>1 DEF StepsStuck, Stuck, Config, chainFiles, InK
<1>7. CASE WriteMetadata
  BY <1>7 DEF WriteMetadata, RequestInv, Booting, chainFiles, InK
<1>8. CASE WriteReceipt
  <2>1. cur.tx \in Tx /\ TxReceipt \in Receipt
    BY <1>0, <1>8 DEF WriteReceipt, SendOnly, RequestInv, Booting, TxReceipt, Receipt
  <2>2. /\ DOMAIN receipts' \subseteq Tx
        /\ \A t \in DOMAIN receipts' : receipts'[t] \in Receipt
    BY <1>8, <2>1 DEF WriteReceipt, WriteFile
  <2> QED
    BY <1>8, <2>2 DEF WriteReceipt, InK
<1>9. CASE RespondPending
  BY <1>9 DEF RespondPending, chainFiles, Responses, InK
<1> QED
  BY <1>1, <1>2, <1>3, <1>4, <1>5, <1>6, <1>7, <1>8, <1>9 DEF Semantics

\* Taking the staged events into the hand of the server changes nothing else
\* about the request.
LEMMA LinesHeld ==
  ASSUME NodeInv, TakeStaged
  PROVE  /\ cur' \in Request
         /\ UNCHANGED <<cur.method, cur.tx, cur.dup, cur.now>>
         /\ cur'.lines = staged
BY DEF NodeInv, TypeOK, StoreTypeOK, TakeStaged, Request

\* What the server does after the run keeps the types.
LEMMA TypeAfterRun ==
  ASSUME NodeInv, PostProcess
  PROVE  TypeOK'
<1> USE DEF NodeInv, TypeOK, StoreTypeOK
<1>0. Sending => cur.tx \in Tx /\ cur.now \in Times
  BY DEF RequestInv
<1>1. NoRequest \in Request /\ EmptyConfig \in Config
  BY DEF NoRequest, Request, EmptyConfig, Config
<1>0a. CASE DropStaged
  BY <1>0a DEF DropStaged, ClearStaged, chainFiles, InPython
<1>0b. CASE TakeStaged
  BY <1>0b, LinesHeld DEF TakeStaged, ClearStaged, chainFiles, InPython
<1>2. CASE RecordFailure
  <2>1. cur.tx \in Tx /\ FailedReceipt \in Receipt
    BY <1>0, <1>2 DEF RecordFailure, SendOnly, RequestInv, Booting, FailedReceipt, Receipt
  <2>2. /\ DOMAIN receipts' \subseteq Tx
        /\ \A t \in DOMAIN receipts' : receipts'[t] \in Receipt
    BY <1>2, <2>1 DEF RecordFailure, WriteFile
  <2> QED
    BY <1>1, <1>2, <2>1, <2>2 DEF RecordFailure, Reply
<1>3. CASE ReadFails
  BY <1>1, <1>3 DEF ReadFails, Reply, storeVars, chainFiles
<1>4. CASE TruncateState
  BY <1>4 DEF TruncateState, StateKore, chainFiles, InPython
<1>5. CASE PersistState
  <2>1. stateKore' \in StateKore
    BY <1>5 DEF PersistState, PrintedState, StateKore
  <2>2. pc' \in {"idle"} \cup InPython /\ cur' \in Request /\ config' \in Config
    BY <1>1, <1>5 DEF PersistState, AfterPersist, Reply, InPython
  <2> QED
    BY <1>5, <2>1, <2>2 DEF PersistState, chainFiles
<1>6. ASSUME AttachResult \/ AttachFails PROVE TypeOK'
  <2>1. /\ DOMAIN receipts' = DOMAIN receipts
        /\ \A t \in DOMAIN receipts : receipts'[t] \in Receipt
    BY <1>6 DEF AttachResult, AttachFails, AttachedTo, Receipt
  <2>2. pc' \in {"idle"} \cup InPython /\ cur' \in Request /\ config' \in Config
    BY <1>1, <1>6 DEF AttachResult, AttachFails, Reply, InPython
  <2> QED
    BY <1>6, <2>1, <2>2 DEF AttachResult, AttachFails
<1>7. CASE FileEvents
  <2>0. cur.tx \in Tx /\ latest \in Nat
    BY <1>0, <1>7 DEF FileEvents, RequestInv, SendOnly, Booting
  <2>1. FinishedEvents \subseteq Event
    <3>0. cur.lines \in Seq(StagedEvent)
      BY DEF Request
    <3>1. \A i \in 1 .. Len(cur.lines) : cur.lines[i] \in StagedEvent
      BY <3>0
    <3>2. \A i \in 1 .. Len(cur.lines) : cur.lines[i].tx \in Tx /\ i - 1 \in Nat
      BY <3>1 DEF StagedEvent
    <3> QED
      BY <2>0, <3>2 DEF FinishedEvents, Event
  <2>2. /\ DOMAIN events' \subseteq Nat
        /\ \A n \in DOMAIN events' : events'[n] \subseteq Event
    BY <1>7, <2>0, <2>1 DEF FileEvents, WriteFile
  <2> QED
    BY <1>7, <2>2 DEF FileEvents, AfterEvents, InPython
<1>8. CASE StoreWasm
  BY <1>8 DEF StoreWasm, RequestInv, InPython
<1>9. CASE CloseLedger
  <2>0. cur.tx \in Tx /\ cur.now \in Times /\ latest \in Nat
    BY <1>0, <1>9 DEF CloseLedger, RequestInv, SendOnly, Booting
  <2>1. /\ DOMAIN ledgers' = DOMAIN ledgers \cup {latest}
        /\ ledgers'[latest] =
             LedgerRecord(latest, cur.tx, cur.now, PreviousHash(latest))
        /\ \A n \in DOMAIN ledgers : n # latest => ledgers'[n] = ledgers[n]
    BY <1>9 DEF CloseLedger, WriteFile
  <2>2. \A n \in DOMAIN ledgers' :
          /\ DOMAIN ledgers'[n] = {"txHash", "closedAt", "previous", "hash"}
          /\ ledgers'[n].txHash \in Tx
          /\ ledgers'[n].closedAt \in Times
    BY <2>0, <2>1 DEF LedgerRecord
  <2> QED
    BY <1>1, <1>9, <2>0, <2>1, <2>2 DEF CloseLedger, Reply
<1> QED
  BY <1>0a, <1>0b, <1>2, <1>3, <1>4, <1>5, <1>6, <1>7, <1>8, <1>9 DEF PostProcess

-----------------------------------------------------------------------------
(* The request in flight.                                                   *)

\* Start-up, an incoming request and the launch of the interpreter.
LEMMA ControlBeforeRun ==
  ASSUME NodeInv, Boot \/ Stop \/ Clients \/ Launch
  PROVE  RequestInv' /\ FreshnessInv' /\ ResponseInv'
<1> USE DEF NodeInv, RequestInv, FreshnessInv, ResponseInv, HasReceipt, Sending,
            Answering, Booting, SendOnly
<1>1. CASE Boot
  BY <1>1 DEF Boot, SeedState, SeedWritten, ResumeState, SeedMetadata, storeVars,
     NoRequest, TypeOK, StoreTypeOK, NoMetadata
<1>2. ASSUME NEW t \in Tx, NEW now \in Times, SubmitTx(t, now)
      PROVE  RequestInv' /\ FreshnessInv' /\ ResponseInv'
  BY <1>2 DEF SubmitTx, chainFiles
<1>3. CASE SubmitRead
  BY <1>3 DEF SubmitRead, storeVars, NoRequest
<1>4. ASSUME NEW t \in Tx, Simulate(t)
      PROVE  RequestInv' /\ FreshnessInv' /\ ResponseInv'
  BY <1>4 DEF Simulate, NoRequest
<1>5. CASE Launch
  BY <1>5 DEF Launch, UnlinkResponse, InjectsProgram, chainFiles
<1>6. CASE Stop
  BY <1>6 DEF Stop, storeVars, NoRequest
<1> QED
  BY <1>1, <1>2, <1>3, <1>4, <1>5, <1>6 DEF Clients

\* The run.
LEMMA ControlDuringRun ==
  ASSUME NodeInv, Semantics
  PROVE  RequestInv' /\ FreshnessInv' /\ ResponseInv'
<1> USE DEF NodeInv, RequestInv, FreshnessInv, ResponseInv, HasReceipt, Sending,
            Answering, Booting, SendOnly
<1>1. CASE ProgramRuns \/ ProgramStuck \/ ReadStuck
  BY <1>1 DEF ProgramRuns, ProgramStuck, ReadStuck, Stuck, storeVars, chainFiles
<1>2. CASE DispatchDuplicate \/ DispatchRead
  BY <1>2 DEF DispatchDuplicate, DispatchRead, IsFresh, chainFiles
<1>3. CASE OpenTrace
  BY <1>3 DEF OpenTrace, IsFresh
<1>4. CASE StepsRun \/ StepsStuck
  BY <1>4 DEF StepsRun, StepsStuck, Stuck, chainFiles
<1>5. CASE WriteMetadata
  BY <1>5 DEF WriteMetadata, chainFiles
<1>6. CASE WriteReceipt
  BY <1>6 DEF WriteReceipt
<1>7. CASE RespondPending
  BY <1>7 DEF RespondPending, chainFiles
<1> QED
  BY <1>1, <1>2, <1>3, <1>4, <1>5, <1>6, <1>7 DEF Semantics

\* The server's part after the run.
LEMMA ControlAfterRun ==
  ASSUME NodeInv, PostProcess
  PROVE  RequestInv' /\ FreshnessInv' /\ ResponseInv'
<1> USE DEF NodeInv, RequestInv, FreshnessInv, ResponseInv, HasReceipt, Sending,
            Answering, Booting, SendOnly
<1>1. CASE RecordFailure \/ ReadFails
  BY <1>1 DEF RecordFailure, ReadFails, Reply, NoRequest, storeVars
<1>2. CASE TruncateState \/ DropStaged
  BY <1>2 DEF TruncateState, DropStaged, chainFiles
<1>3. CASE PersistState
  BY <1>3 DEF PersistState, AfterPersist, Reply, NoRequest, chainFiles
<1>4. CASE AttachResult \/ AttachFails
  BY <1>4 DEF AttachResult, AttachFails, Reply, NoRequest
<1>5. CASE FileEvents
  BY <1>5 DEF FileEvents, AfterEvents
<1>6. CASE StoreWasm \/ CloseLedger
  BY <1>6 DEF StoreWasm, CloseLedger, Reply, NoRequest
<1>7. CASE TakeStaged
  BY <1>7, LinesHeld DEF TakeStaged, chainFiles
<1> QED
  BY <1>1, <1>2, <1>3, <1>4, <1>5, <1>6, <1>7 DEF PostProcess

-----------------------------------------------------------------------------
(* The transaction being committed.                                         *)

\* Nothing is being committed before the run; the configuration is loaded.
LEMMA CommitBeforeRun ==
  ASSUME NodeInv, Boot \/ Stop \/ Clients \/ Launch
  PROVE  ConfigInv' /\ CommitInv' /\ BootInv'
<1> USE DEF NodeInv, ConfigInv, CommitInv, BootInv, World, Sending, Answering
<1>1. CASE Boot
  <2>1. CASE SeedState
    BY <2>1 DEF SeedState, TypeOK, StoreTypeOK, StateKore
  <2>2. CASE SeedWritten
    BY <2>2 DEF SeedWritten, EmptyConfig
  <2>3. CASE ResumeState \/ SeedMetadata
    BY <2>3 DEF ResumeState, SeedMetadata, storeVars
  <2> QED
    BY <1>1, <2>1, <2>2, <2>3 DEF Boot
<1>2. CASE Clients
  BY <1>2 DEF Clients, SubmitTx, SubmitRead, Simulate, storeVars
<1>3. CASE Launch
  BY <1>3 DEF Launch, UnlinkResponse, InjectsProgram
<1>4. CASE Stop
  BY <1>4 DEF Stop, storeVars
<1> QED
  BY <1>1, <1>2, <1>3, <1>4

\* The run adds the transaction to the configuration, and then counts it.
LEMMA CommitDuringRun ==
  ASSUME NodeInv, Semantics
  PROVE  ConfigInv' /\ CommitInv' /\ BootInv'
<1> USE DEF NodeInv, BootInv, World, Sending, Answering, InjectsProgram
<1>0. \A i \in 1 .. Len(World) : World[i] \in DOMAIN receipts
  BY DEF WorldFollowsLedgers, Succeeded, HasReceipt
<1>1. CASE ProgramRuns
  <2>1. InjectsProgram(cur)
    BY <1>1 DEF ProgramRuns, RequestInv, FreshnessInv, SendOnly
  <2> QED
    BY <1>1, <2>1 DEF ProgramRuns, RunOf, storeVars, ConfigInv, CommitInv
<1>8. CASE ProgramStuck \/ ReadStuck
  BY <1>8 DEF ProgramStuck, ReadStuck, Stuck, storeVars, ConfigInv, CommitInv,
     ResponseInv
<1>2. CASE DispatchDuplicate \/ DispatchRead
  BY <1>2 DEF DispatchDuplicate, DispatchRead, IsFresh, ConfigInv, CommitInv,
     FreshnessInv, chainFiles
<1>3. CASE OpenTrace
  BY <1>3 DEF OpenTrace, IsFresh, ConfigInv, CommitInv, FreshnessInv
<1>4. CASE StepsRun
  BY <1>4 DEF StepsRun, RunOf, ConfigInv, CommitInv
<1>9. CASE StepsStuck
  BY <1>9 DEF StepsStuck, Stuck, ConfigInv, CommitInv, ResponseInv
<1>5. CASE WriteMetadata
  BY <1>5 DEF WriteMetadata, ConfigInv, CommitInv, WorldFollowsLedgers, RequestInv,
     Booting, chainFiles, TypeOK, StoreTypeOK, Receipt, Succeeded, HasReceipt
<1>6. CASE WriteReceipt
  BY <1>0, <1>6 DEF WriteReceipt, TxReceipt, WriteFile, ConfigInv, CommitInv,
     FreshnessInv, Succeeded, HasReceipt
<1>7. CASE RespondPending
  <2>1. Sending /\ ~cur.dup
    BY <1>7 DEF RespondPending, RequestInv, ResponseInv, SendOnly
  <2> QED
    BY <1>7, <2>1 DEF RespondPending, ConfigInv, CommitInv, Succeeded, HasReceipt,
       chainFiles
<1> QED
  BY <1>1, <1>2, <1>3, <1>4, <1>5, <1>6, <1>7, <1>8, <1>9 DEF Semantics

\* The server makes the configuration the world.
LEMMA CommitAfterRun ==
  ASSUME NodeInv, PostProcess
  PROVE  ConfigInv' /\ CommitInv' /\ BootInv'
<1> USE DEF NodeInv, BootInv, World, Sending, Answering
<1>1. CASE RecordFailure \/ ReadFails
  BY <1>1 DEF RecordFailure, ReadFails, Reply, ConfigInv, CommitInv, storeVars
<1>2. CASE TruncateState
  BY <1>2 DEF TruncateState, ConfigInv, CommitInv, Succeeded, HasReceipt, chainFiles
<1>8. CASE DropStaged
  BY <1>8 DEF DropStaged, ConfigInv, CommitInv
<1>3. CASE PersistState
  <2>1. ConfigInv' /\ BootInv'
    BY <1>3 DEF PersistState, PrintedState, AfterPersist, Reply, ConfigInv
  <2>2. CommitInv'
    BY <1>3, AppendedWorld DEF PersistState, PrintedState, AfterPersist, Reply,
       ConfigInv, CommitInv, Applied, Succeeded, HasReceipt, chainFiles, TypeOK,
       StoreTypeOK, StateKore, Config, RequestInv
  <2> QED
    BY <2>1, <2>2
<1>4. CASE AttachResult
  <2>1. Applied' = Applied /\ pc' = "events" /\ UNCHANGED <<stateKore, cur>>
    BY <1>4 DEF AttachResult, Applied
  <2>2. Succeeded(cur.tx) => Succeeded(cur.tx)'
    BY <1>4 DEF AttachResult, Succeeded, HasReceipt, TypeOK, StoreTypeOK, Receipt
  <2> QED
    BY <1>4, <2>1, <2>2 DEF AttachResult, ConfigInv, CommitInv
<1>6. CASE AttachFails
  BY <1>6 DEF AttachFails, Reply, ConfigInv, CommitInv
<1>5. CASE FileEvents \/ StoreWasm \/ CloseLedger
  BY <1>5 DEF FileEvents, AfterEvents, StoreWasm, CloseLedger, Reply, ConfigInv,
     CommitInv, Applied, Succeeded, HasReceipt
<1>7. CASE TakeStaged
  BY <1>7, LinesHeld DEF TakeStaged, ConfigInv, CommitInv, Applied, Succeeded, HasReceipt,
     chainFiles
<1> QED
  BY <1>1, <1>2, <1>3, <1>4, <1>5, <1>6, <1>7, <1>8 DEF PostProcess

-----------------------------------------------------------------------------
(* The world and what clients were told of it.                              *)

\* WorldFollowsLedgers and AckedInv depend on four files only.
LEMMA WorldUntouched ==
  ASSUME NodeInv, UNCHANGED <<stateKore.config, latest, receipts, acked>>
  PROVE  WorldFollowsLedgers' /\ AckedInv'
BY DEF NodeInv, WorldFollowsLedgers, AckedInv, World, Applied, Succeeded,
   Failed, HasReceipt

\* Neither start-up nor an incoming request touches the world.
LEMMA WorldBeforeRun ==
  ASSUME NodeInv, Boot \/ Stop \/ Clients \/ Launch
  PROVE  WorldFollowsLedgers' /\ AckedInv'
<1>1. CASE SeedState \/ ResumeState
  BY <1>1, WorldUntouched DEF SeedState, ResumeState, storeVars, chainFiles, NodeInv,
     TypeOK, StoreTypeOK, StateKore
<1>2. CASE SeedWritten
  <2>1. World = << >> /\ World' = << >>
    BY <1>2 DEF SeedWritten, NodeInv, BootInv, World, EmptyConfig
  <2>2. Applied' = Applied /\ UNCHANGED <<latest, receipts, acked>>
    BY <1>2, <2>1 DEF SeedWritten, Applied, World, chainFiles
  <2> QED
    BY <2>1, <2>2 DEF NodeInv, WorldFollowsLedgers, AckedInv, Succeeded, Failed,
       HasReceipt
<1>3. CASE SeedMetadata
  <2>1. UNCHANGED <<stateKore, receipts, acked>>
    BY <1>3 DEF SeedMetadata, chainFiles
  <2>2. World # << >> => latest' = latest
    <3>1. pc = "seeded" => World = << >>
      BY DEF NodeInv, BootInv
    <3>2. latest = NoMetadata => World = << >>
      <4>1. World \in Seq(Tx)
        BY DEF NodeInv, TypeOK, StoreTypeOK, StateKore, Config, World
      <4>2. World # << >> => receipts[World[1]].ledger \in Nat
        BY <4>1 DEF NodeInv, TypeOK, StoreTypeOK, WorldFollowsLedgers, Succeeded,
           HasReceipt, Receipt
      <4> QED
        BY <4>1, <4>2 DEF NodeInv, WorldFollowsLedgers, NoMetadata
    <3> QED
      BY <1>3, <3>1, <3>2 DEF SeedMetadata
  <2> QED
    BY <2>1, <2>2 DEF NodeInv, WorldFollowsLedgers, AckedInv, World, Applied,
       Succeeded, Failed, HasReceipt
<1>4. CASE Stop \/ Clients \/ Launch
  BY <1>4, WorldUntouched DEF Stop, Clients, SubmitTx, SubmitRead, Simulate, Launch,
     storeVars, chainFiles
<1> QED
  BY <1>1, <1>2, <1>3, <1>4 DEF Boot

\* The run moves the counter up and adds a receipt that was not there.
LEMMA WorldDuringRun ==
  ASSUME NodeInv, Semantics
  PROVE  WorldFollowsLedgers' /\ AckedInv'
<1>1. CASE WriteMetadata
  <2>1. /\ latest' = latest + 1
        /\ UNCHANGED <<stateKore, receipts, acked>>
    BY <1>1 DEF WriteMetadata, chainFiles
  <2>2. latest \in Nat
    BY <1>1 DEF WriteMetadata, NodeInv, RequestInv, Booting
  <2>3. \A i \in 1 .. Len(World) : receipts[World[i]].ledger \in Nat
    BY DEF NodeInv, TypeOK, StoreTypeOK, Receipt, WorldFollowsLedgers, Succeeded,
       HasReceipt
  <2> QED
    BY <2>1, <2>2, <2>3 DEF NodeInv, WorldFollowsLedgers, AckedInv, World,
       Applied, Succeeded, Failed, HasReceipt
<1>2. CASE WriteReceipt
  <2>1. /\ UNCHANGED <<stateKore, latest, acked>>
        /\ ~HasReceipt(cur.tx)
        /\ receipts' = WriteFile(receipts, cur.tx, TxReceipt)
    BY <1>2 DEF WriteReceipt, NodeInv, FreshnessInv
  <2>2. \A t \in DOMAIN receipts : t \in DOMAIN receipts' /\ receipts'[t] = receipts[t]
    BY <2>1 DEF WriteFile, HasReceipt
  <2> QED
    BY <2>1, <2>2 DEF NodeInv, WorldFollowsLedgers, AckedInv, World, Applied,
       Succeeded, Failed, HasReceipt
<1>3. CASE Semantics /\ ~WriteMetadata /\ ~WriteReceipt
  BY <1>3, WorldUntouched DEF Semantics, ProgramRuns, ProgramStuck, ReadStuck,
     DispatchDuplicate, DispatchRead, OpenTrace, StepsRun, StepsStuck,
     RespondPending, storeVars, chainFiles
<1> QED
  BY <1>1, <1>2, <1>3

\* The server records failures, finishes receipts and saves the world.
LEMMA WorldAfterRun ==
  ASSUME NodeInv, PostProcess
  PROVE  WorldFollowsLedgers' /\ AckedInv'
<1>0. \A i \in 1 .. Len(World) : World[i] \in DOMAIN receipts
  BY DEF NodeInv, WorldFollowsLedgers, Succeeded, HasReceipt
<1>1. CASE RecordFailure
  <2>1. /\ UNCHANGED <<stateKore, latest>>
        /\ ~HasReceipt(cur.tx)
        /\ receipts' = WriteFile(receipts, cur.tx, FailedReceipt)
        /\ acked' = acked \cup {cur.tx}
    BY <1>1 DEF RecordFailure, NodeInv, FreshnessInv
  <2>2. \A t \in DOMAIN receipts : t \in DOMAIN receipts' /\ receipts'[t] = receipts[t]
    BY <2>1 DEF WriteFile, HasReceipt
  <2>3. cur.tx \in DOMAIN receipts' /\ receipts'[cur.tx].status = "FAILED"
    BY <2>1 DEF WriteFile, FailedReceipt
  <2> QED
    BY <2>1, <2>2, <2>3 DEF NodeInv, WorldFollowsLedgers, AckedInv, World,
       Applied, Succeeded, Failed, HasReceipt
<1>2. CASE PersistState
  <2>1. CASE World' = World
    BY <1>2, <2>1 DEF PersistState, chainFiles, NodeInv, WorldFollowsLedgers,
       AckedInv, World, Applied, Succeeded, Failed, HasReceipt
  <2>2. CASE Sending /\ ~cur.dup
    <3>1. /\ World' = Append(World, cur.tx)
          /\ UNCHANGED <<latest, receipts, acked>>
      BY <1>2, <2>2 DEF PersistState, PrintedState, NodeInv, ConfigInv, Answering, World,
         chainFiles
    <3>2. World \in Seq(Tx) /\ cur.tx \in Tx
      BY <2>2 DEF NodeInv, TypeOK, StoreTypeOK, StateKore, Config, World, RequestInv
    <3>3. /\ Succeeded(cur.tx)
          /\ receipts[cur.tx].ledger = latest
          /\ \A i \in 1 .. Len(World) : receipts[World[i]].ledger < latest
      BY <1>2, <2>2 DEF PersistState, NodeInv, CommitInv, Answering
    <3>4. latest \in Nat
      BY <1>2 DEF PersistState, NodeInv, RequestInv, Booting
    <3>5. WorldFollowsLedgers'
      BY <3>1, <3>2, <3>3, <3>4, AppendedWorld DEF NodeInv, WorldFollowsLedgers,
         Succeeded, HasReceipt
    <3>6. Applied \subseteq Applied'
      BY <3>1, <3>2, AppendedWorld DEF Applied, World
    <3> QED
      BY <3>1, <3>5, <3>6 DEF NodeInv, AckedInv, Succeeded, Failed, HasReceipt
  <2> QED
    BY <1>2, <2>1, <2>2 DEF PersistState, PrintedState, NodeInv, ConfigInv, Answering,
       World
<1>3. CASE AttachResult \/ AttachFails
  <2>1. /\ UNCHANGED <<stateKore, latest, acked>>
        /\ DOMAIN receipts' = DOMAIN receipts
        /\ \A t \in DOMAIN receipts : /\ receipts'[t].status = receipts[t].status
                                     /\ receipts'[t].ledger = receipts[t].ledger
    BY <1>3 DEF AttachResult, AttachFails, NodeInv, TypeOK, StoreTypeOK, Receipt
  <2> QED
    BY <1>0, <2>1 DEF NodeInv, WorldFollowsLedgers, AckedInv, World, Applied,
       Succeeded, Failed, HasReceipt
<1>4. CASE CloseLedger
  <2>1. /\ UNCHANGED <<stateKore, latest, receipts>>
        /\ acked' = IF response = "PENDING" THEN acked \cup {cur.tx} ELSE acked
    BY <1>4 DEF CloseLedger
  <2>2. response = "PENDING" => Succeeded(cur.tx) /\ cur.tx \in Applied
    BY <1>4 DEF CloseLedger, NodeInv, RequestInv, ResponseInv, CommitInv, SendOnly
  <2> QED
    BY <2>1, <2>2 DEF NodeInv, WorldFollowsLedgers, AckedInv, World, Applied,
       Succeeded, Failed, HasReceipt
<1>5. CASE ReadFails \/ DropStaged \/ TruncateState \/ TakeStaged \/ FileEvents \/ StoreWasm
  BY <1>5, WorldUntouched DEF ReadFails, DropStaged, TruncateState, TakeStaged, FileEvents,
     StoreWasm, storeVars, chainFiles, NodeInv, TypeOK, StoreTypeOK, StateKore
<1> QED
  BY <1>1, <1>2, <1>3, <1>4, <1>5 DEF PostProcess

-----------------------------------------------------------------------------
(* The invariant.                                                           *)

LEMMA InitEstablishesInv == Init => NodeInv
<1> SUFFICES ASSUME Init PROVE NodeInv
  OBVIOUS
<1> USE DEF Init, StoreInit
<1>1. TypeOK
  BY DEF TypeOK, StoreTypeOK, StateKore, Config, EmptyConfig, NoFiles, NoMetadata,
     Responses, Request, NoRequest, Booting
<1>2. RequestInv /\ FreshnessInv /\ ResponseInv
  BY DEF RequestInv, FreshnessInv, ResponseInv, Booting, SendOnly, Sending, NoRequest,
     Answering
<1>3. ConfigInv /\ CommitInv /\ BootInv
  BY DEF ConfigInv, CommitInv, BootInv, Answering, World, EmptyConfig
<1>4. WorldFollowsLedgers /\ AckedInv
  BY DEF WorldFollowsLedgers, AckedInv, World, EmptyConfig
<1> QED
  BY <1>1, <1>2, <1>3, <1>4 DEF NodeInv

\* A step of the node, or none at all.
LEMMA NextPreservesInv == NodeInv /\ [Next]_vars => NodeInv'
<1> SUFFICES ASSUME NodeInv, [Next]_vars PROVE NodeInv'
  OBVIOUS
<1>1. CASE Boot \/ Stop \/ Clients \/ Launch
  BY <1>1, TypeBeforeRun, ControlBeforeRun, CommitBeforeRun, WorldBeforeRun
     DEF NodeInv
<1>2. CASE Semantics
  BY <1>2, TypeDuringRun, ControlDuringRun, CommitDuringRun, WorldDuringRun
     DEF NodeInv
<1>3. CASE PostProcess
  BY <1>3, TypeAfterRun, ControlAfterRun, CommitAfterRun, WorldAfterRun
     DEF NodeInv
<1>4. CASE UNCHANGED vars
  <2> USE <1>4 DEF vars, storeVars, nodeVars, chainFiles, NodeInv
  <2>1. TypeOK'
    BY DEF TypeOK, StoreTypeOK
  <2>2. RequestInv' /\ FreshnessInv' /\ ResponseInv'
    BY DEF RequestInv, FreshnessInv, ResponseInv, Sending, Answering, HasReceipt
  <2>3. ConfigInv' /\ CommitInv' /\ BootInv'
    BY DEF ConfigInv, CommitInv, BootInv, Sending, Answering, World, InjectsProgram,
       Succeeded, HasReceipt, Applied
  <2>4. WorldFollowsLedgers' /\ AckedInv'
    BY WorldUntouched
  <2> QED
    BY <2>1, <2>2, <2>3, <2>4
<1> QED
  BY <1>1, <1>2, <1>3, <1>4 DEF Next, Serving

\* A process dies, or a run finds what an earlier death left: nothing is in
\* flight any more, and of the io-dir at most the response is gone.
LEMMA FaultPreservesInv ==
  ASSUME NodeInv, LaunchFails \/ SimulationFails \/ Crash \/ InterpreterDies
  PROVE  NodeInv'
<1>1. /\ UNCHANGED <<stateKore, latest, chainFiles, staged, acked>>
      /\ response' \in {"none", response}
      /\ cur' = NoRequest
      /\ config' \in {EmptyConfig, config}
      /\ pc' = "down" \/ (pc' = "idle" /\ pc \notin Booting)
  <2>1. CASE LaunchFails
    BY <2>1 DEF LaunchFails, Reply, UnlinkResponse, Booting
  <2>2. CASE SimulationFails
    BY <2>2 DEF SimulationFails, UnlinkResponse, Booting, NodeInv, RequestInv, Sending,
       NoRequest
  <2>3. CASE Crash
    BY <2>3 DEF Crash, storeVars, chainFiles
  <2>4. CASE InterpreterDies
    BY <2>4 DEF InterpreterDies, Reply, storeVars, chainFiles, InK, Booting
  <2> QED
    BY <2>1, <2>2, <2>3, <2>4
<1> USE <1>1 DEF NodeInv, chainFiles
<1>2. TypeOK'
  <2>1. config' \in Config
    <3>1. EmptyConfig \in Config
      BY DEF EmptyConfig, Config
    <3> QED
      BY <3>1 DEF TypeOK
  <2>2. response' \in Responses
    BY DEF TypeOK, StoreTypeOK, Responses
  <2> QED
    BY <2>1, <2>2 DEF TypeOK, StoreTypeOK, Request, NoRequest, Booting
<1>3. RequestInv' /\ FreshnessInv' /\ ResponseInv'
  BY DEF RequestInv, FreshnessInv, ResponseInv, Sending, Answering, NoRequest, Booting,
     SendOnly
<1>4. ConfigInv' /\ CommitInv' /\ BootInv'
  BY DEF ConfigInv, CommitInv, BootInv, Answering, World
<1>5. WorldFollowsLedgers' /\ AckedInv'
  BY WorldUntouched
<1> QED
  BY <1>2, <1>3, <1>4, <1>5

\* The invariant of the node that cannot die ...
THEOREM NodeInvariance == Spec => []NodeInv
BY InitEstablishesInv, NextPreservesInv, PTL DEF Spec

\* ... and of the one that can, however often.
THEOREM FaultyInvariance == FaultySpec => []NodeInv
<1>1. FaultyInit => NodeInv
  BY InitEstablishesInv DEF FaultyInit
<1>2. NodeInv /\ [FaultyNext]_faultyVars => NodeInv'
  BY NextPreservesInv, FaultPreservesInv DEF FaultyNext, faultyVars
<1> QED
  BY <1>1, <1>2, PTL DEF FaultySpec

-----------------------------------------------------------------------------
(* What follows from it.                                                    *)

\* Every file, and the request in flight, always has its type.
THEOREM FaultyTypes == FaultySpec => []FaultyTypeOK
<1>1. FaultyInit => faults \in Nat
  BY DEF FaultyInit
<1>2. faults \in Nat /\ [FaultyNext]_faultyVars => (faults \in Nat)'
  BY DEF FaultyNext, faultyVars, LaunchFails, SimulationFails, Crash, InterpreterDies,
     Fault
<1>3. NodeInv /\ faults \in Nat => FaultyTypeOK
  BY DEF NodeInv, FaultyTypeOK
<1> QED
  BY <1>1, <1>2, <1>3, FaultyInvariance, PTL DEF FaultySpec

\* No transaction is ever applied twice or out of the order of its ledgers,
\* however many runs are cut short, wherever they are.
THEOREM WorldIsInLedgerOrder == FaultySpec => []WorldFollowsLedgers
<1>1. NodeInv => WorldFollowsLedgers
  BY DEF NodeInv
<1> QED
  BY <1>1, FaultyInvariance, PTL

\* What a client was told is PENDING stays decided, through any number of
\* crashes: no state.kore that can be loaded lacks it.
THEOREM AcknowledgedIsDurable == FaultySpec => []AckedIsDurable
<1>1. NodeInv => AckedIsDurable
  BY DEF NodeInv, AckedInv, AckedIsDurable
<1> QED
  BY <1>1, FaultyInvariance, PTL

\* A receipt, once written, is final.
THEOREM ReceiptsAreFinal == FaultySpec => ReceiptFinal
<1> DEFINE Kept ==
      \A t \in DOMAIN receipts :
        /\ t \in DOMAIN receipts'
        /\ receipts'[t] # receipts[t] =>
             /\ receipts[t].result = "returnValue"
             /\ receipts'[t] = [receipts[t] EXCEPT !.result = receipts'[t].result]
<1>1. ASSUME NodeInv, UNCHANGED receipts PROVE Kept
  BY <1>1
<1>2. ASSUME NodeInv, WriteReceipt PROVE Kept
  BY <1>2 DEF WriteReceipt, WriteFile, NodeInv, FreshnessInv, HasReceipt
<1>3. ASSUME NodeInv, RecordFailure PROVE Kept
  BY <1>3 DEF RecordFailure, WriteFile, NodeInv, FreshnessInv, HasReceipt
<1>4. ASSUME NodeInv, AttachResult \/ AttachFails PROVE Kept
  <2>1. receipts[cur.tx].result = "returnValue"
    BY <1>4 DEF AttachResult, AttachFails, NodeInv, CommitInv
  <2>2. \A t \in DOMAIN receipts : receipts[t] \in Receipt
    BY <1>4 DEF NodeInv, TypeOK, StoreTypeOK
  <2> QED
    BY <1>4, <2>1, <2>2 DEF AttachResult, AttachFails, Receipt
<1>5. ASSUME NodeInv, Next PROVE Kept
  <2>1. CASE UNCHANGED receipts
    BY <1>5, <2>1, <1>1
  <2>2. CASE WriteReceipt \/ RecordFailure \/ AttachResult \/ AttachFails
    BY <1>5, <2>2, <1>2, <1>3, <1>4
  <2>3. \/ UNCHANGED receipts
        \/ WriteReceipt \/ RecordFailure \/ AttachResult \/ AttachFails
    BY <1>5 DEF Next, Boot, SeedState, SeedWritten, ResumeState, SeedMetadata, Stop,
       Clients, SubmitTx, SubmitRead, Simulate, Serving, Launch, Semantics,
       ProgramRuns, ProgramStuck, ReadStuck, DispatchDuplicate, DispatchRead,
       OpenTrace, StepsRun, StepsStuck, WriteMetadata, RespondPending, PostProcess,
       DropStaged, ReadFails, TruncateState, PersistState, TakeStaged, FileEvents,
       StoreWasm, CloseLedger, storeVars, chainFiles
  <2> QED
    BY <2>1, <2>2, <2>3
<1>6. ASSUME NodeInv, LaunchFails \/ SimulationFails \/ Crash \/ InterpreterDies
      PROVE  Kept
  BY <1>6, <1>1 DEF LaunchFails, SimulationFails, Crash, InterpreterDies, storeVars,
     chainFiles
<1>7. NodeInv /\ [FaultyNext]_faultyVars => [Kept]_vars
  BY <1>5, <1>6 DEF FaultyNext, faultyVars
<1> QED
  BY <1>7, FaultyInvariance, PTL DEF FaultySpec, ReceiptFinal

-----------------------------------------------------------------------------
(***************************************************************************)
(* The node implements TxLog: every step of it commits one transaction,     *)
(* rejects one, loses one (only when a process dies), or changes nothing    *)
(* that the abstract log can see.                                           *)
(***************************************************************************)

\* The abstract state, and a step it does not see.
LogUnseen == UNCHANGED <<World, Rejected, Lost>>

\* Rejected and Lost are determined by the receipts, the world, and which
\* transaction is in flight.
LEMMA UnseenStep ==
  ASSUME UNCHANGED <<receipts, World>>,
         \A t \in Tx : Succeeded(t) /\ t \notin Applied => (InFlight(t)' <=> InFlight(t))
  PROVE  LogUnseen
<1>1. \A t \in Tx : /\ Succeeded(t)' <=> Succeeded(t)
                    /\ Failed(t)' <=> Failed(t)
  BY DEF Succeeded, Failed, HasReceipt
<1>2. Applied' = Applied
  BY DEF Applied, World
<1>3. Rejected' = Rejected
  BY <1>1 DEF Rejected
<1>4. Lost' = Lost
  BY <1>1, <1>2 DEF Lost
<1> QED
  BY <1>3, <1>4 DEF LogUnseen

\* Before the run no transaction that has a receipt is in flight.
LEMMA UnseenBeforeRun ==
  ASSUME NodeInv, Boot \/ Stop \/ Clients \/ Launch
  PROVE  LogUnseen
<1>0. \A t \in Tx : Succeeded(t) => ~InFlight(t)
  <2>1. pc \in Booting \cup {"idle", "launch"}
    BY DEF Boot, SeedState, SeedWritten, ResumeState, SeedMetadata, Clients, SubmitTx,
       SubmitRead, Simulate, Launch, Stop, Booting
  <2>2. CASE pc \in Booting \cup {"idle"}
    BY <2>2, ChainStoreAssumption DEF NodeInv, RequestInv, NoRequest, InFlight
  <2>3. CASE pc = "launch"
    BY <2>3, ChainStoreAssumption DEF NodeInv, RequestInv, FreshnessInv, InFlight,
       Succeeded, Sending
  <2> QED
    BY <2>1, <2>2, <2>3
<1>1. \A t \in Tx : Succeeded(t) => ~InFlight(t)'
  <2>1. CASE UNCHANGED cur
    BY <1>0, <2>1 DEF InFlight
  <2>2. CASE cur' = NoRequest \/ SubmitRead
    BY <2>2, ChainStoreAssumption DEF NoRequest, InFlight, SubmitRead
  <2>3. ASSUME NEW t \in Tx, NEW now \in Times, SubmitTx(t, now)
        PROVE  \A x \in Tx : Succeeded(x) => ~InFlight(x)'
    BY <2>3 DEF SubmitTx, InFlight, Succeeded
  <2> QED
    BY <2>1, <2>2, <2>3 DEF Boot, SeedState, SeedWritten, ResumeState, SeedMetadata,
       Clients, Simulate, Launch, Stop
<1>2. World' = World
  <2>1. CASE SeedWritten
    BY <2>1 DEF SeedWritten, NodeInv, BootInv, World, EmptyConfig
  <2>2. CASE SeedState
    BY <2>2 DEF SeedState, World, NodeInv, TypeOK, StoreTypeOK, StateKore
  <2> QED
    BY <2>1, <2>2 DEF Boot, ResumeState, SeedMetadata, Clients, SubmitTx, SubmitRead,
       Simulate, Launch, Stop, World, storeVars
<1>3. receipts' = receipts
  BY DEF Boot, SeedState, SeedWritten, ResumeState, SeedMetadata, Clients, SubmitTx,
     SubmitRead, Simulate, Launch, Stop, storeVars, chainFiles
<1> QED
  BY <1>0, <1>1, <1>2, <1>3, UnseenStep

\* The run is not seen: the one receipt it writes is of a transaction that is
\* still in flight.
LEMMA UnseenDuringRun ==
  ASSUME NodeInv, Semantics
  PROVE  LogUnseen
<1>1. CASE WriteReceipt
  <2>1. /\ UNCHANGED <<stateKore, cur>>
        /\ InFlight(cur.tx) /\ ~HasReceipt(cur.tx)
    BY <1>1 DEF WriteReceipt, NodeInv, FreshnessInv, InFlight
  <2>2. \A t \in Tx : t # cur.tx => /\ Succeeded(t)' <=> Succeeded(t)
                                    /\ Failed(t)' <=> Failed(t)
    BY <1>1 DEF WriteReceipt, WriteFile, Succeeded, Failed, HasReceipt
  <2>3. ~Failed(cur.tx) /\ receipts'[cur.tx].status # "FAILED"
    BY <1>1, <2>1 DEF WriteReceipt, WriteFile, TxReceipt, Failed
  <2>4. Rejected' = Rejected
    BY <2>1, <2>2, <2>3 DEF Rejected, Failed
  <2>5. Lost' = Lost
    BY <2>1, <2>2 DEF Lost, InFlight, Applied, World
  <2> QED
    BY <2>1, <2>4, <2>5 DEF LogUnseen, World
<1>2. CASE Semantics /\ ~WriteReceipt
  <2>1. UNCHANGED <<stateKore, receipts, cur>>
    BY <1>2 DEF Semantics, ProgramRuns, ProgramStuck, ReadStuck, DispatchDuplicate,
       DispatchRead, OpenTrace, StepsRun, StepsStuck, WriteMetadata, RespondPending,
       Stuck, storeVars, chainFiles
  <2> QED
    BY <2>1, UnseenStep DEF InFlight, World
<1> QED
  BY <1>1, <1>2

\* What the server does after the run commits or rejects the transaction in
\* flight, or is not seen.
LEMMA SeenAfterRun ==
  ASSUME NodeInv, PostProcess
  PROVE  Log!Next \/ LogUnseen
<1>1. CASE RecordFailure
  <2>1. /\ UNCHANGED stateKore
        /\ cur' = NoRequest
        /\ cur.tx \in Tx
        /\ ~HasReceipt(cur.tx)
        /\ receipts' = WriteFile(receipts, cur.tx, FailedReceipt)
    BY <1>1 DEF RecordFailure, Reply, NodeInv, RequestInv, FreshnessInv, SendOnly
  <2>2. /\ cur.tx \in DOMAIN receipts' /\ receipts'[cur.tx].status = "FAILED"
        /\ \A t \in Tx : t # cur.tx => /\ Succeeded(t)' <=> Succeeded(t)
                                       /\ Failed(t)' <=> Failed(t)
    BY <2>1 DEF WriteFile, FailedReceipt, Succeeded, Failed, HasReceipt
  <2>3. Rejected' = Rejected \cup {cur.tx} /\ Lost' = Lost
    <3>1. Rejected' = Rejected \cup {cur.tx}
      BY <2>1, <2>2 DEF Rejected, Failed, HasReceipt
    <3>2. \A t \in Tx : ~InFlight(t)'
      BY <2>1, ChainStoreAssumption DEF InFlight, NoRequest
    <3>3. ~Succeeded(cur.tx) /\ receipts'[cur.tx].status # "SUCCESS"
      BY <2>1, <2>2 DEF Succeeded
    <3>4. \A t \in Tx : t # cur.tx => ~InFlight(t)
      BY DEF InFlight
    <3>5. Applied' = Applied
      BY <2>1 DEF Applied
    <3>6. \A t \in Tx : Succeeded(t)' <=> Succeeded(t)
      BY <2>2, <3>3 DEF Succeeded
    <3>7. \A t \in Tx : t \in Lost' <=> t \in Lost
      BY <3>2, <3>3, <3>4, <3>5, <3>6 DEF Lost
    <3>8. Lost' = Lost
      BY <3>7 DEF Lost
    <3> QED
      BY <3>1, <3>8
  <2>4. Log!Undecided(cur.tx)
    BY <2>1 DEF Log!Undecided, Log!InLog, NodeInv, WorldFollowsLedgers, Rejected, Lost,
       Succeeded, Failed
  <2> QED
    BY <2>1, <2>3, <2>4 DEF Log!Next, Log!Reject, World
<1>2. CASE PersistState /\ Sending /\ ~cur.dup
  <2>1. /\ World' = Append(World, cur.tx)
        /\ UNCHANGED <<receipts, cur>>
    BY <1>2 DEF PersistState, PrintedState, NodeInv, ConfigInv, Answering, World, Sending,
       chainFiles
  <2>2. World \in Seq(Tx) /\ cur.tx \in Tx /\ latest \in Nat
    BY <1>2 DEF NodeInv, TypeOK, StoreTypeOK, StateKore, Config, World, RequestInv,
       PersistState, Booting
  <2>3. /\ Succeeded(cur.tx) /\ receipts[cur.tx].ledger = latest
        /\ \A i \in 1 .. Len(World) : receipts[World[i]].ledger < latest
    BY <1>2 DEF PersistState, NodeInv, CommitInv, Answering
  <2>4. Log!Undecided(cur.tx)
    BY <1>2, <2>2, <2>3 DEF Log!Undecided, Log!InLog, Rejected, Lost, Succeeded, Failed,
       InFlight
  <2>5. Applied' = Applied \cup {cur.tx}
    <3>1. \A i \in 1 .. Len(World') : World'[i] \in Applied \cup {cur.tx}
      BY <2>1, <2>2, AppendedWorld DEF Applied, World
    <3>2. \A i \in 1 .. Len(World) : World'[i] = World[i]
      BY <2>1, <2>2, AppendedWorld
    <3>3. Len(World') = Len(World) + 1 /\ World'[Len(World) + 1] = cur.tx
      BY <2>1, <2>2, AppendedWorld
    <3>4. Len(World) \in Nat
      BY <2>2
    <3>5. ASSUME NEW x \in Applied
          PROVE  x \in Applied'
      <4>1. PICK i \in 1 .. Len(World) : x = World[i]
        BY DEF Applied, World
      <4>2. i \in 1 .. Len(World') /\ World'[i] = x
        BY <4>1, <3>2, <3>3, <3>4
      <4> QED
        BY <4>2 DEF Applied, World
    <3>6. cur.tx \in Applied'
      <4>1. Len(World) + 1 \in 1 .. Len(World')
        BY <3>3, <3>4
      <4> QED
        BY <4>1, <3>3 DEF Applied, World
    <3>7. Applied' \subseteq Applied \cup {cur.tx}
      BY <3>1 DEF Applied, World
    <3> QED
      BY <3>5, <3>6, <3>7
  <2>6. Rejected' = Rejected
    BY <2>1 DEF Rejected, Failed, HasReceipt
  <2>7. Lost' = Lost
    BY <1>2, <2>1, <2>5 DEF Lost, InFlight, Succeeded, HasReceipt
  <2> QED
    BY <2>1, <2>2, <2>4, <2>6, <2>7 DEF Log!Next, Log!Commit
<1>3. CASE PersistState /\ ~(Sending /\ ~cur.dup)
  <2>1. UNCHANGED <<World, receipts>>
    BY <1>3 DEF PersistState, PrintedState, NodeInv, ConfigInv, Answering, World,
       chainFiles
  <2>2. \A t \in Tx : ~InFlight(t) /\ ~InFlight(t)'
    BY <1>3, ChainStoreAssumption DEF PersistState, Reply, NoRequest, InFlight, Sending,
       NodeInv, RequestInv
  <2> QED
    BY <2>1, <2>2, UnseenStep
<1>4. CASE AttachResult \/ AttachFails
  <2>1. /\ UNCHANGED stateKore
        /\ DOMAIN receipts' = DOMAIN receipts
        /\ \A t \in DOMAIN receipts : receipts'[t].status = receipts[t].status
    BY <1>4 DEF AttachResult, AttachFails, NodeInv, TypeOK, StoreTypeOK, Receipt
  <2>2. cur.tx \in Applied /\ (UNCHANGED cur \/ cur' = NoRequest)
    BY <1>4 DEF AttachResult, AttachFails, Reply, NodeInv, ResponseInv, CommitInv
  <2>3. \A t \in Tx \ {cur.tx} : ~InFlight(t) /\ ~InFlight(t)'
    BY <2>2, ChainStoreAssumption DEF InFlight, NoRequest
  <2>4. \A t \in Tx : /\ Succeeded(t)' <=> Succeeded(t)
                      /\ Failed(t)' <=> Failed(t)
    BY <2>1 DEF Succeeded, Failed, HasReceipt
  <2>5. Applied' = Applied
    BY <2>1 DEF Applied
  <2>6. Rejected' = Rejected /\ Lost' = Lost
    BY <2>2, <2>3, <2>4, <2>5 DEF Rejected, Lost
  <2> QED
    BY <2>1, <2>6 DEF LogUnseen, World
<1>5. CASE CloseLedger
  <2>1. UNCHANGED <<stateKore, receipts>> /\ cur' = NoRequest
    BY <1>5 DEF CloseLedger, Reply
  <2>2. \A t \in Tx : t \notin Applied => ~InFlight(t)
    BY <1>5 DEF CloseLedger, InFlight, NodeInv, CommitInv
  <2>3. \A t \in Tx : ~InFlight(t)'
    BY <2>1, ChainStoreAssumption DEF InFlight, NoRequest
  <2> QED
    BY <2>1, <2>2, <2>3, UnseenStep DEF World
<1>6. CASE ReadFails
  <2>1. UNCHANGED <<stateKore, receipts>> /\ cur' = NoRequest /\ cur.tx = NoTx
    BY <1>6 DEF ReadFails, Reply, storeVars, chainFiles, NodeInv, RequestInv, Sending
  <2> QED
    BY <2>1, UnseenStep, ChainStoreAssumption DEF World, InFlight, NoRequest
<1>7. CASE DropStaged \/ TruncateState \/ TakeStaged \/ FileEvents \/ StoreWasm
  <2>1. UNCHANGED <<World, receipts, cur.tx, cur.dup>>
    BY <1>7, LinesHeld DEF DropStaged, TruncateState, TakeStaged, FileEvents, StoreWasm,
       chainFiles, World, NodeInv, TypeOK, StoreTypeOK, StateKore
  <2> QED
    BY <2>1, UnseenStep DEF InFlight
<1> QED
  BY <1>1, <1>2, <1>3, <1>4, <1>5, <1>6, <1>7 DEF PostProcess

\* A process that dies loses the transaction it was committing, if its receipt
\* was written and the world was not; else nothing is seen of it.
LEMMA FaultLosesAtMostOne ==
  ASSUME NodeInv, LaunchFails \/ SimulationFails \/ Crash \/ InterpreterDies
  PROVE  (\E t \in Tx : Log!Lose(t)) \/ LogUnseen
<1>1. UNCHANGED <<stateKore, receipts>> /\ cur' = NoRequest
  BY DEF LaunchFails, SimulationFails, Crash, InterpreterDies, Reply, storeVars,
     chainFiles, NodeInv, RequestInv
<1>2. \A t \in Tx : ~InFlight(t)'
  BY <1>1, ChainStoreAssumption DEF InFlight, NoRequest
<1>3. /\ Applied' = Applied /\ World' = World /\ Rejected' = Rejected
      /\ \A t \in Tx : Succeeded(t)' <=> Succeeded(t)
  BY <1>1 DEF Applied, World, Rejected, Succeeded, Failed, HasReceipt
<1>4. CASE /\ cur.tx \in Tx /\ InFlight(cur.tx)
           /\ Succeeded(cur.tx) /\ cur.tx \notin Applied
  <2>1. Lost' = Lost \cup {cur.tx}
    BY <1>2, <1>3, <1>4 DEF Lost, InFlight
  <2>2. Log!Undecided(cur.tx)
    BY <1>4 DEF Log!Undecided, Log!InLog, Applied, World, Rejected, Lost, Succeeded, Failed
  <2> QED
    BY <1>3, <1>4, <2>1, <2>2 DEF Log!Lose
<1>5. CASE ~(/\ cur.tx \in Tx /\ InFlight(cur.tx)
             /\ Succeeded(cur.tx) /\ cur.tx \notin Applied)
  <2>1. Lost' = Lost
    BY <1>2, <1>3, <1>5 DEF Lost, InFlight
  <2> QED
    BY <1>3, <2>1 DEF LogUnseen
<1> QED
  BY <1>4, <1>5

LEMMA InitMapsToInit == Init => Log!Init
BY DEF Init, StoreInit, Log!Init, World, EmptyConfig, Rejected, Lost, Succeeded, Failed,
   HasReceipt, NoFiles

LEMMA NextMapsToNext ==
  ASSUME NodeInv, Next
  PROVE  Log!Next \/ LogUnseen
BY UnseenBeforeRun, UnseenDuringRun, SeenAfterRun DEF Next, Serving

LEMMA StutterIsUnseen ==
  ASSUME UNCHANGED vars
  PROVE  LogUnseen
BY UnseenStep DEF vars, storeVars, chainFiles, nodeVars, World, InFlight

\* A node that cannot die decides each transaction once and atomically.
THEOREM NodeImplementsTxLog == Spec => ImplementsTxLog
<1>1. NodeInv /\ [Next]_vars => [Log!Next]_(Log!logVars)
  BY NextMapsToNext, StutterIsUnseen DEF LogUnseen, Log!logVars
<1> QED
  BY <1>1, InitMapsToInit, NodeInvariance, PTL DEF Spec, Log!Spec, ImplementsTxLog

\* One that can die, at any step and any number of times, decides each at most
\* once: what it loses is never applied, what it applied is never reordered.
THEOREM FaultyNodeImplementsLossyTxLog == FaultySpec => ImplementsLossyTxLog
<1>1. NodeInv /\ [FaultyNext]_faultyVars => [Log!LossyNext]_(Log!logVars)
  <2>1. ASSUME NodeInv, Next PROVE [Log!LossyNext]_(Log!logVars)
    BY <2>1, NextMapsToNext DEF LogUnseen, Log!LossyNext, Log!logVars
  <2>2. ASSUME NodeInv, LaunchFails \/ SimulationFails \/ Crash \/ InterpreterDies
        PROVE  [Log!LossyNext]_(Log!logVars)
    BY <2>2, FaultLosesAtMostOne DEF LogUnseen, Log!LossyNext, Log!logVars
  <2>3. ASSUME UNCHANGED faultyVars PROVE [Log!LossyNext]_(Log!logVars)
    BY <2>3, StutterIsUnseen DEF LogUnseen, Log!logVars, faultyVars
  <2> QED
    BY <2>1, <2>2, <2>3 DEF FaultyNext
<1>2. FaultyInit => Log!Init
  BY InitMapsToInit DEF FaultyInit
<1> QED
  BY <1>1, <1>2, FaultyInvariance, PTL
     DEF FaultySpec, Log!LossySpec, ImplementsLossyTxLog

\* The transaction in flight runs, and has not been made part of the world yet.
Committing ==
  \/ pc \in {"steps", "metadata", "receipt", "respond"}
  \/ Answering /\ Sending /\ ~cur.dup

\* A configuration that is about to be saved is idle.
IdleInv ==
  /\ PersistedConfigIdle
  /\ pc \in InK \ {"exit"} \/ Answering => config.idle

\* The trace that the transaction in flight opened is the one it will be known by.
BaselineInv ==
  /\ BaselineIsPriorState
  /\ Committing =>
       /\ cur.tx \in DOMAIN traces
       /\ traces[cur.tx].accounts = AccountsOf(World)

\* What is staged while a transaction is in flight is its own, and it will be
\* filed under the ledger its receipt names.
EventsInv ==
  /\ EventsSound
  /\ Sending /\ pc \notin {"wasm", "close"} =>
       /\ \A i \in 1 .. Len(staged) : staged[i].tx = cur.tx
       /\ cur.dup => staged = << >>
  /\ pc = "file" =>
       /\ \A i \in 1 .. Len(cur.lines) : cur.lines[i].tx = cur.tx
       /\ cur.dup => cur.lines = << >>
  /\ pc \in {"attach", "events", "file"} /\ ~cur.dup => receipts[cur.tx].ledger = latest

\* No record is ahead of the counter, so none has a successor when it is written.
HashInv ==
  /\ HashChain
  /\ \A n \in DOMAIN ledgers : n <= latest
  /\ stateKore.file = "absent" \/ pc \in {"seeding", "seeded"} => DOMAIN ledgers = {}
  /\ pc # "down" => stateKore.file # "absent"

StoreInv == NodeInv /\ IdleInv /\ BaselineInv /\ EventsInv /\ HashInv

-----------------------------------------------------------------------------
(* The saved configuration.                                                 *)

LEMMA IdleBeforeRun ==
  ASSUME NodeInv, IdleInv, Boot \/ Stop \/ Clients \/ Launch
  PROVE  IdleInv'
<1> USE DEF IdleInv, PersistedConfigIdle, InK, Answering
<1>1. CASE Boot
  BY <1>1 DEF Boot, SeedState, SeedWritten, ResumeState, SeedMetadata, storeVars,
     EmptyConfig, NodeInv, TypeOK, StoreTypeOK, StateKore
<1>2. CASE Stop \/ Clients
  BY <1>2 DEF Stop, Clients, SubmitTx, SubmitRead, Simulate, storeVars
<1>3. CASE Launch
  BY <1>3 DEF Launch
<1> QED
  BY <1>1, <1>2, <1>3

LEMMA IdleDuringRun ==
  ASSUME NodeInv, IdleInv, Semantics
  PROVE  IdleInv'
<1> USE DEF IdleInv, PersistedConfigIdle, InK, Answering
<1>1. CASE ProgramRuns \/ StepsRun
  BY <1>1 DEF ProgramRuns, StepsRun, RunOf, storeVars, chainFiles
<1>2. CASE ProgramStuck \/ ReadStuck \/ StepsStuck
  BY <1>2 DEF ProgramStuck, ReadStuck, StepsStuck, Stuck, storeVars, chainFiles, NodeInv,
     ResponseInv
<1>3. CASE DispatchDuplicate \/ DispatchRead \/ OpenTrace \/ WriteMetadata
           \/ WriteReceipt \/ RespondPending
  BY <1>3 DEF DispatchDuplicate, DispatchRead, OpenTrace, WriteMetadata, WriteReceipt,
     RespondPending
<1> QED
  BY <1>1, <1>2, <1>3 DEF Semantics

LEMMA IdleAfterRun ==
  ASSUME NodeInv, IdleInv, PostProcess
  PROVE  IdleInv'
<1> USE DEF IdleInv, PersistedConfigIdle, InK, Answering
<1>1. CASE DropStaged \/ RecordFailure \/ ReadFails \/ AttachResult \/ AttachFails
           \/ TakeStaged \/ FileEvents \/ StoreWasm \/ CloseLedger
  BY <1>1 DEF DropStaged, RecordFailure, ReadFails, AttachResult, AttachFails, TakeStaged,
     FileEvents, AfterEvents, StoreWasm, CloseLedger, Reply, storeVars
<1>2. CASE TruncateState
  BY <1>2 DEF TruncateState, NodeInv, TypeOK, StoreTypeOK, StateKore
<1>3. CASE PersistState
  BY <1>3 DEF PersistState, PrintedState, AfterPersist, Reply
<1> QED
  BY <1>1, <1>2, <1>3 DEF PostProcess

-----------------------------------------------------------------------------
(* The ledger records.                                                      *)

LEMMA HashBeforeRun ==
  ASSUME NodeInv, HashInv, Boot \/ Stop \/ Clients \/ Launch
  PROVE  HashInv'
<1> USE DEF HashInv, HashChain
<1>1. CASE SeedState \/ SeedWritten \/ ResumeState
  BY <1>1 DEF SeedState, SeedWritten, ResumeState, storeVars, chainFiles, NodeInv,
     TypeOK, StoreTypeOK, StateKore
<1>2. CASE SeedMetadata
  <2>1. DOMAIN ledgers # {} => latest' = latest
    BY <1>2 DEF SeedMetadata, NodeInv, TypeOK, StoreTypeOK, NoMetadata
  <2> QED
    BY <1>2, <2>1 DEF SeedMetadata, chainFiles
<1>3. CASE Stop \/ Clients \/ Launch
  BY <1>3 DEF Stop, Clients, SubmitTx, SubmitRead, Simulate, Launch, storeVars, chainFiles
<1> QED
  BY <1>1, <1>2, <1>3 DEF Boot

LEMMA HashDuringRun ==
  ASSUME NodeInv, HashInv, Semantics
  PROVE  HashInv'
<1> USE DEF HashInv, HashChain
<1>1. CASE WriteMetadata
  <2>1. latest \in Nat
    BY <1>1 DEF WriteMetadata, NodeInv, RequestInv, Booting
  <2>2. DOMAIN ledgers \subseteq Nat
    BY DEF NodeInv, TypeOK, StoreTypeOK
  <2>3. \A n \in DOMAIN ledgers : n <= latest + 1
    BY <2>1, <2>2
  <2> QED
    BY <1>1, <2>3 DEF WriteMetadata, chainFiles
<1>2. CASE Semantics /\ ~WriteMetadata
  BY <1>2 DEF Semantics, ProgramRuns, ProgramStuck, ReadStuck, Stuck, DispatchDuplicate,
     DispatchRead, OpenTrace, StepsRun, StepsStuck, WriteReceipt, RespondPending,
     storeVars, chainFiles
<1> QED
  BY <1>1, <1>2

LEMMA HashAfterRun ==
  ASSUME NodeInv, HashInv, PostProcess
  PROVE  HashInv'
<1> USE DEF HashInv, HashChain
<1>1. CASE CloseLedger
  <2>1. latest \in Nat
    BY <1>1 DEF CloseLedger, NodeInv, RequestInv, Booting
  <2>2. DOMAIN ledgers \subseteq Nat
    BY DEF NodeInv, TypeOK, StoreTypeOK
  <2>3. /\ DOMAIN ledgers' = DOMAIN ledgers \cup {latest}
        /\ \A n \in DOMAIN ledgers \ {latest} : ledgers'[n] = ledgers[n]
        /\ ledgers'[latest].previous = PreviousHash(latest)
    BY <1>1 DEF CloseLedger, WriteFile, LedgerRecord
  <2>4. HashChain'
    <3> SUFFICES ASSUME NEW n \in DOMAIN ledgers', n - 1 \in DOMAIN ledgers'
                 PROVE  ledgers'[n].previous = ledgers'[n - 1].hash
      OBVIOUS
    <3>1. n \in Nat /\ n <= latest
      BY <2>1, <2>2, <2>3
    <3>2. n - 1 # latest /\ n - 1 \in DOMAIN ledgers \ {latest}
      BY <2>1, <2>3, <3>1
    <3>3. CASE n = latest
      BY <2>3, <3>2, <3>3 DEF PreviousHash
    <3>4. CASE n # latest
      BY <2>3, <3>2, <3>4
    <3> QED
      BY <3>3, <3>4
  <2> QED
    BY <1>1, <2>1, <2>3, <2>4 DEF CloseLedger, Reply
<1>2. CASE PostProcess /\ ~CloseLedger
  BY <1>2 DEF PostProcess, DropStaged, RecordFailure, ReadFails, TruncateState,
     PersistState, PrintedState, AfterPersist, AttachResult, AttachFails, TakeStaged,
     FileEvents, AfterEvents, StoreWasm, Reply, storeVars, chainFiles, NodeInv, TypeOK, StoreTypeOK, StateKore
<1> QED
  BY <1>1, <1>2

-----------------------------------------------------------------------------
(* The traces.                                                              *)

\* The baselines of a world stay right when a transaction is added to it that
\* has the right one.
LEMMA BaselineOfAppended ==
  ASSUME NEW w \in Seq(Tx), NEW t \in Tx, NEW i \in 1 .. Len(w) + 1
  PROVE  SubSeq(Append(w, t), 1, i - 1) = IF i <= Len(w) THEN SubSeq(w, 1, i - 1) ELSE w
<1>1. \A j \in 0 .. Len(w) : SubSeq(Append(w, t), 1, j) = SubSeq(w, 1, j)
  OBVIOUS
<1>2. SubSeq(w, 1, Len(w)) = w
  OBVIOUS
<1> QED
  BY <1>1, <1>2

\* An upload acts on no account.
LEMMA UploadMakesNoAccount ==
  ASSUME NEW w \in Seq(Tx), NEW t \in Uploads
  PROVE  AccountsOf(Append(w, t)) = AccountsOf(w)
<1>1. t \in Tx
  BY ChainStoreAssumption
<1>2. ASSUME NEW x PROVE x \in AccountsOf(Append(w, t)) <=> x \in AccountsOf(w)
  BY <1>1, AppendedWorld DEF AccountsOf
<1> QED
  BY <1>2

LEMMA BaselineUntouched ==
  ASSUME NodeInv, BaselineInv, UNCHANGED <<stateKore.config, traces>>,
         Committing' => Committing /\ cur' = cur
  PROVE  BaselineInv'
BY DEF BaselineInv, BaselineIsPriorState, World

LEMMA BaselineBeforeRun ==
  ASSUME NodeInv, BaselineInv, Boot \/ Stop \/ Clients \/ Launch
  PROVE  BaselineInv'
<1> USE DEF Committing, Answering, Sending
<1>1. CASE SeedWritten
  <2>1. World' = << >>
    BY <1>1 DEF SeedWritten, World, EmptyConfig
  <2> QED
    BY <1>1, <2>1 DEF SeedWritten, BaselineInv, BaselineIsPriorState
<1>2. CASE SeedState \/ ResumeState \/ SeedMetadata
  BY <1>2, BaselineUntouched DEF SeedState, ResumeState, SeedMetadata, storeVars,
     chainFiles, NodeInv, TypeOK, StoreTypeOK, StateKore
<1>3. CASE Stop \/ Clients \/ Launch
  BY <1>3, BaselineUntouched DEF Stop, Clients, SubmitTx, SubmitRead, Simulate, Launch,
     storeVars, chainFiles
<1> QED
  BY <1>1, <1>2, <1>3 DEF Boot

LEMMA BaselineDuringRun ==
  ASSUME NodeInv, BaselineInv, Semantics
  PROVE  BaselineInv'
<1> USE DEF Committing, Answering, Sending
<1>1. CASE OpenTrace
  <2>1. /\ ~HasReceipt(cur.tx)
        /\ config.txs = IF cur.tx \in Uploads THEN Append(World, cur.tx) ELSE World
    BY <1>1 DEF OpenTrace, IsFresh, NodeInv, ConfigInv, FreshnessInv, InjectsProgram
  <2>6. AccountsOf(config.txs) = AccountsOf(World)
    BY <2>1, UploadMakesNoAccount DEF NodeInv, TypeOK, StoreTypeOK, StateKore, Config, World
  <2>2. \A i \in 1 .. Len(World) : World[i] # cur.tx
    BY <2>1 DEF NodeInv, WorldFollowsLedgers, Succeeded
  <2>3. /\ DOMAIN traces' = DOMAIN traces \cup {cur.tx}
        /\ \A t \in DOMAIN traces \ {cur.tx} : traces'[t] = traces[t]
        /\ traces'[cur.tx] = Baseline
    BY <1>1 DEF OpenTrace, WriteFile
  <2>4. BaselineIsPriorState'
    BY <1>1, <2>2, <2>3 DEF BaselineInv, BaselineIsPriorState, World, OpenTrace
  <2>5. traces'[cur.tx].accounts = AccountsOf(World) /\ UNCHANGED <<stateKore, cur>>
    BY <1>1, <2>3, <2>6 DEF OpenTrace, Baseline
  <2>7. AccountsOf(World)' = AccountsOf(World)
    BY <2>5 DEF AccountsOf, World
  <2> QED
    BY <2>1, <2>3, <2>4, <2>5, <2>7 DEF BaselineInv
<1>2. CASE ProgramRuns \/ ProgramStuck \/ ReadStuck \/ DispatchDuplicate \/ DispatchRead
  BY <1>2, BaselineUntouched DEF ProgramRuns, ProgramStuck, ReadStuck, Stuck,
     DispatchDuplicate, DispatchRead, IsFresh, storeVars, chainFiles, NodeInv,
     ResponseInv, FreshnessInv
<1>3. CASE StepsRun \/ WriteMetadata \/ WriteReceipt \/ RespondPending
  BY <1>3, BaselineUntouched DEF StepsRun, WriteMetadata, WriteReceipt, RespondPending,
     chainFiles
<1>4. CASE StepsStuck
  BY <1>4, BaselineUntouched DEF StepsStuck, Stuck, chainFiles, NodeInv, ResponseInv
<1> QED
  BY <1>1, <1>2, <1>3, <1>4 DEF Semantics

LEMMA BaselineAfterRun ==
  ASSUME NodeInv, BaselineInv, PostProcess
  PROVE  BaselineInv'
<1> USE DEF Committing, Answering, Sending
<1>1. CASE PersistState
  <2>1. /\ UNCHANGED traces
        /\ ~Committing'
        /\ World' = IF Sending /\ ~cur.dup THEN Append(World, cur.tx) ELSE World
    BY <1>1 DEF PersistState, PrintedState, AfterPersist, Reply, chainFiles, World,
       NodeInv, ConfigInv
  <2>2. CASE World' = World
    BY <2>1, <2>2 DEF BaselineInv, BaselineIsPriorState
  <2>3. CASE Sending /\ ~cur.dup
    <3>1. World \in Seq(Tx) /\ cur.tx \in Tx
      BY <2>3 DEF NodeInv, TypeOK, StoreTypeOK, StateKore, Config, World, RequestInv
    <3>2. World' = Append(World, cur.tx)
      BY <2>1, <2>3
    <3>3. /\ cur.tx \in DOMAIN traces
          /\ traces[cur.tx].accounts = AccountsOf(World)
      BY <1>1, <2>3 DEF BaselineInv, PersistState
    <3>4. BaselineIsPriorState'
      <4> SUFFICES ASSUME NEW i \in 1 .. Len(World) + 1
                   PROVE  /\ World'[i] \in DOMAIN traces
                          /\ traces[World'[i]].accounts =
                               AccountsOf(SubSeq(World', 1, i - 1))
        BY <2>1, <3>1, <3>2, AppendedWorld DEF BaselineIsPriorState, AccountsOf
      <4>1. CASE i = Len(World) + 1
        <5>1. World'[i] = cur.tx
          BY <3>1, <3>2, <4>1, AppendedWorld
        <5>2. SubSeq(World', 1, i - 1) = World
          BY <3>1, <3>2, <4>1, BaselineOfAppended
        <5> QED
          BY <3>3, <5>1, <5>2
      <4>2. CASE i \in 1 .. Len(World)
        <5>1. World'[i] = World[i]
          BY <3>1, <3>2, <4>2, AppendedWorld
        <5>2. /\ World[i] \in DOMAIN traces
              /\ traces[World[i]].accounts = AccountsOf(SubSeq(World, 1, i - 1))
          BY <4>2 DEF BaselineInv, BaselineIsPriorState
        <5>3. SubSeq(World', 1, i - 1) = SubSeq(World, 1, i - 1)
          BY <3>1, <3>2, <4>2, BaselineOfAppended
        <5> QED
          BY <5>1, <5>2, <5>3
      <4> QED
        BY <3>1, <4>1, <4>2
    <3> QED
      BY <2>1, <3>4 DEF BaselineInv
  <2> QED
    BY <2>1, <2>2, <2>3
<1>2. CASE TruncateState
  BY <1>2, BaselineUntouched DEF TruncateState, chainFiles, NodeInv, TypeOK, StoreTypeOK,
     StateKore
<1>3. CASE DropStaged \/ RecordFailure \/ ReadFails \/ AttachResult \/ AttachFails
           \/ TakeStaged \/ FileEvents \/ StoreWasm \/ CloseLedger
  BY <1>3, BaselineUntouched DEF DropStaged, RecordFailure, ReadFails, AttachResult,
     AttachFails, TakeStaged, FileEvents, AfterEvents, StoreWasm, CloseLedger, Reply,
     storeVars, chainFiles
<1> QED
  BY <1>1, <1>2, <1>3 DEF PostProcess

-----------------------------------------------------------------------------
(* The events.                                                              *)

\* Receipts that succeeded keep their ledger, whatever is written to one.
LEMMA ReceiptsKept ==
  ASSUME NodeInv, [Next]_vars
  PROVE  \A t \in DOMAIN receipts :
           /\ t \in DOMAIN receipts'
           /\ receipts'[t].status = receipts[t].status
           /\ receipts'[t].ledger = receipts[t].ledger
<1>1. CASE WriteReceipt \/ RecordFailure
  <2>1. ~HasReceipt(cur.tx)
    BY <1>1 DEF WriteReceipt, RecordFailure, NodeInv, FreshnessInv
  <2> QED
    BY <1>1, <2>1 DEF WriteReceipt, RecordFailure, WriteFile, HasReceipt
<1>2. CASE AttachResult \/ AttachFails
  <2>1. \A t \in DOMAIN receipts : receipts[t] \in Receipt
    BY DEF NodeInv, TypeOK, StoreTypeOK
  <2>2. PICK v : receipts' = [receipts EXCEPT ![cur.tx].result = v]
    BY <1>2 DEF AttachResult, AttachFails
  <2> QED
    BY <2>1, <2>2 DEF Receipt
<1>3. CASE UNCHANGED receipts
  BY <1>3
<1>4. \/ UNCHANGED receipts
      \/ WriteReceipt \/ RecordFailure \/ AttachResult \/ AttachFails
  BY DEF Next, Boot, SeedState, SeedWritten, ResumeState, SeedMetadata, Stop,
     Clients, SubmitTx, SubmitRead, Simulate, Serving, Launch, Semantics,
     ProgramRuns, ProgramStuck, ReadStuck, DispatchDuplicate, DispatchRead,
     OpenTrace, StepsRun, StepsStuck, WriteMetadata, RespondPending, PostProcess,
     DropStaged, ReadFails, TruncateState, PersistState, TakeStaged, FileEvents,
     StoreWasm, CloseLedger, vars, storeVars, chainFiles
<1> QED
  BY <1>1, <1>2, <1>3, <1>4

\* Filed events stay sound when nothing is filed.
LEMMA SoundUntouched ==
  ASSUME NodeInv, EventsInv, [Next]_vars, UNCHANGED events
  PROVE  EventsSound'
<1>1. \A n \in DOMAIN events : \A e \in events[n] :
        /\ e.origin = e.txHash
        /\ e.txHash \in DOMAIN receipts
        /\ receipts[e.txHash].status = "SUCCESS"
        /\ receipts[e.txHash].ledger = n
  BY DEF EventsInv, EventsSound, Succeeded, HasReceipt
<1> QED
  BY <1>1, ReceiptsKept DEF EventsSound, Succeeded, HasReceipt

\* The events a transaction stages are its own.
LEMMA StagedIsOwn ==
  ASSUME NEW t \in Tx, NEW k \in 0 .. Len(Emits[t]), staged \in Seq(StagedEvent),
         \A i \in 1 .. Len(staged) : staged[i].tx = t
  PROVE  LET s == staged \o StagedBy(t, k) IN \A i \in 1 .. Len(s) : s[i].tx = t
<1>1. Emits[t] \in Seq({"plain", "opaque"}) /\ k \in Nat
  BY ChainStoreAssumption
<1>2. \A i \in 1 .. k : Emits[t][i] \in {"plain", "opaque"}
  BY <1>1
<1>3. StagedBy(t, k) \in [1 .. k -> StagedEvent]
  BY <1>2 DEF StagedBy, StagedEvent
<1>4. /\ StagedBy(t, k) \in Seq(StagedEvent)
      /\ Len(StagedBy(t, k)) = k
  BY <1>1, <1>3
<1>5. \A i \in 1 .. k : StagedBy(t, k)[i].tx = t
  BY DEF StagedBy
<1> QED
  BY <1>1, <1>4, <1>5

LEMMA EventsBeforeRun ==
  ASSUME NodeInv, EventsInv, Boot \/ Stop \/ Clients \/ Launch
  PROVE  EventsInv'
<1>1. EventsSound'
  <2>1. [Next]_vars
    BY DEF Next, Serving
  <2>2. UNCHANGED events
    BY DEF Boot, SeedState, SeedWritten, ResumeState, SeedMetadata, Stop, Clients,
       SubmitTx, SubmitRead, Simulate, Launch, storeVars, chainFiles
  <2> QED
    BY <2>1, <2>2, SoundUntouched
<1> USE DEF EventsInv, Sending
<1>2. CASE Boot \/ Stop
  BY <1>1, <1>2 DEF Boot, SeedState, SeedWritten, ResumeState, SeedMetadata, Stop,
     storeVars, NodeInv, RequestInv, Booting, NoRequest
<1>3. CASE Clients
  BY <1>1, <1>3 DEF Clients, SubmitTx, SubmitRead, Simulate, ClearStaged, NoRequest,
     NodeInv, RequestInv
<1>4. CASE Launch
  BY <1>1, <1>4 DEF Launch
<1> QED
  BY <1>2, <1>3, <1>4

LEMMA EventsDuringRun ==
  ASSUME NodeInv, EventsInv, Semantics
  PROVE  EventsInv'
<1>1. EventsSound'
  <2>1. [Next]_vars
    BY DEF Next, Serving
  <2>2. UNCHANGED events
    BY DEF Semantics, ProgramRuns, ProgramStuck, ReadStuck, DispatchDuplicate,
       DispatchRead, OpenTrace, StepsRun, StepsStuck, WriteMetadata, WriteReceipt,
       RespondPending, storeVars, chainFiles
  <2> QED
    BY <2>1, <2>2, SoundUntouched
<1> USE DEF EventsInv, Sending
<1>2. CASE StepsRun \/ StepsStuck
  <2>1. /\ cur.tx \in Tx /\ ~cur.dup /\ cur' = cur
        /\ \A i \in 1 .. Len(staged) : staged[i].tx = cur.tx
    BY <1>2 DEF StepsRun, StepsStuck, NodeInv, RequestInv, SendOnly, FreshnessInv
  <2>2. \A i \in 1 .. Len(staged') : staged'[i].tx = cur.tx
    <3>1. PICK k \in 0 .. Len(Emits[cur.tx]) : staged' = staged \o StagedBy(cur.tx, k)
      BY <1>2 DEF StepsRun, StepsStuck
    <3> QED
      BY <2>1, <3>1, StagedIsOwn DEF NodeInv, TypeOK, StoreTypeOK
  <2> QED
    BY <1>1, <1>2, <2>1, <2>2 DEF StepsRun, StepsStuck, Stuck
<1>3. CASE Semantics /\ ~StepsRun /\ ~StepsStuck
  BY <1>1, <1>3 DEF Semantics, ProgramRuns, ProgramStuck, ReadStuck, Stuck,
     DispatchDuplicate, DispatchRead, OpenTrace, WriteMetadata, WriteReceipt,
     RespondPending, storeVars
<1> QED
  BY <1>2, <1>3

LEMMA EventsAfterRun ==
  ASSUME NodeInv, EventsInv, PostProcess
  PROVE  EventsInv'
<1> USE DEF EventsInv, Sending
<1>1. CASE FileEvents
  <2>1. EventsSound'
    <3>1. \A e \in FinishedEvents :
            /\ e.txHash = cur.tx /\ e.origin = cur.tx
            /\ ~cur.dup
      BY <1>1 DEF FileEvents, FinishedEvents
    <3>2. ~cur.dup => Succeeded(cur.tx) /\ receipts[cur.tx].ledger = latest
      BY <1>1 DEF FileEvents, NodeInv, CommitInv
    <3>3. \A n \in DOMAIN events' :
            \/ n = latest /\ events'[n] = FinishedEvents
            \/ n \in DOMAIN events /\ events'[n] = events[n]
      <4>1. CASE FinishedEvents = {}
        BY <1>1, <4>1 DEF FileEvents
      <4>2. CASE events' = WriteFile(events, latest, FinishedEvents)
        <5>1. DOMAIN events' = DOMAIN events \cup {latest}
          BY <4>2 DEF WriteFile
        <5>2. events'[latest] = FinishedEvents
          BY <4>2 DEF WriteFile
        <5>3. \A n \in DOMAIN events \ {latest} : events'[n] = events[n]
          BY <4>2 DEF WriteFile
        <5> QED
          BY <5>1, <5>2, <5>3
      <4> QED
        BY <1>1, <4>1, <4>2 DEF FileEvents
    <3>4. UNCHANGED receipts
      BY <1>1 DEF FileEvents
    <3> QED
      BY <3>1, <3>2, <3>3, <3>4 DEF EventsSound, Succeeded, HasReceipt
  <2> QED
    BY <1>1, <2>1 DEF FileEvents, AfterEvents
<1>2. CASE PostProcess /\ ~FileEvents
  <2>1. EventsSound'
    <3>1. [Next]_vars
      BY <1>2 DEF Next, Serving
    <3>2. UNCHANGED events
      BY <1>2 DEF PostProcess, DropStaged, RecordFailure, ReadFails,
         TruncateState, PersistState, AttachResult, AttachFails, TakeStaged, StoreWasm, CloseLedger, storeVars, chainFiles
    <3> QED
      BY <3>1, <3>2, SoundUntouched
  <2>2. CASE RecordFailure \/ ReadFails \/ AttachFails \/ StoreWasm \/ CloseLedger
    BY <2>1, <2>2 DEF RecordFailure, ReadFails, AttachFails, StoreWasm, CloseLedger, Reply,
       NoRequest
  <2>3. CASE TruncateState \/ DropStaged
    BY <2>1, <2>3 DEF TruncateState, DropStaged, ClearStaged
  <2>4. CASE PersistState
    BY <2>1, <2>4 DEF PersistState, AfterPersist, Reply, NoRequest, chainFiles, NodeInv,
       CommitInv, Answering
  <2>5. CASE AttachResult
    BY <2>1, <2>5 DEF AttachResult, NodeInv, TypeOK, StoreTypeOK, Receipt, CommitInv,
       Succeeded, HasReceipt
  <2>6. CASE TakeStaged
    <3>1. Sending /\ UNCHANGED <<receipts, latest>>
      BY <2>6 DEF TakeStaged, NodeInv, RequestInv, SendOnly, chainFiles
    <3> QED
      BY <2>1, <2>6, <3>1, LinesHeld DEF TakeStaged, ClearStaged
  <2> QED
    BY <1>2, <2>2, <2>3, <2>4, <2>5, <2>6 DEF PostProcess
<1> QED
  BY <1>1, <1>2

-----------------------------------------------------------------------------
(* The invariant.                                                           *)

LEMMA InitEstablishesStoreInv == Init => StoreInv
<1> SUFFICES ASSUME Init PROVE StoreInv
  OBVIOUS
<1> USE DEF Init, StoreInit
<1>1. IdleInv
  BY DEF IdleInv, PersistedConfigIdle, Answering, InK
<1>2. BaselineInv
  BY DEF BaselineInv, BaselineIsPriorState, World, EmptyConfig, Committing, Answering
<1>3. EventsInv
  BY DEF EventsInv, EventsSound, NoFiles, Sending, NoRequest
<1>4. HashInv
  BY DEF HashInv, HashChain, NoFiles
<1> QED
  BY <1>1, <1>2, <1>3, <1>4, InitEstablishesInv DEF StoreInv

LEMMA NextPreservesStoreInv == StoreInv /\ [Next]_vars => StoreInv'
<1> SUFFICES ASSUME StoreInv, [Next]_vars PROVE StoreInv'
  OBVIOUS
<1> USE DEF StoreInv
<1>1. NodeInv'
  BY NextPreservesInv
<1>2. CASE Boot \/ Stop \/ Clients \/ Launch
  BY <1>1, <1>2, IdleBeforeRun, BaselineBeforeRun, EventsBeforeRun, HashBeforeRun
<1>3. CASE Semantics
  BY <1>1, <1>3, IdleDuringRun, BaselineDuringRun, EventsDuringRun, HashDuringRun
<1>4. CASE PostProcess
  BY <1>1, <1>4, IdleAfterRun, BaselineAfterRun, EventsAfterRun, HashAfterRun
<1>5. CASE UNCHANGED vars
  <2> USE <1>5 DEF vars, storeVars, nodeVars, chainFiles, Answering, Sending
  <2>1. IdleInv'
    BY DEF IdleInv, PersistedConfigIdle
  <2>2. BaselineInv'
    BY DEF BaselineInv, BaselineIsPriorState, World, Committing
  <2>3. EventsInv'
    BY DEF EventsInv, EventsSound, Succeeded, HasReceipt
  <2>4. HashInv'
    BY DEF HashInv, HashChain
  <2> QED
    BY <1>1, <2>1, <2>2, <2>3, <2>4
<1> QED
  BY <1>2, <1>3, <1>4, <1>5 DEF Next, Serving

\* A death leaves the io-dir as it is, and nothing in flight.
LEMMA FaultPreservesStoreInv ==
  ASSUME StoreInv, LaunchFails \/ SimulationFails \/ Crash \/ InterpreterDies
  PROVE  StoreInv'
<1>1. /\ UNCHANGED <<stateKore, latest, chainFiles, staged>>
      /\ pc' = "down" \/ (pc' = "idle" /\ pc # "down")
      /\ cur'.method = "none"
  BY DEF LaunchFails, SimulationFails, Crash, InterpreterDies, Reply, InK, storeVars,
     chainFiles, NoRequest, StoreInv, NodeInv, RequestInv
<1> USE <1>1 DEF StoreInv, chainFiles, Answering, Sending
<1>2. IdleInv'
  BY DEF IdleInv, PersistedConfigIdle, InK
<1>3. BaselineInv'
  BY DEF BaselineInv, BaselineIsPriorState, World, Committing
<1>4. EventsInv'
  BY DEF EventsInv, EventsSound, Succeeded, HasReceipt
<1>5. HashInv'
  BY DEF HashInv, HashChain
<1> QED
  BY <1>2, <1>3, <1>4, <1>5, FaultPreservesInv

THEOREM StoreInvariance == Spec => []StoreInv
BY InitEstablishesStoreInv, NextPreservesStoreInv, PTL DEF Spec

THEOREM FaultyStoreInvariance == FaultySpec => []StoreInv
<1>1. FaultyInit => StoreInv
  BY InitEstablishesStoreInv DEF FaultyInit
<1>2. StoreInv /\ [FaultyNext]_faultyVars => StoreInv'
  BY NextPreservesStoreInv, FaultPreservesStoreInv DEF FaultyNext, faultyVars
<1> QED
  BY <1>1, <1>2, PTL DEF FaultySpec

-----------------------------------------------------------------------------
(* What follows from it.                                                    *)

\* A configuration that got stuck is never what the next request starts from,
\* wherever the processes die.
THEOREM SavedConfigIsIdle == FaultySpec => []PersistedConfigIdle
<1>1. StoreInv => PersistedConfigIdle
  BY DEF StoreInv, IdleInv
<1> QED
  BY <1>1, FaultyStoreInvariance, PTL

\* The balances in the baseline of every applied transaction are those the
\* transactions before it left, although a run that was cut short may have opened
\* the same trace earlier.
THEOREM BaselinesArePrior == FaultySpec => []BaselineIsPriorState
<1>1. StoreInv => BaselineIsPriorState
  BY DEF StoreInv, BaselineInv
<1> QED
  BY <1>1, FaultyStoreInvariance, PTL

\* No event of a failed, killed or simulated run is ever served.
THEOREM EventsAreSound == FaultySpec => []EventsSound
<1>1. StoreInv => EventsSound
  BY DEF StoreInv, EventsInv
<1> QED
  BY <1>1, FaultyStoreInvariance, PTL

\* The ledger records form a hash chain, whatever ledgers a death left without
\* a record and whatever duplicates rewrite the last one.
THEOREM RecordsAreChained == (Spec => []HashChain) /\ (FaultySpec => []HashChain)
<1>1. StoreInv => HashChain
  BY DEF StoreInv, HashInv
<1> QED
  BY <1>1, StoreInvariance, FaultyStoreInvariance, PTL

\* A trace is frozen once its transaction has a receipt.
THEOREM TracesAreFrozen == FaultySpec => TraceFrozen
<1> DEFINE Kept == \A t \in DOMAIN receipts \cap DOMAIN traces :
                     t \in DOMAIN traces' /\ traces'[t] = traces[t]
<1>1. ASSUME OpenTrace PROVE Kept
  <2>1. cur.tx \notin DOMAIN receipts
    BY <1>1 DEF OpenTrace, IsFresh, HasReceipt
  <2>2. \A t \in DOMAIN traces \ {cur.tx} : t \in DOMAIN traces' /\ traces'[t] = traces[t]
    BY <1>1 DEF OpenTrace, WriteFile
  <2> QED
    BY <2>1, <2>2
<1>2. ASSUME FaultyNext PROVE OpenTrace \/ UNCHANGED traces
  BY <1>2 DEF FaultyNext, LaunchFails, SimulationFails, Crash, InterpreterDies,
     Next, Boot, SeedState, SeedWritten, ResumeState, SeedMetadata, Stop,
     Clients, SubmitTx, SubmitRead, Simulate, Serving, Launch, Semantics,
     ProgramRuns, ProgramStuck, ReadStuck, DispatchDuplicate, DispatchRead,
     StepsRun, StepsStuck, WriteMetadata, WriteReceipt, RespondPending, PostProcess,
     DropStaged, RecordFailure, ReadFails, TruncateState, PersistState, AttachResult,
     AttachFails, TakeStaged, FileEvents, StoreWasm, CloseLedger, storeVars, chainFiles
<1>3. [FaultyNext]_faultyVars => [Kept]_vars
  BY <1>1, <1>2 DEF faultyVars
<1> QED
  BY <1>3, PTL DEF FaultySpec, TraceFrozen

-----------------------------------------------------------------------------
(***************************************************************************)
(* What a node promises whose processes do not die: between two requests    *)
(* the files agree on what happened.  A death between two writes of one     *)
(* commit breaks each of these, so they are theorems of Spec alone.         *)
(***************************************************************************)

\* The counter has been moved up for the transaction in flight.
Counted ==
  \/ pc \in {"receipt", "respond"}
  \/ Answering /\ Sending /\ ~cur.dup

\* The n-th transaction of the world closed ledger n; the counter is one ahead
\* while the next one is being recorded, as is at most its receipt.
AgreementInv ==
  /\ \A i \in 1 .. Len(World) : receipts[World[i]].ledger = i
  /\ latest = NoMetadata => World = << >>
  /\ latest # NoMetadata => latest = Len(World) + IF Counted THEN 1 ELSE 0
  /\ \A t \in Tx : Succeeded(t) =>
       t \in Applied \/ (cur.tx = t /\ Counted /\ pc # "receipt")

\* The K-internal field is in the receipt in flight until its result is attached.
ReturnValueInv ==
  \A t \in DOMAIN receipts :
    receipts[t].result = "returnValue" =>
      /\ cur.tx = t /\ Sending /\ ~cur.dup
      /\ pc \in {"respond", "attach"} \/ Answering

\* A receipt with its result attached: the record and the bytes are there, or
\* are still to be written by the request in flight.
ArtifactsInv ==
  \A t \in Tx :
    Succeeded(t) /\ receipts[t].result = "resultXdr" =>
      /\ \/ receipts[t].ledger \in DOMAIN ledgers
         \/ /\ cur.tx = t /\ pc \in {"events", "file", "wasm", "close"}
            /\ receipts[t].ledger = latest
      /\ \/ t \notin Uploads
         \/ t \in wasms
         \/ cur.tx = t /\ pc \in {"events", "file", "wasm"}

ChainInv == StoreInv /\ AgreementInv /\ ReturnValueInv /\ ArtifactsInv

-----------------------------------------------------------------------------
(* The steps that leave a part of it alone.                                 *)

LEMMA AgreementUntouched ==
  ASSUME AgreementInv, UNCHANGED <<stateKore.config, latest, receipts, cur>>,
         Counted' = Counted, pc' = "receipt" <=> pc = "receipt"
  PROVE  AgreementInv'
BY DEF AgreementInv, World, Applied, Succeeded, HasReceipt

\* When nothing is being recorded, the request in flight does not matter.
LEMMA AgreementAtRest ==
  ASSUME AgreementInv, UNCHANGED <<stateKore.config, latest, receipts>>,
         ~Counted, ~Counted'
  PROVE  AgreementInv'
BY DEF AgreementInv, World, Applied, Succeeded, HasReceipt

LEMMA AgreementBeforeRun ==
  ASSUME NodeInv, AgreementInv, Boot \/ Stop \/ Clients \/ Launch
  PROVE  AgreementInv'
<1> USE DEF Counted, Answering, Sending
<1>1. CASE SeedState \/ ResumeState
  BY <1>1, AgreementAtRest DEF SeedState, ResumeState, storeVars, chainFiles, NodeInv,
     TypeOK, StoreTypeOK, StateKore
<1>2. CASE SeedWritten
  <2>1. World = << >> /\ World' = << >>
    BY <1>2 DEF SeedWritten, NodeInv, BootInv, World, EmptyConfig
  <2>2. Applied = {} /\ Applied' = {}
    BY <2>1 DEF Applied, World
  <2> QED
    BY <1>2, <2>1, <2>2 DEF SeedWritten, AgreementInv, Succeeded, HasReceipt, chainFiles
<1>3. CASE SeedMetadata
  <2>1. World = << >> \/ latest' = latest
    BY <1>3 DEF SeedMetadata, NodeInv, BootInv, AgreementInv
  <2>2. UNCHANGED <<stateKore, receipts, cur>> /\ latest' # NoMetadata /\ ~Counted /\ ~Counted'
    BY <1>3 DEF SeedMetadata, chainFiles, NoMetadata
  <2>3. World = << >> => latest' = 0
    BY <1>3, <2>2 DEF SeedMetadata, AgreementInv
  <2> QED
    BY <2>1, <2>2, <2>3 DEF AgreementInv, World, Applied, Succeeded, HasReceipt
<1>4. CASE Stop \/ Clients \/ Launch
  BY <1>4, AgreementAtRest DEF Stop, Clients, SubmitTx, SubmitRead, Simulate, Launch,
     storeVars, chainFiles
<1> QED
  BY <1>1, <1>2, <1>3, <1>4 DEF Boot

LEMMA AgreementDuringRun ==
  ASSUME NodeInv, AgreementInv, Semantics
  PROVE  AgreementInv'
<1> USE DEF Counted, Answering, Sending
<1>1. CASE WriteMetadata
  <2>1. /\ latest \in Nat /\ ~Counted /\ Counted' /\ pc' = "receipt"
        /\ UNCHANGED <<stateKore, receipts, cur>> /\ latest' = latest + 1
    BY <1>1 DEF WriteMetadata, NodeInv, RequestInv, Booting, chainFiles
  <2> QED
    BY <2>1 DEF AgreementInv, World, Applied, Succeeded, HasReceipt, NoMetadata
<1>2. CASE WriteReceipt
  <2>1. /\ ~HasReceipt(cur.tx) /\ Counted /\ Counted' /\ pc' # "receipt"
        /\ UNCHANGED <<stateKore, latest, cur>>
    BY <1>2 DEF WriteReceipt, NodeInv, FreshnessInv
  <2>2. /\ DOMAIN receipts' = DOMAIN receipts \cup {cur.tx}
        /\ \A t \in DOMAIN receipts : receipts'[t] = receipts[t]
    BY <1>2, <2>1 DEF WriteReceipt, WriteFile, HasReceipt
  <2>3. \A i \in 1 .. Len(World) : World[i] \in DOMAIN receipts
    BY DEF NodeInv, WorldFollowsLedgers, Succeeded, HasReceipt
  <2>4. pc = "receipt"
    BY <1>2 DEF WriteReceipt
  <2> QED
    BY <2>1, <2>2, <2>3, <2>4 DEF AgreementInv, World, Applied, Succeeded, HasReceipt
<1>3. CASE RespondPending
  BY <1>3, AgreementUntouched DEF RespondPending, chainFiles, NodeInv, RequestInv, SendOnly,
     ResponseInv
<1>4. CASE DispatchDuplicate \/ DispatchRead
  BY <1>4, AgreementAtRest DEF DispatchDuplicate, DispatchRead, IsFresh, chainFiles, NodeInv,
     FreshnessInv
<1>5. CASE ProgramRuns \/ ProgramStuck \/ ReadStuck \/ OpenTrace \/ StepsRun \/ StepsStuck
  BY <1>5, AgreementAtRest DEF ProgramRuns, ProgramStuck, ReadStuck, Stuck, OpenTrace,
     StepsRun, StepsStuck, storeVars, chainFiles, NodeInv, ResponseInv
<1> QED
  BY <1>1, <1>2, <1>3, <1>4, <1>5 DEF Semantics

LEMMA AgreementAfterRun ==
  ASSUME NodeInv, AgreementInv, PostProcess
  PROVE  AgreementInv'
<1> USE DEF Counted, Answering, Sending
<1>1. CASE RecordFailure
  <2>1. /\ ~HasReceipt(cur.tx) /\ ~Counted /\ ~Counted'
        /\ UNCHANGED <<stateKore, latest>>
    BY <1>1 DEF RecordFailure, Reply, NodeInv, FreshnessInv
  <2>2. /\ DOMAIN receipts' = DOMAIN receipts \cup {cur.tx}
        /\ \A t \in DOMAIN receipts : receipts'[t] = receipts[t]
        /\ receipts'[cur.tx].status = "FAILED"
    BY <1>1, <2>1 DEF RecordFailure, WriteFile, HasReceipt, FailedReceipt
  <2>3. \A i \in 1 .. Len(World) : World[i] \in DOMAIN receipts
    BY DEF NodeInv, WorldFollowsLedgers, Succeeded, HasReceipt
  <2> QED
    BY <2>1, <2>2, <2>3 DEF AgreementInv, World, Applied, Succeeded, HasReceipt
<1>2. CASE TruncateState
  BY <1>2, AgreementUntouched DEF TruncateState, chainFiles, NodeInv, TypeOK, StoreTypeOK,
     StateKore
<1>3. CASE PersistState
  <2>1. /\ UNCHANGED <<latest, receipts>> /\ ~Counted'
        /\ World' = IF Sending /\ ~cur.dup THEN Append(World, cur.tx) ELSE World
    BY <1>3 DEF PersistState, PrintedState, AfterPersist, Reply, chainFiles, World,
       NodeInv, ConfigInv
  <2>2. CASE ~(Sending /\ ~cur.dup)
    <3>1. ~Counted /\ World' = World
      BY <1>3, <2>1, <2>2 DEF PersistState
    <3> QED
      BY <2>1, <3>1 DEF AgreementInv, World, Applied, Succeeded, HasReceipt
  <2>3. CASE Sending /\ ~cur.dup
    <3>1. World \in Seq(Tx) /\ cur.tx \in Tx /\ World' = Append(World, cur.tx)
      BY <2>1, <2>3 DEF NodeInv, TypeOK, StoreTypeOK, StateKore, Config, World, RequestInv
    <3>2. latest \in Nat /\ latest # NoMetadata /\ latest = Len(World) + 1
      BY <1>3, <2>3 DEF PersistState, NodeInv, RequestInv, Booting, NoMetadata, AgreementInv
    <3>3. receipts[cur.tx].ledger = Len(World) + 1
      BY <1>3, <2>3, <3>2 DEF PersistState, NodeInv, CommitInv
    <3>4. \A i \in 1 .. Len(World') : receipts[World'[i]].ledger = i
      BY <3>1, <3>3, AppendedWorld DEF AgreementInv
    <3>5. Applied \subseteq Applied' /\ cur.tx \in Applied'
      BY <3>1, AppendedWorld DEF Applied, World
    <3>6. Len(World') = latest
      BY <3>1, <3>2
    <3> QED
      BY <2>1, <3>2, <3>4, <3>5, <3>6 DEF AgreementInv, Succeeded, HasReceipt
  <2> QED
    BY <2>2, <2>3
<1>4. CASE AttachResult \/ AttachFails
  <2>1. /\ UNCHANGED <<stateKore, latest>> /\ ~Counted /\ ~Counted'
        /\ DOMAIN receipts' = DOMAIN receipts
    BY <1>4 DEF AttachResult, AttachFails, Reply
  <2>2. \A t \in DOMAIN receipts : /\ receipts'[t].status = receipts[t].status
                                   /\ receipts'[t].ledger = receipts[t].ledger
    BY <1>4, ReceiptsKept DEF Next, Serving, PostProcess
  <2>3. \A i \in 1 .. Len(World) : World[i] \in DOMAIN receipts
    BY DEF NodeInv, WorldFollowsLedgers, Succeeded, HasReceipt
  <2> QED
    BY <2>1, <2>2, <2>3 DEF AgreementInv, World, Applied, Succeeded, HasReceipt
<1>5. CASE DropStaged \/ ReadFails \/ TakeStaged \/ FileEvents \/ StoreWasm \/ CloseLedger
  BY <1>5, AgreementAtRest DEF DropStaged, ReadFails, TakeStaged, FileEvents, AfterEvents,
     StoreWasm, CloseLedger, Reply, storeVars, chainFiles
<1> QED
  BY <1>1, <1>2, <1>3, <1>4, <1>5 DEF PostProcess

-----------------------------------------------------------------------------
(* The result of a receipt, and the files written after it.                 *)

LEMMA ReturnValueStep ==
  ASSUME NodeInv, ReturnValueInv, Next
  PROVE  ReturnValueInv'
<1> USE DEF ReturnValueInv, Answering, Sending
<1>1. CASE Boot \/ Stop \/ Clients \/ Launch
  <2>1. UNCHANGED receipts
    BY <1>1 DEF Boot, SeedState, SeedWritten, ResumeState, SeedMetadata, Stop, Clients,
       SubmitTx, SubmitRead, Simulate, Launch, storeVars, chainFiles
  <2>2. pc \notin {"respond", "attach"} /\ ~Answering
    BY <1>1 DEF Boot, SeedState, SeedWritten, ResumeState, SeedMetadata, Stop, Clients,
       SubmitTx, SubmitRead, Simulate, Launch
  <2> QED
    BY <2>1, <2>2
<1>2. CASE Semantics /\ UNCHANGED receipts
  BY <1>2 DEF Semantics, ProgramRuns, ProgramStuck, ReadStuck, DispatchDuplicate,
     DispatchRead, OpenTrace, StepsRun, StepsStuck, WriteMetadata, RespondPending,
     WriteReceipt
<1>3. CASE WriteReceipt
  <2>1. /\ ~HasReceipt(cur.tx) /\ ~cur.dup /\ Sending
        /\ pc = "receipt" /\ pc' = "respond" /\ UNCHANGED cur
    BY <1>3 DEF WriteReceipt, NodeInv, FreshnessInv, RequestInv, SendOnly
  <2>2. /\ DOMAIN receipts' = DOMAIN receipts \cup {cur.tx}
        /\ \A t \in DOMAIN receipts : receipts'[t] = receipts[t]
    BY <1>3, <2>1 DEF WriteReceipt, WriteFile, HasReceipt
  <2> QED
    BY <2>1, <2>2
<1>4. CASE RecordFailure
  <2>1. ~HasReceipt(cur.tx) /\ ~Answering /\ pc = "fail"
    BY <1>4 DEF RecordFailure, NodeInv, FreshnessInv
  <2>2. /\ DOMAIN receipts' = DOMAIN receipts \cup {cur.tx}
        /\ \A t \in DOMAIN receipts : receipts'[t] = receipts[t]
        /\ receipts'[cur.tx].result = "resultXdr"
    BY <1>4, <2>1 DEF RecordFailure, WriteFile, HasReceipt, FailedReceipt
  <2> QED
    BY <2>1, <2>2
<1>5. CASE AttachResult \/ AttachFails
  <2>1. /\ DOMAIN receipts' = DOMAIN receipts
        /\ \A t \in DOMAIN receipts \ {cur.tx} : receipts'[t] = receipts[t]
        /\ cur.tx \in DOMAIN receipts => receipts'[cur.tx].result # "returnValue"
    BY <1>5 DEF AttachResult, AttachFails, AttachedTo, NodeInv, TypeOK, StoreTypeOK, Receipt
  <2> QED
    BY <1>5, <2>1 DEF AttachResult, AttachFails
<1>6. CASE PostProcess /\ ~RecordFailure /\ ~AttachResult /\ ~AttachFails
  BY <1>6, LinesHeld DEF PostProcess, DropStaged, ReadFails, TruncateState, PersistState,
     AfterPersist, TakeStaged, FileEvents, StoreWasm, CloseLedger, Reply, storeVars,
     chainFiles
<1>7. Semantics => WriteReceipt \/ UNCHANGED receipts
  BY DEF Semantics, ProgramRuns, ProgramStuck, ReadStuck, DispatchDuplicate,
     DispatchRead, OpenTrace, StepsRun, StepsStuck, WriteMetadata, RespondPending,
     storeVars, chainFiles
<1> QED
  BY <1>1, <1>2, <1>3, <1>4, <1>5, <1>6, <1>7 DEF Next, Serving

LEMMA ArtifactsStep ==
  ASSUME NodeInv, EventsInv, ArtifactsInv, Next
  PROVE  ArtifactsInv'
<1> USE DEF ArtifactsInv, Succeeded, HasReceipt
<1> DEFINE Finishing == pc \in {"events", "file", "wasm", "close"}
<1>1. CASE Boot \/ Stop \/ Clients \/ Launch
  <2>1. UNCHANGED <<receipts, wasms, ledgers>> /\ ~Finishing
    BY <1>1 DEF Boot, SeedState, SeedWritten, ResumeState, SeedMetadata, Stop, Clients,
       SubmitTx, SubmitRead, Simulate, Launch, storeVars, chainFiles
  <2> QED
    BY <2>1
<1>2. CASE Semantics
  <2>1. UNCHANGED <<wasms, ledgers>> /\ ~Finishing
    BY <1>2 DEF Semantics, ProgramRuns, ProgramStuck, ReadStuck, DispatchDuplicate,
       DispatchRead, OpenTrace, StepsRun, StepsStuck, WriteMetadata, WriteReceipt,
       RespondPending, storeVars, chainFiles
  <2>2. CASE WriteReceipt
    <3>1. ~HasReceipt(cur.tx)
      BY <2>2 DEF WriteReceipt, NodeInv, FreshnessInv
    <3>2. /\ DOMAIN receipts' = DOMAIN receipts \cup {cur.tx}
          /\ \A t \in DOMAIN receipts : receipts'[t] = receipts[t]
          /\ receipts'[cur.tx].result = "returnValue"
      BY <2>2, <3>1 DEF WriteReceipt, WriteFile, TxReceipt
    <3> QED
      BY <2>1, <3>1, <3>2
  <2>3. CASE UNCHANGED receipts
    BY <2>1, <2>3
  <2>4. WriteReceipt \/ UNCHANGED receipts
    BY <1>2 DEF Semantics, ProgramRuns, ProgramStuck, ReadStuck, DispatchDuplicate,
       DispatchRead, OpenTrace, StepsRun, StepsStuck, WriteMetadata, RespondPending,
       storeVars, chainFiles
  <2> QED
    BY <2>2, <2>3, <2>4
<1>3. CASE RecordFailure
  <2>1. ~HasReceipt(cur.tx) /\ ~Finishing /\ UNCHANGED <<wasms, ledgers>>
    BY <1>3 DEF RecordFailure, NodeInv, FreshnessInv
  <2>2. /\ DOMAIN receipts' = DOMAIN receipts \cup {cur.tx}
        /\ \A t \in DOMAIN receipts : receipts'[t] = receipts[t]
        /\ receipts'[cur.tx].status = "FAILED"
    BY <1>3, <2>1 DEF RecordFailure, WriteFile, FailedReceipt
  <2> QED
    BY <2>1, <2>2
<1>4. CASE DropStaged \/ ReadFails \/ TruncateState \/ PersistState
  <2>1. UNCHANGED <<receipts, wasms, ledgers>> /\ ~Finishing
    BY <1>4 DEF DropStaged, ReadFails, TruncateState, PersistState, storeVars, chainFiles
  <2> QED
    BY <2>1
<1>5. CASE AttachResult
  <2>1. /\ pc' = "events" /\ ~Finishing /\ UNCHANGED <<cur, latest, wasms, ledgers>>
        /\ cur.tx \in DOMAIN receipts /\ receipts[cur.tx].ledger = latest
    BY <1>5 DEF AttachResult, EventsInv, NodeInv, ResponseInv, CommitInv
  <2>2. /\ DOMAIN receipts' = DOMAIN receipts
        /\ \A t \in DOMAIN receipts \ {cur.tx} : receipts'[t] = receipts[t]
        /\ receipts'[cur.tx].ledger = receipts[cur.tx].ledger
    BY <1>5, <2>1 DEF AttachResult, NodeInv, TypeOK, StoreTypeOK, Receipt
  <2> QED
    BY <2>1, <2>2
<1>6. CASE AttachFails
  <2>1. ~Finishing /\ UNCHANGED <<wasms, ledgers>>
    BY <1>6 DEF AttachFails
  <2>2. /\ DOMAIN receipts' = DOMAIN receipts
        /\ \A t \in DOMAIN receipts \ {cur.tx} : receipts'[t] = receipts[t]
        /\ cur.tx \in DOMAIN receipts => receipts'[cur.tx].result = "omitted"
    BY <1>6 DEF AttachFails, NodeInv, TypeOK, StoreTypeOK, Receipt
  <2> QED
    BY <2>1, <2>2
<1>7. CASE TakeStaged \/ FileEvents
  BY <1>7, LinesHeld DEF TakeStaged, FileEvents, AfterEvents, chainFiles
<1>8. CASE StoreWasm
  BY <1>8 DEF StoreWasm
<1>9. CASE CloseLedger
  BY <1>9 DEF CloseLedger, WriteFile, Reply
<1> QED
  BY <1>1, <1>2, <1>3, <1>4, <1>5, <1>6, <1>7, <1>8, <1>9 DEF Next, Serving, PostProcess

-----------------------------------------------------------------------------
(* The invariant, and what follows from it.                                 *)

LEMMA InitEstablishesChainInv == Init => ChainInv
<1> SUFFICES ASSUME Init PROVE ChainInv
  OBVIOUS
<1>1. AgreementInv
  BY DEF Init, StoreInit, AgreementInv, World, EmptyConfig, Succeeded, HasReceipt, NoFiles
<1>2. ReturnValueInv /\ ArtifactsInv
  BY DEF Init, StoreInit, ReturnValueInv, ArtifactsInv, Succeeded, HasReceipt, NoFiles
<1> QED
  BY <1>1, <1>2, InitEstablishesStoreInv DEF ChainInv

LEMMA NextPreservesChainInv == ChainInv /\ [Next]_vars => ChainInv'
<1> SUFFICES ASSUME ChainInv, [Next]_vars PROVE ChainInv'
  OBVIOUS
<1> USE DEF ChainInv, StoreInv
<1>1. StoreInv'
  BY NextPreservesStoreInv
<1>2. CASE Next
  <2>1. AgreementInv'
    BY <1>2, AgreementBeforeRun, AgreementDuringRun, AgreementAfterRun DEF Next, Serving
  <2> QED
    BY <1>1, <1>2, <2>1, ReturnValueStep, ArtifactsStep
<1>3. CASE UNCHANGED vars
  <2> USE <1>3 DEF vars, storeVars, nodeVars, chainFiles, Answering, Sending
  <2>1. AgreementInv'
    BY DEF AgreementInv, Counted, World, Applied, Succeeded, HasReceipt
  <2>2. ReturnValueInv' /\ ArtifactsInv'
    BY DEF ReturnValueInv, ArtifactsInv, Succeeded, HasReceipt
  <2> QED
    BY <1>1, <2>1, <2>2
<1> QED
  BY <1>2, <1>3

THEOREM ChainInvariance == Spec => []ChainInv
BY InitEstablishesChainInv, NextPreservesChainInv, PTL DEF Spec

\* Between requests counter, receipts and world state tell the same story.
THEOREM ChainAgrees == Spec => []ChainAgreement
<1>1. ASSUME ChainInv PROVE ChainAgreement
  <2> SUFFICES ASSUME pc = "idle"
               PROVE  /\ latest = Len(World)
                      /\ \A i \in 1 .. Len(World) : receipts[World[i]].ledger = i
                      /\ \A t \in Tx : Succeeded(t) => t \in Applied
    BY DEF ChainAgreement
  <2>1. ~Counted
    BY DEF Counted, Answering
  <2>2. latest # NoMetadata /\ latest \in Nat
    BY <1>1 DEF ChainInv, StoreInv, NodeInv, RequestInv, Booting, NoMetadata
  <2>3. World \in Seq(Tx)
    BY <1>1 DEF ChainInv, StoreInv, NodeInv, TypeOK, StoreTypeOK, StateKore, Config, World
  <2> QED
    BY <1>1, <2>1, <2>2, <2>3 DEF ChainInv, AgreementInv
<1> QED
  BY <1>1, ChainInvariance, PTL

\* No client is served the K-internal field.
THEOREM ReturnValuesAreReplaced == Spec => []NoReturnValueLeft
<1>1. ChainInv => NoReturnValueLeft
  BY DEF ChainInv, ReturnValueInv, NoReturnValueLeft, Answering
<1> QED
  BY <1>1, ChainInvariance, PTL

\* A transaction whose result was attached left nothing half-done.
THEOREM ArtifactsAreComplete == Spec => []ArtifactsComplete
<1>1. ChainInv => ArtifactsComplete
  BY DEF ChainInv, ArtifactsInv, ArtifactsComplete
<1> QED
  BY <1>1, ChainInvariance, PTL

\* The types, without the fault counter.
THEOREM NodeTypes == Spec => []TypeOK
<1>1. NodeInv => TypeOK
  BY DEF NodeInv
<1> QED
  BY <1>1, NodeInvariance, PTL
=============================================================================
