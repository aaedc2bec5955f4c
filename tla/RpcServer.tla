------------------------------ MODULE RpcServer ------------------------------
(***************************************************************************)
(* The JSON-RPC front of the node (StellarRpcServer._handle and what it      *)
(* calls): a client posts a body with one call or a batch of calls, and the *)
(* server serves them one after the other on the node of module FaultyNode, *)
(* each to its end before the next.                                         *)
(*                                                                         *)
(* An element of a body is well formed to some degree (`frame`), has an id  *)
(* unless it is a notification, and calls a method.  What the client is     *)
(* answered is a tuple that begins with the kind of the answer.             *)
(***************************************************************************)
EXTENDS FaultyNode, LedgerEntries

CONSTANTS
  Ops,         \* Ops[t]: the operations of the transaction t
  Bodies,      \* the bodies clients post
  NoId,        \* the id of a notification, and JSON's null
  MaxBodies    \* bound: how many bodies are posted

\* Uploads is the path the encoder takes; an envelope that decodes is that of a
\* transaction.  No call stages an event here (module KometNode is about those).
ASSUME RpcServerAssumption ==
  /\ Uploads = {t \in Tx : BuildTxRequest(Ops[t]).path = "upload"}
  /\ Emits = [t \in Tx |-> << >>]
  /\ MaxBodies \in Nat
  /\ \A b \in Bodies :
       /\ Len(b.elements) \in Nat /\ DOMAIN b.elements = 1 .. Len(b.elements)
       /\ b.elements # << >> => b.parses
  /\ \A b \in Bodies : \A i \in DOMAIN b.elements :
       LET call == b.elements[i].call
       IN  /\ b.elements[i].frame \in {"ok", "notObject", "badFrame", "badParams"}
           /\ call.method \in {"sendTransaction", "simulateTransaction"} => call.tx \in Tx
           /\ call.keys \in Seq(Range(call.keys))

\* The contracts that are called store their second argument under their first,
\* and a contract's address is one.  Contract data is persistent or temporary.
ASSUME OperationsAssumption ==
  /\ \A t \in Tx :
       /\ Ops[t] \in Seq(Range(Ops[t]))
       /\ \A op \in Range(Ops[t]) :
            /\ op.type = "invokeContract" => op.args \in ScVals \X ScVals
            /\ op.type = "createContract" => op.address # NoContract
  /\ \A b \in Bodies : \A i \in DOMAIN b.elements :
       \A k \in Range(b.elements[i].call.keys) :
         k.type = "CONTRACT_DATA" =>
           /\ k.key \in ScVals \cup {InstanceKey}
           /\ k.durability \in {"persistent", "temporary"}

VARIABLES
  body,          \* the body being served, or NoBody
  position,      \* the index of its element that is served next or now
  answers,       \* the answers to the elements before
  found,         \* what K wrote to response.json for the read in flight
  archive,       \* requests/request_<n>.json
  requestCount,  \* the number of the next request, in memory
  reply,         \* what was last sent back, until the next body comes in
  posted         \* counts the bodies, for the bound

frontVars == <<body, answers, position, found, archive, requestCount, reply, posted>>
rpcVars   == <<faultyVars, frontVars>>

NoBody  == [parses |-> TRUE, batch |-> FALSE, elements |-> << >>]
NoReply == [form |-> "none", answers |-> << >>, to |-> NoBody]

Element == body.elements[position]
Call    == Element.call

InvalidRequest == <<"error", "InvalidRequest">>
InvalidParams  == <<"error", "InvalidParams">>
MethodNotFound == <<"error", "MethodNotFound">>
InternalError  == <<"error", "InternalError">>
ParseError     == <<"error", "ParseError">>
NotYet         == <<"notYet">>

Answer(id, result) == [id |-> id, of |-> position, result |-> result]

-----------------------------------------------------------------------------
(* Framing.                                                                 *)

\* A body comes in; the server is single-threaded.
Post(b) ==
  /\ pc = "idle" /\ body = NoBody
  /\ posted < MaxBodies
  /\ posted' = posted + 1
  /\ body' = b /\ position' = 1 /\ answers' = << >>
  /\ reply' = NoReply
  /\ UNCHANGED <<faultyVars, found, archive, requestCount>>

AtElement == pc = "idle" /\ position \in DOMAIN body.elements

\* A mutant: only a request that was served to its end is kept from a notifier.
SilencedIfOk(result) == Element.id = NoId /\ result[1] # "error"

\* A notification is answered by nothing, not even an error ...
Silenced(result) == Element.id = NoId

Serve(result) ==
  /\ answers' = IF Silenced(result) THEN answers
                ELSE Append(answers, Answer(Element.id, result))
  /\ position' = position + 1
  /\ UNCHANGED <<body, reply, posted>>

\* ... but only a valid frame can be one.
RejectFrame ==
  /\ AtElement
  /\ Element.frame \in {"notObject", "badFrame"}
  /\ answers' = Append(answers,
       Answer(IF Element.frame = "notObject" THEN NoId ELSE Element.id, InvalidRequest))
  /\ position' = position + 1
  /\ UNCHANGED <<faultyVars, body, found, archive, requestCount, reply, posted>>

\* A mutant: the refused element is not passed over.
RejectParamsInPlace ==
  /\ AtElement
  /\ Element.frame = "badParams"
  /\ UNCHANGED rpcVars

RejectParams ==
  /\ AtElement
  /\ Element.frame = "badParams"
  /\ Serve(InvalidParams)
  /\ UNCHANGED <<faultyVars, found, archive, requestCount>>

\* What the body as a whole is answered.
HttpBody ==
  LET Refusal(error) == [form |-> "object", answers |-> <<Answer(NoId, error)>>]
  IN  IF ~body.parses THEN Refusal(ParseError)
      ELSE IF body.batch /\ body.elements = << >> THEN Refusal(InvalidRequest)
      ELSE IF answers = << >> THEN [form |-> "none", answers |-> << >>]
      ELSE [form |-> IF body.batch THEN "array" ELSE "object", answers |-> answers]

SendReply ==
  /\ pc = "idle" /\ body # NoBody
  /\ position \notin DOMAIN body.elements
  /\ reply' = [form |-> HttpBody.form, answers |-> HttpBody.answers, to |-> body]
  /\ body' = NoBody /\ position' = 0 /\ answers' = << >>
  /\ UNCHANGED <<faultyVars, found, archive, requestCount, posted>>

-----------------------------------------------------------------------------
(* Dispatch of a call that is well formed.                                  *)

AtCall == AtElement /\ Element.frame = "ok"

\* archive_request, before anything else is done with the call.
ArchiveRequest ==
  /\ archive' = WriteFile(archive, requestCount, Element)
  /\ requestCount' = requestCount + 1

TraceOf(t) == IF t \in DOMAIN traces THEN <<"trace", traces[t]>> ELSE <<"trace">>

\* The answer to a call that never reaches the interpreter, or NotYet.  `valid`
\* says that its parameters are: the xdrFormat, the XDR or the hash.
AnswerAtOnce ==
  IF Call.method = "unknown" THEN MethodNotFound
  ELSE IF ~Call.valid THEN InvalidParams
  ELSE
    CASE Call.method = "sendTransaction" ->
           IF Admitted(Ops[Call.tx]) THEN NotYet ELSE <<"status", "ERROR">>
      [] Call.method = "simulateTransaction" ->
           CASE BuildSimulateRequest(Ops[Call.tx]) = "rejected" -> <<"simulationError">>
             [] BuildSimulateRequest(Ops[Call.tx]) = "raises" -> InvalidParams
             [] OTHER -> NotYet
      [] Call.method = "getLedgerEntries" ->
           CASE KeysOutcome(Call.keys) = "invalidParams" -> InvalidParams
             [] KeysOutcome(Call.keys) = "internal" -> InternalError
             [] OTHER -> NotYet
      [] Call.method = "traceTransaction" -> TraceOf(Call.tx)
      [] OTHER -> NotYet

ServeAtOnce ==
  /\ AtCall
  /\ AnswerAtOnce # NotYet
  /\ ArchiveRequest
  /\ Serve(AnswerAtOnce)
  /\ UNCHANGED <<faultyVars, found>>

\* The node takes the call up; it stays the element being served.
Start ==
  /\ AtCall
  /\ AnswerAtOnce = NotYet
  /\ \/ Call.method = "sendTransaction" /\ \E now \in Times : SubmitTx(Call.tx, now)
     \/ Call.method \notin {"sendTransaction", "simulateTransaction"} /\ SubmitRead
  /\ ArchiveRequest
  /\ UNCHANGED <<faults, body, position, answers, found, reply, posted>>

\* The world state of a configuration.
StepsOf == [t \in Tx |-> BuildTxRequest(Ops[t]).steps]
StepsOfAll(txs) == FlattenSeq([i \in DOMAIN txs |-> StepsOf[txs[i]]])
WorldOf(txs) == RunSteps(StepsOfAll(txs))
PlacesOf(txs) == UNION {Places(StepsOf[txs[i]]) : i \in DOMAIN txs}

\* A run that got stuck, for one on a value that has no JSON form, and a call
\* that trapped are both answered with a result-level error.
SimulateAnswers(written) ==
  {<<"simulationError">>} \cup
  IF written = "result" /\ Call.tx \notin Opaque THEN {<<"simulated">>} ELSE {}

SimulateCall ==
  /\ AtCall
  /\ AnswerAtOnce = NotYet
  /\ Call.method = "simulateTransaction"
  /\ ArchiveRequest
  /\ \/ /\ Simulate(Call.tx) /\ UNCHANGED faults
        /\ response' = "result" => AllCanRun(PlacesOf(World), StepsOf[Call.tx])
        /\ \E a \in SimulateAnswers(response') : Serve(a)
     \/ SimulationFails /\ Serve(InternalError)
  /\ UNCHANGED found

-----------------------------------------------------------------------------
(* The call in flight.                                                      *)

\* Only steps that can run do; any may get stuck.
Runnable == cur.tx \in Uploads \/ AllCanRun(PlacesOf(config.txs), StepsOf[cur.tx])

WasmsOf(t) == {StepsOf[t][i].hash : i \in DOMAIN StepsOf[t]}
WasmFiles  == UNION {WasmsOf(t) : t \in wasms}

StatusOf(t) == IF HasReceipt(t) THEN receipts[t].status ELSE "NOT_FOUND"

\* The interpreter answers a read from its configuration and the io-dir.
ReadResult ==
  CASE Call.method = "getTransaction" -> <<"receipt", StatusOf(Call.tx)>>
    [] Call.method = "getLedgerEntries" ->
         <<"entries", Lookup(WorldOf(config.txs), Call.keys), latest>>
    [] OTHER -> <<"result">>

\* getLedgerEntries is re-encoded on the way out, the others are passed on.
ReadAnswer ==
  IF found[1] = "entries"
  THEN <<"entries", FormatResponse(found[2], found[3], WasmFiles)>>
  ELSE found

\* All keys can be built, those that come to nothing included.
KeysBuild ==
  Call.method = "getLedgerEntries" =>
    \A i \in DOMAIN Call.keys : Buildable(Descriptor(Call.keys[i]))

AnswerRead ==
  /\ DispatchRead
  /\ KeysBuild
  /\ found' = ReadResult
  /\ UNCHANGED <<faults, body, position, answers, archive, requestCount, reply, posted>>

\* Steps of the node that do not end the call.  The only read to get stuck is
\* one of a key that cannot be built.
Work ==
  /\ \/ Launch
     \/ ProgramRuns
     \/ ProgramStuck
     \/ DispatchDuplicate
     \/ ReadStuck /\ ~KeysBuild
     \/ OpenTrace
     \/ StepsStuck
     \/ StepsRun /\ Runnable
     \/ WriteMetadata \/ WriteReceipt \/ RespondPending
     \/ TruncateState
     \/ PersistState /\ cur.method = "sendTransaction"
     \/ DropStaged \/ AttachResult \/ TakeStaged \/ FileEvents \/ StoreWasm
  /\ UNCHANGED <<faults, frontVars>>

\* Steps that end it, with what the client is answered.
Finish ==
  /\ \/ RecordFailure /\ Serve(<<"status", "PENDING">>) /\ UNCHANGED faults
     \/ CloseLedger /\ Serve(<<"status", response>>) /\ UNCHANGED faults
     \/ PersistState /\ cur.method = "read" /\ Serve(ReadAnswer) /\ UNCHANGED faults
     \/ AttachFails /\ Serve(InternalError) /\ UNCHANGED faults
     \/ ReadFails /\ Serve(InternalError) /\ UNCHANGED faults
     \/ LaunchFails /\ Serve(InternalError)
  /\ found' = NotYet
  /\ UNCHANGED <<archive, requestCount>>

-----------------------------------------------------------------------------
(* Start-up and deaths.                                                     *)

\* A mutant: as many as there are, less one.
LastRequestIndex == Max({0} \cup DOMAIN archive)

\* _next_request_index: one past the highest there is.
NextRequestIndex == IF DOMAIN archive = {} THEN 0 ELSE Max(DOMAIN archive) + 1

\* A new ChainStore looks at the archive before the io-dir is seeded.
StartUp ==
  /\ \/ (SeedState \/ ResumeState) /\ requestCount' = NextRequestIndex
     \/ (SeedWritten \/ SeedMetadata) /\ UNCHANGED requestCount
  /\ UNCHANGED <<faults, body, position, answers, found, archive, reply, posted>>

Shutdown ==
  /\ body = NoBody
  /\ Stop
  /\ UNCHANGED <<faults, frontVars>>

\* The client is left without an answer, whatever was done for it.
ServerDies ==
  /\ Crash
  /\ body' = NoBody /\ position' = 0 /\ answers' = << >>
  /\ found' = NotYet /\ reply' = NoReply
  /\ UNCHANGED <<archive, requestCount, posted>>

\* The batch goes on after the element whose interpreter was killed.
CallDies ==
  /\ InterpreterDies
  /\ Serve(InternalError)
  /\ found' = NotYet
  /\ UNCHANGED <<archive, requestCount>>

RpcInit ==
  /\ FaultyInit
  /\ body = NoBody /\ position = 0 /\ answers = << >>
  /\ found = NotYet /\ reply = NoReply /\ posted = 0
  /\ archive = NoFiles /\ requestCount = 0

ServerStep ==
  \/ StartUp
  \/ RejectFrame \/ RejectParams \/ ServeAtOnce \/ SimulateCall
  \/ Start \/ Work \/ AnswerRead \/ Finish
  \/ SendReply

RpcNext ==
  \/ ServerStep
  \/ \E b \in Bodies : Post(b)
  \/ Shutdown \/ ServerDies \/ CallDies

RpcSpec     == RpcInit /\ [][RpcNext]_rpcVars

\* The server runs to the end what it began; nobody has to post anything.
FairRpcSpec == RpcSpec /\ WF_rpcVars(ServerStep)

-----------------------------------------------------------------------------
(* Properties.                                                              *)

AnswerType(as) ==
  \A i \in DOMAIN as : DOMAIN as[i] = {"id", "of", "result"} /\ as[i].of \in Nat

RpcTypeOK ==
  /\ FaultyTypeOK
  /\ body \in Bodies \cup {NoBody}
  /\ position \in Nat
  /\ AnswerType(answers) /\ AnswerType(reply.answers)
  /\ reply.form \in {"none", "object", "array"}
  /\ DOMAIN archive \subseteq Nat /\ requestCount \in Nat
  /\ posted \in 0 .. MaxBodies

\* Answers to the first n elements of b: one to each that has to be answered,
\* in order, under its id.
AnswersFor(as, b, n) ==
  LET e == b.elements
      Due(i) == e[i].frame \in {"notObject", "badFrame"} \/ e[i].id # NoId
  IN  /\ {as[i].of : i \in DOMAIN as} = {i \in 1 .. n : Due(i)}
      /\ \A i, j \in DOMAIN as : i < j => as[i].of < as[j].of
      /\ \A i \in DOMAIN as :
           as[i].id = IF e[as[i].of].frame = "notObject" THEN NoId ELSE e[as[i].of].id

\* Every element of a batch that must be answered is answered once, in order
\* and under its id, whichever of them fail and whatever is killed under them;
\* a notification never is.  The batch is sent back as an array, or nothing.
BatchAnswersMatch ==
  /\ body # NoBody => AnswersFor(answers, body, position - 1)
  /\ reply.to.elements # << >> =>
       /\ AnswersFor(reply.answers, reply.to, Len(reply.to.elements))
       /\ reply.form = IF reply.answers = << >> THEN "none"
                       ELSE IF reply.to.batch THEN "array" ELSE "object"

CallOf(a) == body.elements[a.of].call
Decided   == {<<"status", "PENDING">>, <<"status", "DUPLICATE">>}

\* What the client is told in a batch is so, and stays so until the batch is
\* over: PENDING and DUPLICATE of a decided transaction, PENDING once for each;
\* ERROR of one that never will have a receipt; the status of a transaction as
\* the elements before left it, and the trace of one they decided.
AnswersAreTrue ==
  \A i \in DOMAIN answers :
    LET a == answers[i]
        t == CallOf(a).tx
        TwinBefore(j) == j < i /\ answers[j].result \in Decided /\ CallOf(answers[j]).tx = t
    IN  CASE a.result = <<"status", "PENDING">> ->
               /\ Failed(t) \/ (Succeeded(t) /\ t \in Applied)
               /\ \A j \in DOMAIN answers : ~TwinBefore(j)
          [] a.result = <<"status", "DUPLICATE">> -> HasReceipt(t)
          [] a.result = <<"status", "ERROR">> -> ~HasReceipt(t) /\ t \notin Applied
          [] a.result[1] = "receipt" ->
               IF \E j \in DOMAIN answers : TwinBefore(j)
               THEN a.result[2] = StatusOf(t)
               ELSE a.result[2] \in {"NOT_FOUND", StatusOf(t)}
          [] a.result[1] = "trace" ->
               (\E j \in DOMAIN answers : TwinBefore(j)) => a.result = TraceOf(t)
          [] OTHER -> TRUE

-----------------------------------------------------------------------------
(* What the entries of an answer ought to be, said of the operations as the *)
(* clients sent them and of the ledgers the receipts give.                  *)

\* The operations applied up to a ledger.
CommittedOps(ledger) ==
  LET In(n) == {t \in Applied : receipts[t].ledger = n}
  IN  FlattenSeq([n \in 1 .. ledger |->
        IF In(n) = {} THEN << >> ELSE Ops[CHOOSE t \in In(n) : TRUE]])

LastOf(S) == Max(S)

\* The entry of an account is what the last operation to create it gave it ...
AccountEntry(ops, k) ==
  LET w == {i \in DOMAIN ops : ops[i].type = "createAccount" /\ ops[i].account = k.account}
  IN  IF w = {} THEN Dropped
      ELSE <<"balance", ops[LastOf(w)].balance \div TenthsPerStroop>>

\* ... that of a code its bytes, once the upload got to keep them ...
CodeEntry(ops, k) ==
  IF /\ \E i \in DOMAIN ops : ops[i].type = "upload" /\ ops[i].hash = k.hash
     /\ k.hash \in WasmFiles
  THEN <<"code", k.hash>> ELSE Dropped

Calls(ops, con, func) ==
  {i \in DOMAIN ops :
     ops[i].type = "invokeContract" /\ ops[i].to = con /\ ops[i].func = func}

\* ... that of a contract the last deployment and what it stored since then ...
InstanceEntry(ops, k) ==
  LET d == {i \in DOMAIN ops : ops[i].type = "createContract" /\ ops[i].address = k.contract}
      stores == {i \in Calls(ops, k.contract, "instance") : i > LastOf(d)}
      last   == {i \in stores : \A j \in stores : ops[j].args[1] = ops[i].args[1] => j <= i}
  IN  IF \/ d = {} \/ k.durability # "persistent"
         \/ \E i \in stores : i \in last /\ (NoForm[ops[i].args[1]] \/ NoForm[ops[i].args[2]])
      THEN Dropped
      ELSE <<"instance", ops[LastOf(d)].wasmHash, {ops[i].args : i \in last}>>

\* ... that of a storage key the last value stored under it.
ValueEntry(ops, k) ==
  LET w == {i \in Calls(ops, k.contract, k.durability) : ops[i].args[1] = k.key}
  IN  IF w = {} THEN Dropped
      ELSE IF NoForm[ops[LastOf(w)].args[2]] THEN Dropped
      ELSE <<"value", ops[LastOf(w)].args[2]>>

EntryDue(ops, k) ==
  CASE k.type = "ACCOUNT" -> AccountEntry(ops, k)
    [] k.type = "CONTRACT_CODE" -> CodeEntry(ops, k)
    [] k.type = "CONTRACT_DATA" /\ k.key = InstanceKey -> InstanceEntry(ops, k)
    [] k.type = "CONTRACT_DATA" /\ k.key # InstanceKey -> ValueEntry(ops, k)
    [] OTHER -> Dropped

Exact(a) ==
  a.result[1] = "entries" =>
    LET served == a.result[2]
        ops    == CommittedOps(served.latestLedger)
        keys   == CallOf(a).keys
    IN  served.entries = FlattenSeq([i \in DOMAIN keys |->
          Formatted(keys[i], EntryDue(ops, keys[i]), served.latestLedger)])

\* getLedgerEntries serves for every key, in the order of the request, exactly
\* what the transactions applied up to its latestLedger made of it, as the
\* client wrote it: none that failed or were simulated, none forgotten.  (When
\* it serves it: bytes of a code that are missing may be kept later.)
EntriesExact ==
  [][\A i \in DOMAIN answers' \ DOMAIN answers : Exact(answers'[i])]_rpcVars

\* What getLedgerEntries would answer for a code now.
Serves(hash) ==
  LET keys == <<[type |-> "CONTRACT_CODE", hash |-> hash]>>
  IN  FormatResponse(Lookup(WorldOf(World), keys), latest, WasmFiles).entries # << >>

\* A client told that its upload is PENDING, and did not fail, can have the bytes
\* back from every state.kore that can be loaded; so can one told DUPLICATE, if
\* the upload was applied when it was run.  (One whose run was killed between its
\* receipt and state.kore is a DUPLICATE too, and in no state.kore.)
AckedUploadIsServed ==
  stateKore.file = "whole" =>
    \A t \in Uploads :
      /\ Succeeded(t)
      /\ \/ t \in acked
         \/ /\ t \in Applied
            /\ \E i \in DOMAIN answers :
                 answers[i].result \in Decided /\ CallOf(answers[i]).tx = t
      => \A hash \in WasmsOf(t) : Serves(hash)

\* No request is archived over another, restarts or not.
ArchiveKept ==
  [][\A n \in DOMAIN archive : n \in DOMAIN archive' /\ archive'[n] = archive[n]]_rpcVars

\* The client of a body gets an answer, or its server dies.
BodyAnswered == body # NoBody ~> body = NoBody

OpLists    == UNION {[1 .. n -> UNION {Range(Ops[t]) : t \in Tx}] : n \in 0 .. 3}
Unfinished == {ops \in OpLists : Admitted(ops) /\ ~Finishes(ops)}

\* Whatever list of operations a server that takes requests admits, a result can
\* be encoded for once it ran; and no upload is hidden among other operations.
AdmittedCanBeFinished == pc = "idle" => Unfinished = {}
=============================================================================
