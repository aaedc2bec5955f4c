------------------------------ MODULE RpcProofs ------------------------------
(***************************************************************************)
(* The JSON-RPC front changes nothing of what the node promises: whatever   *)
(* is posted, in whatever batches, the node behind it behaves as a          *)
(* FaultyNode, so every theorem about that one is one about this.  On top   *)
(* of it: no archived request is overwritten, what a client is told in a    *)
(* batch is so, and the bytes of an upload it was told of are kept.         *)
(***************************************************************************)
EXTENDS RpcServer, NodeProofs

-----------------------------------------------------------------------------
(* The node behind the server.                                              *)

BodyInv == body \in Bodies \cup {NoBody}

LEMMA BodyStep ==
  ASSUME BodyInv, [RpcNext]_rpcVars
  PROVE  BodyInv'
BY DEF BodyInv, RpcNext, ServerStep, StartUp, RejectFrame, RejectParams, ServeAtOnce,
   SimulateCall, Start, Work, AnswerRead, Finish, SendReply, Post, Shutdown, ServerDies,
   CallDies, Serve, frontVars, rpcVars

\* A call that reaches the node names a transaction.
LEMMA CallNamesTx ==
  ASSUME BodyInv, AtCall,
         Call.method \in {"sendTransaction", "simulateTransaction"}
  PROVE  Call.tx \in Tx
<1>1. body \in Bodies /\ position \in DOMAIN body.elements
  BY DEF BodyInv, AtCall, AtElement, NoBody
<1> QED
  BY <1>1, RpcServerAssumption DEF Call, Element

LEMMA StepsOfTheNode ==
  ASSUME BodyInv, RpcNext
  PROVE  FaultyNext \/ UNCHANGED faultyVars
<1>1. CASE StartUp
  BY <1>1 DEF StartUp, FaultyNext, Next, Boot
<1>2. CASE RejectFrame \/ RejectParams \/ ServeAtOnce \/ SendReply
           \/ \E b \in Bodies : Post(b)
  BY <1>2 DEF RejectFrame, RejectParams, ServeAtOnce, SendReply, Post
<1>3. CASE SimulateCall
  <2>1. Call.tx \in Tx
    BY <1>3, CallNamesTx DEF SimulateCall
  <2> QED
    BY <1>3, <2>1 DEF SimulateCall, FaultyNext, Next, Clients
<1>4. CASE Start
  <2>1. CASE \E now \in Times : Call.method = "sendTransaction" /\ SubmitTx(Call.tx, now)
    <3>1. Call.tx \in Tx
      BY <1>4, <2>1, CallNamesTx DEF Start
    <3> QED
      BY <1>4, <2>1, <3>1 DEF Start, FaultyNext, Next, Clients
  <2>2. CASE SubmitRead
    BY <1>4, <2>2 DEF Start, FaultyNext, Next, Clients
  <2> QED
    BY <1>4, <2>1, <2>2 DEF Start
<1>5. CASE Work
  BY <1>5 DEF Work, FaultyNext, Next, Serving, Semantics, PostProcess
<1>6. CASE AnswerRead
  BY <1>6 DEF AnswerRead, FaultyNext, Next, Serving, Semantics
<1>7. CASE Finish
  BY <1>7 DEF Finish, FaultyNext, Next, Serving, PostProcess
<1>8. CASE Shutdown \/ ServerDies \/ CallDies
  BY <1>8 DEF Shutdown, ServerDies, CallDies, FaultyNext, Next
<1> QED
  BY <1>1, <1>2, <1>3, <1>4, <1>5, <1>6, <1>7, <1>8 DEF RpcNext, ServerStep

\* Serving batches is serving their elements one at a time.
THEOREM ServerIsFaultyNode == RpcSpec => FaultySpec
<1>1. RpcInit => FaultyInit /\ BodyInv
  BY DEF RpcInit, BodyInv
<1>2. BodyInv /\ [RpcNext]_rpcVars => BodyInv'
  BY BodyStep
<1>3. BodyInv /\ [RpcNext]_rpcVars => [FaultyNext]_faultyVars
  BY StepsOfTheNode DEF rpcVars
<1> QED
  BY <1>1, <1>2, <1>3, PTL DEF RpcSpec, FaultySpec

-----------------------------------------------------------------------------
(* The archive of the requests.                                             *)

\* The archive is numbered without gaps, and the next number is known unless
\* the server is down.
ArchiveInv ==
  \E k \in Nat : /\ DOMAIN archive = 0 .. k - 1
                 /\ pc # "down" => requestCount = k

\* The numbers of a restarted server go on where those before it ended.
LEMMA NumbersGoOn ==
  ASSUME NEW k \in Nat, DOMAIN archive = 0 .. k - 1
  PROVE  NextRequestIndex = k
<1>1. CASE k = 0
  BY <1>1 DEF NextRequestIndex
<1>2. CASE k # 0
  <2>1. /\ k - 1 \in DOMAIN archive
        /\ \A n \in DOMAIN archive : k - 1 >= n
    BY <1>2
  <2>2. /\ Max(DOMAIN archive) \in DOMAIN archive
        /\ \A n \in DOMAIN archive : Max(DOMAIN archive) >= n
    BY <2>1 DEF Max
  <2>3. Max(DOMAIN archive) = k - 1
    BY <2>1, <2>2
  <2> QED
    BY <2>1, <2>3 DEF NextRequestIndex
<1> QED
  BY <1>1, <1>2

LEMMA ArchiveStep ==
  ASSUME ArchiveInv, RpcNext
  PROVE  /\ ArchiveInv'
         /\ \A n \in DOMAIN archive : n \in DOMAIN archive' /\ archive'[n] = archive[n]
<1>1. CASE ServeAtOnce \/ SimulateCall \/ Start
  <2>1. ArchiveRequest /\ pc = "idle"
    BY <1>1 DEF ServeAtOnce, SimulateCall, Start, AtCall, AtElement
  <2>2. /\ DOMAIN archive' = DOMAIN archive \cup {requestCount}
        /\ \A n \in DOMAIN archive \ {requestCount} : archive'[n] = archive[n]
        /\ requestCount' = requestCount + 1
    BY <2>1 DEF ArchiveRequest, WriteFile
  <2>3. PICK k \in Nat : DOMAIN archive = 0 .. k - 1 /\ requestCount = k
    BY <2>1 DEF ArchiveInv
  <2>4. DOMAIN archive' = 0 .. (k + 1) - 1 /\ requestCount' = k + 1
    BY <2>2, <2>3
  <2> QED
    BY <2>2, <2>3, <2>4 DEF ArchiveInv
<1>2. CASE StartUp
  <2>1. UNCHANGED archive
    BY <1>2 DEF StartUp
  <2>2. CASE SeedState \/ ResumeState
    <3>1. PICK k \in Nat : DOMAIN archive = 0 .. k - 1
      BY DEF ArchiveInv
    <3>2. requestCount' = k
      BY <1>2, <2>2, <3>1, NumbersGoOn DEF StartUp, SeedState, ResumeState, SeedWritten, SeedMetadata
    <3> QED
      BY <2>1, <3>1, <3>2 DEF ArchiveInv
  <2>3. CASE SeedWritten \/ SeedMetadata
    <3>1. pc # "down" /\ UNCHANGED requestCount
      BY <1>2, <2>3 DEF StartUp, SeedWritten, SeedMetadata, SeedState, ResumeState
    <3> QED
      BY <2>1, <3>1 DEF ArchiveInv
  <2> QED
    BY <1>2, <2>2, <2>3 DEF StartUp
<1>3. CASE ServerDies \/ Shutdown
  <2>1. UNCHANGED archive /\ pc' = "down"
    BY <1>3 DEF ServerDies, Crash, Shutdown, Stop, frontVars
  <2> QED
    BY <2>1 DEF ArchiveInv
<1>4. CASE RejectFrame \/ RejectParams \/ SendReply \/ \E b \in Bodies : Post(b)
  <2>1. UNCHANGED <<archive, requestCount, pc>>
    BY <1>4 DEF RejectFrame, RejectParams, SendReply, Post, faultyVars, vars, nodeVars
  <2> QED
    BY <2>1 DEF ArchiveInv
<1>5. CASE Work \/ AnswerRead \/ Finish \/ CallDies
  <2>1. UNCHANGED <<archive, requestCount>>
    BY <1>5 DEF Work, AnswerRead, Finish, CallDies, frontVars
  <2>2. pc # "down"
    BY <1>5 DEF Work, AnswerRead, Finish, CallDies, Launch, ProgramRuns, ProgramStuck,
       DispatchDuplicate, DispatchRead, ReadStuck, ReadFails, OpenTrace, StepsRun,
       StepsStuck, WriteMetadata, WriteReceipt, RespondPending, DropStaged, RecordFailure,
       TruncateState, PersistState, AttachResult, AttachFails, TakeStaged, FileEvents,
       StoreWasm, CloseLedger, LaunchFails, InterpreterDies, InK
  <2> QED
    BY <2>1, <2>2 DEF ArchiveInv
<1> QED
  BY <1>1, <1>2, <1>3, <1>4, <1>5 DEF RpcNext, ServerStep

\* No request is archived over another, restarts or not.
THEOREM ArchiveIsKept == RpcSpec => ArchiveKept
<1> DEFINE Kept == \A n \in DOMAIN archive :
                     n \in DOMAIN archive' /\ archive'[n] = archive[n]
<1>1. RpcInit => ArchiveInv
  BY DEF RpcInit, ArchiveInv, NoFiles
<1>2. ArchiveInv /\ [RpcNext]_rpcVars => ArchiveInv' /\ [Kept]_rpcVars
  BY ArchiveStep DEF rpcVars, frontVars, faultyVars, vars, nodeVars, ArchiveInv
<1> QED
  BY <1>1, <1>2, PTL DEF RpcSpec, ArchiveKept

-----------------------------------------------------------------------------
(* What clients are told.                                                   *)

Pending   == <<"status", "PENDING">>
Duplicate == <<"status", "DUPLICATE">>
Refused   == <<"status", "ERROR">>

\* What an answer r about t has to do with the io-dir ...
Holds(t, r) ==
  /\ r = Pending => t \in acked
  /\ r = Duplicate => HasReceipt(t)
  /\ r = Refused => ~Admitted(Ops[t])
  /\ r[1] = "receipt" => r[2] \in {"NOT_FOUND", StatusOf(t)}

\* ... and what more if t was decided by an earlier element of the batch.
HoldsAfter(t, r) ==
  /\ r # Pending
  /\ r[1] = "receipt" => r[2] = StatusOf(t)
  /\ r[1] = "trace" => r = TraceOf(t)

\* Answers that say nothing of any of this.
Silent(r) == r \notin {Pending, Duplicate, Refused} /\ r[1] \notin {"receipt", "trace"}

\* The i-th answer is r, to a call about t.
Says(i, t, r) == CallOf(answers[i]).tx = t /\ answers[i].result = r

DecidedBefore(i, t) ==
  \E j \in DOMAIN answers : \E r \in Decided : j < i /\ Says(j, t, r)

AnswersInv ==
  /\ answers \in Seq({answers[i] : i \in DOMAIN answers})
  /\ \A i \in DOMAIN answers : \A t, r :
       Says(i, t, r) => /\ Holds(t, r)
                        /\ DecidedBefore(i, t) => HoldsAfter(t, r)

\* Only what the encoder admits gets to the node.
AdmittedInv ==
  /\ \A t \in DOMAIN receipts : Admitted(Ops[t])
  /\ Sending => Admitted(Ops[cur.tx])

\* The request in flight is the element being served; it is a duplicate if an
\* element before it decided its transaction.
FlightInv ==
  /\ Sending =>
       /\ Call.tx = cur.tx
       /\ cur.dup => HasReceipt(cur.tx)
       /\ ~cur.dup => \A j \in DOMAIN answers : \A r \in Decided : ~Says(j, cur.tx, r)
  /\ found[1] \in {"notYet", "receipt", "entries", "result"}
  /\ found[1] = "receipt" /\ Answering /\ ~Sending =>
       found = <<"receipt", StatusOf(Call.tx)>>

RpcInv == StoreInv /\ BodyInv /\ AnswersInv /\ AdmittedInv /\ FlightInv

-----------------------------------------------------------------------------
(* Appending an answer.                                                     *)

LEMMA OneMore ==
  ASSUME NEW s, s \in Seq({s[i] : i \in DOMAIN s}), NEW e
  PROVE  /\ Append(s, e) \in Seq({Append(s, e)[i] : i \in DOMAIN Append(s, e)})
         /\ Len(s) \in Nat /\ DOMAIN s = 1 .. Len(s)
         /\ DOMAIN Append(s, e) = 1 .. Len(s) + 1
         /\ \A i \in 1 .. Len(s) : Append(s, e)[i] = s[i]
         /\ Append(s, e)[Len(s) + 1] = e
<1> DEFINE R == {s[i] : i \in DOMAIN s} \cup {e}
<1> DEFINE a == Append(s, e)
<1>1. s \in Seq(R)
  OBVIOUS
<1>2. /\ Len(s) \in Nat /\ DOMAIN s = 1 .. Len(s)
      /\ a \in Seq(R) /\ Len(a) = Len(s) + 1 /\ DOMAIN a = 1 .. Len(s) + 1
      /\ \A i \in 1 .. Len(s) : a[i] = s[i]
      /\ a[Len(s) + 1] = e
  BY <1>1
<1>3. ASSUME NEW f, NEW S, NEW n \in Nat, f \in Seq(S), Len(f) = n
      PROVE  f \in Seq({f[i] : i \in DOMAIN f})
  <2>1. f \in [1 .. n -> S] /\ DOMAIN f = 1 .. n
    BY <1>3
  <2>2. f \in [1 .. n -> {f[i] : i \in DOMAIN f}]
    BY <2>1
  <2> QED
    BY <2>2
<1>4. a \in Seq({a[i] : i \in DOMAIN a})
  <2>1. Len(s) + 1 \in Nat
    BY <1>2
  <2> HIDE DEF a, R
  <2> QED
    BY <1>2, <1>3, <2>1
<1> QED
  BY <1>2, <1>4

\* What is decided stays as it was told, whatever the node does.
LEMMA ToldStays ==
  ASSUME NodeInv, FaultyNext \/ UNCHANGED faultyVars
  PROVE  /\ acked \subseteq acked'
         /\ \A t : HasReceipt(t) => /\ HasReceipt(t)'
                                    /\ StatusOf(t)' = StatusOf(t)
                                    /\ TraceOf(t)' = TraceOf(t)
<1>1. acked \subseteq acked'
  BY DEF FaultyNext, LaunchFails, SimulationFails, Crash, InterpreterDies,
     Next, Boot, SeedState, SeedWritten, ResumeState, SeedMetadata, Stop,
     Clients, SubmitTx, SubmitRead, Simulate, Serving, Launch, Semantics,
     ProgramRuns, ProgramStuck, ReadStuck, DispatchDuplicate, DispatchRead, OpenTrace,
     StepsRun, StepsStuck, WriteMetadata, WriteReceipt, RespondPending, PostProcess,
     DropStaged, RecordFailure, ReadFails, TruncateState, PersistState, AttachResult,
     AttachFails, TakeStaged, FileEvents, StoreWasm, CloseLedger, faultyVars, vars, nodeVars
<1>2. \A t \in DOMAIN receipts : t \in DOMAIN receipts' /\ receipts'[t].status = receipts[t].status
  <2>1. CASE [Next]_vars
    BY <2>1, ReceiptsKept
  <2>2. CASE UNCHANGED receipts
    BY <2>2
  <2>3. [Next]_vars \/ UNCHANGED receipts
    BY DEF FaultyNext, LaunchFails, SimulationFails, Crash, InterpreterDies, storeVars,
       chainFiles, faultyVars, vars
  <2> QED
    BY <2>1, <2>2, <2>3
<1>3. UNCHANGED traces \/ OpenTrace
  BY DEF FaultyNext, LaunchFails, SimulationFails, Crash, InterpreterDies,
     Next, Boot, SeedState, SeedWritten, ResumeState, SeedMetadata, Stop,
     Clients, SubmitTx, SubmitRead, Simulate, Serving, Launch, Semantics,
     ProgramRuns, ProgramStuck, ReadStuck, DispatchDuplicate, DispatchRead,
     StepsRun, StepsStuck, WriteMetadata, WriteReceipt, RespondPending, PostProcess,
     DropStaged, RecordFailure, ReadFails, TruncateState, PersistState, AttachResult,
     AttachFails, TakeStaged, FileEvents, StoreWasm, CloseLedger, faultyVars, vars, storeVars, chainFiles
<1>4. ASSUME NEW t, HasReceipt(t) PROVE TraceOf(t)' = TraceOf(t)
  <2>1. CASE UNCHANGED traces
    BY <2>1 DEF TraceOf
  <2>2. CASE OpenTrace
    <3>1. t # cur.tx
      BY <1>4, <2>2 DEF OpenTrace, IsFresh
    <3>2. /\ DOMAIN traces' = DOMAIN traces \cup {cur.tx}
          /\ \A u \in DOMAIN traces \ {cur.tx} : traces'[u] = traces[u]
      BY <2>2 DEF OpenTrace, WriteFile
    <3>3. t \in DOMAIN traces' <=> t \in DOMAIN traces
      BY <3>1, <3>2
    <3>4. t \in DOMAIN traces => traces'[t] = traces[t]
      BY <3>1, <3>2
    <3> QED
      BY <3>3, <3>4 DEF TraceOf
  <2> QED
    BY <1>3, <2>1, <2>2
<1>5. ASSUME NEW t, HasReceipt(t) PROVE HasReceipt(t)' /\ StatusOf(t)' = StatusOf(t)
  BY <1>2, <1>5 DEF HasReceipt, StatusOf
<1> QED
  BY <1>1, <1>4, <1>5

\* ... so an answer that held holds.
LEMMA HoldsStays ==
  ASSUME NodeInv, FaultyNext \/ UNCHANGED faultyVars, NEW t, NEW r, Holds(t, r)
  PROVE  /\ Holds(t, r)'
         /\ HasReceipt(t) /\ HoldsAfter(t, r) => HoldsAfter(t, r)'
<1>1. r = Pending => t \in acked'
  BY ToldStays DEF Holds
<1>2. r = Duplicate => HasReceipt(t)'
  BY ToldStays DEF Holds
<1>3. r[1] = "receipt" => r[2] \in {"NOT_FOUND", StatusOf(t)'}
  <2>1. CASE HasReceipt(t)
    BY <2>1, ToldStays DEF Holds
  <2>2. CASE ~HasReceipt(t)
    BY <2>2 DEF Holds, StatusOf
  <2> QED
    BY <2>1, <2>2
<1>4. Holds(t, r)'
  BY <1>1, <1>2, <1>3 DEF Holds
<1>5. HasReceipt(t) /\ HoldsAfter(t, r) => HoldsAfter(t, r)'
  BY ToldStays DEF HoldsAfter
<1> QED
  BY <1>4, <1>5

\* A decided answer is about a transaction that has a receipt.
LEMMA DecidedHasReceipt ==
  ASSUME NodeInv, NEW t, NEW r \in Decided, Holds(t, r)
  PROVE  HasReceipt(t)
BY DEF NodeInv, AckedInv, Failed, Succeeded, Holds, Decided, Pending, Duplicate

\* The answers given so far stay true, and no other is given.
LEMMA AnswersKept ==
  ASSUME NodeInv, AnswersInv, FaultyNext \/ UNCHANGED faultyVars,
         UNCHANGED <<answers, body>>
  PROVE  AnswersInv'
<1>1. \A i, t, r : Says(i, t, r)' <=> Says(i, t, r)
  BY DEF Says, CallOf
<1>2. \A i, t : DecidedBefore(i, t)' <=> DecidedBefore(i, t)
  BY <1>1 DEF DecidedBefore, Decided
<1>3. ASSUME NEW i \in DOMAIN answers, NEW t, NEW r, Says(i, t, r)
      PROVE  Holds(t, r)' /\ (DecidedBefore(i, t) => HoldsAfter(t, r)')
  <2>1. DecidedBefore(i, t) => HasReceipt(t)
    BY DecidedHasReceipt DEF DecidedBefore, AnswersInv
  <2> QED
    BY <1>3, <2>1, HoldsStays DEF AnswersInv
<1> QED
  BY <1>1, <1>2, <1>3 DEF AnswersInv

\* One more answer, r to a call about t.
LEMMA AnswerGiven ==
  ASSUME NodeInv, AnswersInv, FaultyNext \/ UNCHANGED faultyVars, UNCHANGED body,
         NEW t, NEW r, NEW id, Call.tx = t,
         answers' = Append(answers, Answer(id, r)),
         Holds(t, r)',
         (\E j \in DOMAIN answers : \E q \in Decided : Says(j, t, q)) => HoldsAfter(t, r)'
  PROVE  AnswersInv'
<1>1. PICK n \in Nat :
        /\ answers' \in Seq({answers'[i] : i \in DOMAIN answers'})
        /\ DOMAIN answers = 1 .. n /\ DOMAIN answers' = 1 .. n + 1
        /\ \A i \in 1 .. n : answers'[i] = answers[i]
        /\ answers'[n + 1] = Answer(id, r)
  <2> DEFINE m == Len(answers)
  <2>1. answers \in Seq({answers[i] : i \in DOMAIN answers})
    BY DEF AnswersInv
  <2>2. /\ answers' \in Seq({answers'[i] : i \in DOMAIN answers'})
        /\ m \in Nat /\ DOMAIN answers = 1 .. m /\ DOMAIN answers' = 1 .. m + 1
        /\ \A i \in 1 .. m : answers'[i] = answers[i]
        /\ answers'[m + 1] = Answer(id, r)
    BY <2>1, OneMore
  <2> HIDE DEF m
  <2> QED
    BY <2>2
<1>2. \A i \in 1 .. n : \A u, q : Says(i, u, q)' <=> Says(i, u, q)
  BY <1>1 DEF Says, CallOf
<1>3. \A u, q : Says(n + 1, u, q)' <=> (u = t /\ q = r)
  BY <1>1 DEF Says, CallOf, Answer, Call, Element
<1>4. \A i \in 1 .. n : \A u : DecidedBefore(i, u)' <=> DecidedBefore(i, u)
  BY <1>1, <1>2 DEF DecidedBefore, Decided
<1>5. DecidedBefore(n + 1, t)' => \E j \in DOMAIN answers : \E q \in Decided : Says(j, t, q)
  <2> SUFFICES ASSUME NEW j \in DOMAIN answers', NEW q \in Decided, j < n + 1, Says(j, t, q)'
               PROVE  \E k \in DOMAIN answers : Says(k, t, q)
    BY DEF DecidedBefore, Decided
  <2>1. j \in 1 .. n
    BY <1>1
  <2> QED
    BY <1>1, <1>2, <2>1
<1>6. ASSUME NEW i \in 1 .. n, NEW u, NEW q, Says(i, u, q)
      PROVE  Holds(u, q)' /\ (DecidedBefore(i, u) => HoldsAfter(u, q)')
  <2>1. DecidedBefore(i, u) => HasReceipt(u)
    BY DecidedHasReceipt DEF DecidedBefore, AnswersInv
  <2> QED
    BY <1>1, <1>6, <2>1, HoldsStays DEF AnswersInv
<1>7. ASSUME NEW i \in DOMAIN answers', NEW u, NEW q, Says(i, u, q)'
      PROVE  Holds(u, q)' /\ (DecidedBefore(i, u)' => HoldsAfter(u, q)')
  <2>1. CASE i \in 1 .. n
    BY <1>2, <1>4, <1>6, <1>7, <2>1
  <2>2. CASE i = n + 1
    BY <1>3, <1>5, <1>7, <2>2
  <2> QED
    BY <1>1, <2>1, <2>2
<1> QED
  BY <1>1, <1>7 DEF AnswersInv

\* ... unless the element is a notification.
LEMMA AnswerServed ==
  ASSUME NodeInv, AnswersInv, FaultyNext \/ UNCHANGED faultyVars,
         NEW t, NEW r, Call.tx = t, Serve(r), Holds(t, r)',
         (\E j \in DOMAIN answers : \E q \in Decided : Says(j, t, q)) => HoldsAfter(t, r)'
  PROVE  AnswersInv'
<1>1. UNCHANGED body /\ (UNCHANGED answers \/ answers' = Append(answers, Answer(Element.id, r)))
  BY DEF Serve
<1> QED
  BY <1>1, AnswersKept, AnswerGiven

LEMMA SilentHolds ==
  ASSUME NEW t, NEW r, Silent(r)
  PROVE  Holds(t, r)' /\ HoldsAfter(t, r)'
BY DEF Silent, Holds, HoldsAfter

LEMMA ErrorsAreSilent ==
  /\ Silent(InvalidRequest) /\ Silent(InvalidParams) /\ Silent(MethodNotFound)
  /\ Silent(InternalError)
  /\ Silent(<<"simulationError">>) /\ Silent(<<"simulated">>)
BY DEF Silent, InvalidRequest, InvalidParams, MethodNotFound, InternalError, Pending,
   Duplicate, Refused

-----------------------------------------------------------------------------
(* The steps of the server.                                                 *)

\* What a call that never reaches the interpreter is told.
LEMMA ToldAtOnce ==
  AnswerAtOnce # NotYet =>
    \/ Silent(AnswerAtOnce)
    \/ AnswerAtOnce = Refused /\ ~Admitted(Ops[Call.tx])
    \/ AnswerAtOnce = TraceOf(Call.tx)
<1>1. AnswerAtOnce \in {MethodNotFound, InvalidParams, InternalError, <<"simulationError">>,
                        NotYet, TraceOf(Call.tx)}
      \/ (AnswerAtOnce = Refused /\ ~Admitted(Ops[Call.tx]))
  BY DEF AnswerAtOnce, Refused
<1> QED
  BY <1>1, ErrorsAreSilent

LEMMA TraceHolds ==
  ASSUME NEW t, NEW r, UNCHANGED traces, r = TraceOf(t)
  PROVE  Holds(t, r)' /\ HoldsAfter(t, r)'
<1>1. r[1] = "trace"
  BY DEF TraceOf
<1>2. r \notin {Pending, Duplicate, Refused} /\ r[1] # "receipt" /\ r = TraceOf(t)'
  BY <1>1 DEF Pending, Duplicate, Refused, TraceOf
<1> QED
  BY <1>2 DEF Holds, HoldsAfter

LEMMA AnswersOfNoRun ==
  ASSUME RpcInv,
         \/ StartUp \/ Work \/ AnswerRead \/ Shutdown \/ Start \/ SendReply \/ ServerDies
         \/ RejectFrame \/ RejectParams \/ ServeAtOnce \/ SimulateCall \/ CallDies
         \/ \E b \in Bodies : Post(b)
  PROVE  AnswersInv'
<1>1. NodeInv /\ AnswersInv /\ (FaultyNext \/ UNCHANGED faultyVars)
  BY StepsOfTheNode DEF RpcInv, StoreInv, RpcNext, ServerStep
<1>2. CASE StartUp \/ Work \/ AnswerRead \/ Shutdown \/ Start
  <2>1. UNCHANGED <<answers, body>>
    BY <1>2 DEF StartUp, Work, AnswerRead, Shutdown, Start, frontVars
  <2> QED
    BY <1>1, <2>1, AnswersKept
<1>3. CASE SendReply \/ ServerDies \/ \E b \in Bodies : Post(b)
  <2>1. answers' = << >>
    BY <1>3 DEF SendReply, ServerDies, Post
  <2> QED
    BY <2>1 DEF AnswersInv
<1>4. CASE RejectFrame
  <2>1. PICK t, id : /\ Call.tx = t /\ UNCHANGED body
                     /\ answers' = Append(answers, Answer(id, InvalidRequest))
    BY <1>4 DEF RejectFrame
  <2> QED
    BY <1>1, <2>1, AnswerGiven, SilentHolds, ErrorsAreSilent
<1>5. CASE RejectParams \/ SimulateCall \/ CallDies
  <2>1. PICK r : Serve(r) /\ r \in {InvalidParams, <<"simulationError">>, <<"simulated">>,
                                    InternalError}
    BY <1>5 DEF RejectParams, SimulateCall, SimulateAnswers, CallDies
  <2>2. Silent(r)
    BY <2>1, ErrorsAreSilent
  <2>3. PICK t : Call.tx = t
    OBVIOUS
  <2> QED
    BY <1>1, <2>1, <2>2, <2>3, AnswerServed, SilentHolds
<1>6. CASE ServeAtOnce
  <2>1. PICK t, r : Call.tx = t /\ r = AnswerAtOnce /\ Serve(r)
    BY <1>6 DEF ServeAtOnce
  <2>2. Silent(r) \/ (r = Refused /\ ~Admitted(Ops[t])) \/ r = TraceOf(t)
    BY <1>6, <2>1, ToldAtOnce DEF ServeAtOnce
  <2>3. UNCHANGED traces
    BY <1>6 DEF ServeAtOnce, faultyVars, vars, storeVars, chainFiles
  <2>4. r = Refused /\ ~Admitted(Ops[t]) => Holds(t, r)' /\ HoldsAfter(t, r)'
    BY DEF Refused, Holds, HoldsAfter, Pending, Duplicate
  <2>5. Holds(t, r)' /\ HoldsAfter(t, r)'
    BY <2>2, <2>3, <2>4, SilentHolds, TraceHolds
  <2> QED
    BY <1>1, <2>1, <2>5, AnswerServed
<1> QED
  BY <1>2, <1>3, <1>4, <1>5, <1>6

\* A call that reached the node is answered what the node made of it.
LEMMA AnswersOfRun ==
  ASSUME RpcInv, Finish
  PROVE  AnswersInv'
<1>1. NodeInv /\ AnswersInv /\ FlightInv /\ (FaultyNext \/ UNCHANGED faultyVars)
  BY StepsOfTheNode DEF RpcInv, StoreInv, RpcNext, ServerStep
<1>2. PICK t : Call.tx = t
  OBVIOUS
<1>3. CASE RecordFailure /\ Serve(Pending)
  <2>1. cur.tx = t /\ ~cur.dup /\ acked' = acked \cup {cur.tx}
    BY <1>1, <1>2, <1>3
       DEF RecordFailure, FlightInv, Sending, SendOnly, NodeInv, RequestInv, FreshnessInv
  <2>2. Holds(t, Pending)'
    BY <2>1 DEF Holds, Pending, Duplicate, Refused
  <2>3. \A j \in DOMAIN answers : \A q \in Decided : ~Says(j, t, q)
    BY <1>1, <1>3, <2>1
       DEF FlightInv, Sending, SendOnly, NodeInv, RequestInv, RecordFailure
  <2> QED
    BY <1>1, <1>2, <1>3, <2>2, <2>3, AnswerServed
<1>4. CASE CloseLedger /\ Serve(<<"status", response>>)
  <2>1. Sending /\ cur.tx = t
    BY <1>1, <1>2, <1>4 DEF CloseLedger, FlightInv, NodeInv, RequestInv, SendOnly
  <2>2. CASE cur.dup
    <3>1. <<"status", response>> = Duplicate
      BY <1>1, <1>4, <2>1, <2>2 DEF CloseLedger, NodeInv, ResponseInv, Duplicate
    <3>2. HasReceipt(t)'
      BY <1>1, <1>4, <2>1, <2>2 DEF CloseLedger, FlightInv, HasReceipt
    <3>3. Holds(t, Duplicate)' /\ HoldsAfter(t, Duplicate)'
      BY <3>2 DEF Holds, HoldsAfter, Pending, Duplicate, Refused
    <3> QED
      BY <1>1, <1>2, <1>4, <3>1, <3>3, AnswerServed
  <2>3. CASE ~cur.dup
    <3>1. response = "PENDING" /\ <<"status", response>> = Pending
      BY <1>1, <1>4, <2>1, <2>3 DEF CloseLedger, NodeInv, ResponseInv, Pending
    <3>2. t \in acked'
      BY <1>4, <2>1, <3>1 DEF CloseLedger
    <3>3. Holds(t, Pending)'
      BY <3>2 DEF Holds, Pending, Duplicate, Refused
    <3>4. \A j \in DOMAIN answers : \A q \in Decided : ~Says(j, t, q)
      BY <1>1, <2>1, <2>3 DEF FlightInv
    <3> QED
      BY <1>1, <1>2, <1>4, <3>1, <3>3, <3>4, AnswerServed
  <2> QED
    BY <2>2, <2>3
<1>5. CASE PersistState /\ cur.method = "read" /\ Serve(ReadAnswer)
  <2>1. PICK r : r = ReadAnswer
    OBVIOUS
  <2>2. CASE found[1] = "receipt"
    <3>1. r = <<"receipt", StatusOf(t)>>
      BY <1>1, <1>2, <1>5, <2>1, <2>2
         DEF PersistState, FlightInv, Sending, ReadAnswer, Answering
    <3>2. UNCHANGED receipts
      BY <1>5 DEF PersistState, chainFiles
    <3>3. r[1] = "receipt" /\ r[2] = StatusOf(t)' /\ r \notin {Pending, Duplicate, Refused}
      BY <3>1, <3>2 DEF StatusOf, HasReceipt, Pending, Duplicate, Refused
    <3>4. Holds(t, r)' /\ HoldsAfter(t, r)'
      BY <3>3 DEF Holds, HoldsAfter
    <3> QED
      BY <1>1, <1>2, <1>5, <2>1, <3>4, AnswerServed
  <2>3. CASE found[1] # "receipt"
    <3>1. r[1] \in {"notYet", "entries", "result"}
      BY <1>1, <2>1, <2>3 DEF FlightInv, ReadAnswer
    <3>2. Silent(r)
      BY <3>1 DEF Silent, Pending, Duplicate, Refused
    <3> QED
      BY <1>1, <1>2, <1>5, <2>1, <3>2, AnswerServed, SilentHolds
  <2> QED
    BY <2>2, <2>3
<1>6. CASE Serve(InternalError)
  BY <1>1, <1>2, <1>6, AnswerServed, SilentHolds, ErrorsAreSilent
<1> QED
  BY <1>3, <1>4, <1>5, <1>6 DEF Finish, Pending

\* Steps of a call in flight that do not end it.
LEMMA WorkGoesOn ==
  ASSUME NodeInv, Work
  PROVE  /\ UNCHANGED <<cur.method, cur.tx, cur.dup, cur.now>>
         /\ UNCHANGED <<found, body, position, answers>>
         /\ pc \notin Booting \cup {"idle"}
         /\ ~Sending => UNCHANGED receipts /\ (Answering' => Answering)
         /\ DOMAIN receipts' \subseteq DOMAIN receipts \cup {cur.tx}
         /\ DOMAIN receipts' # DOMAIN receipts => Sending
<1> USE DEF NodeInv, RequestInv, SendOnly, Sending, Answering
<1>1. UNCHANGED <<found, body, position, answers>>
  BY DEF Work, frontVars
<1>2. CASE Launch \/ ProgramRuns \/ ProgramStuck \/ DispatchDuplicate \/ OpenTrace
           \/ StepsRun \/ StepsStuck \/ WriteMetadata \/ RespondPending \/ TruncateState
  BY <1>1, <1>2 DEF Launch, ProgramRuns, ProgramStuck, DispatchDuplicate, OpenTrace,
     StepsRun, StepsStuck, Stuck, WriteMetadata, RespondPending, TruncateState, storeVars,
     chainFiles, Booting
<1>3. CASE WriteReceipt \/ AttachResult
  BY <1>1, <1>3 DEF WriteReceipt, AttachResult, WriteFile, Booting
<1>4. CASE PersistState /\ cur.method = "sendTransaction"
  BY <1>1, <1>4 DEF PersistState, chainFiles, Booting
<1>5. CASE DropStaged \/ FileEvents \/ StoreWasm
  BY <1>1, <1>5 DEF DropStaged, FileEvents, StoreWasm, chainFiles, Booting
<1>6. CASE TakeStaged
  BY <1>1, <1>6, LinesHeld DEF TakeStaged, chainFiles, Booting
<1>7. CASE ReadStuck
  BY <1>1, <1>7 DEF ReadStuck, Stuck, ResponseInv, storeVars, chainFiles, Booting
<1> QED
  BY <1>2, <1>3, <1>4, <1>5, <1>6, <1>7 DEF Work

\* Every other step begins or leaves with nothing in flight.
LEMMA NothingInFlight ==
  ASSUME NodeInv, RpcNext, ~Work, ~AnswerRead, ~Start
  PROVE  /\ cur' = NoRequest
         /\ found' \in {found, NotYet}
         /\ DOMAIN receipts' \subseteq DOMAIN receipts \cup {cur.tx}
         /\ DOMAIN receipts' # DOMAIN receipts => Sending
<1> USE DEF NodeInv, RequestInv, Sending
<1>1. CASE StartUp \/ Shutdown \/ ServerDies
  BY <1>1 DEF StartUp, SeedState, SeedWritten, SeedMetadata, ResumeState, Shutdown, Stop,
     ServerDies, Crash, frontVars, storeVars, chainFiles, Booting
<1>2. CASE RejectFrame \/ RejectParams \/ ServeAtOnce \/ SendReply
           \/ \E b \in Bodies : Post(b)
  BY <1>2 DEF RejectFrame, RejectParams, ServeAtOnce, SendReply, Post, AtCall, AtElement,
     faultyVars, vars, storeVars, nodeVars, chainFiles
<1>3. CASE SimulateCall
  BY <1>3 DEF SimulateCall, Simulate, SimulationFails, AtCall, AtElement, chainFiles
<1>4. CASE CallDies
  BY <1>4 DEF CallDies, InterpreterDies, Reply, storeVars, chainFiles
<1>5. CASE Finish
  BY <1>5 DEF Finish, RecordFailure, CloseLedger, PersistState, AttachFails, ReadFails,
     LaunchFails, Reply, storeVars, WriteFile, chainFiles, SendOnly
<1> QED
  BY <1>1, <1>2, <1>3, <1>4, <1>5 DEF RpcNext, ServerStep

\* What the node takes up.
LEMMA TakenUp ==
  ASSUME Start
  PROVE  /\ UNCHANGED <<found, body, position, answers, receipts>>
         /\ \/ cur' = [NoRequest EXCEPT !.method = "read"]
            \/ /\ cur'.tx = Call.tx /\ cur'.dup = HasReceipt(Call.tx)
               /\ Admitted(Ops[Call.tx])
         /\ pc' = "launch"
<1>1. CASE SubmitRead
  BY <1>1 DEF Start, SubmitRead, storeVars, chainFiles
<1>2. CASE Call.method = "sendTransaction" /\ \E now \in Times : SubmitTx(Call.tx, now)
  <2>1. Admitted(Ops[Call.tx])
    BY <1>2 DEF Start, AnswerAtOnce, NotYet, InvalidParams
  <2> QED
    BY <1>2, <2>1 DEF Start, SubmitTx, chainFiles
<1> QED
  BY <1>1, <1>2 DEF Start

LEMMA AdmittedStep ==
  ASSUME RpcInv, RpcNext
  PROVE  AdmittedInv'
<1> USE DEF RpcInv, StoreInv, AdmittedInv, Sending
<1>1. CASE Work
  BY <1>1, WorkGoesOn
<1>2. CASE AnswerRead
  BY <1>2 DEF AnswerRead, DispatchRead, chainFiles
<1>3. CASE Start
  BY <1>3, TakenUp DEF NoRequest
<1>4. CASE ~Work /\ ~AnswerRead /\ ~Start
  BY <1>4, NothingInFlight DEF NoRequest
<1> QED
  BY <1>1, <1>2, <1>3, <1>4

LEMMA FlightStep ==
  ASSUME RpcInv, RpcNext
  PROVE  FlightInv'
<1>0. NodeInv /\ AnswersInv /\ FlightInv /\ (FaultyNext \/ UNCHANGED faultyVars)
  BY StepsOfTheNode DEF RpcInv, StoreInv
<1>1. CASE Work
  <2>1. UNCHANGED <<cur.method, cur.tx, cur.dup, found, body, position, answers>>
    BY <1>0, <1>1, WorkGoesOn
  <2>2. /\ Call' = Call
        /\ \A j, t, r : Says(j, t, r)' <=> Says(j, t, r)
    BY <2>1 DEF Call, Element, Says, CallOf
  <2>3. Sending => (cur.dup => HasReceipt(cur.tx)')
    <3>1. \A t : HasReceipt(t) => HasReceipt(t)'
      BY <1>0, ToldStays
    <3> QED
      BY <1>0, <2>1, <3>1 DEF FlightInv, HasReceipt
  <2>4. ~Sending => \A t : StatusOf(t)' = StatusOf(t)
    BY <1>0, <1>1, WorkGoesOn DEF StatusOf, HasReceipt
  <2>5. ~Sending /\ Answering' => Answering
    BY <1>0, <1>1, WorkGoesOn
  <2>6. Sending' = Sending
    BY <2>1 DEF Sending
  <2>7. Sending' => /\ Call'.tx = cur'.tx
                    /\ cur'.dup => HasReceipt(cur.tx)'
                    /\ ~cur'.dup => \A j \in DOMAIN answers' : \A r \in Decided :
                                      ~Says(j, cur.tx, r)'
    BY <1>0, <2>1, <2>2, <2>3, <2>6 DEF FlightInv
  <2>8. found'[1] = "receipt" /\ Answering' /\ ~Sending' =>
          found' = <<"receipt", StatusOf(Call.tx)'>>
    BY <1>0, <2>1, <2>2, <2>4, <2>5, <2>6 DEF FlightInv
  <2> QED
    BY <1>0, <2>1, <2>7, <2>8 DEF FlightInv, Decided, HasReceipt, Says, StatusOf
<1>2. CASE AnswerRead
  <2>1. /\ UNCHANGED <<cur, body, position, receipts>> /\ ~Sending'
        /\ found' = ReadResult
    BY <1>2 DEF AnswerRead, DispatchRead, chainFiles, Sending
  <2>2. Call' = Call /\ StatusOf(Call.tx)' = StatusOf(Call.tx)
    BY <2>1 DEF Call, Element, StatusOf, HasReceipt
  <2>3. found' = <<"receipt", StatusOf(Call.tx)>> \/ found'[1] \in {"entries", "result"}
    BY <2>1 DEF ReadResult
  <2> QED
    BY <2>1, <2>2, <2>3 DEF FlightInv
<1>3. CASE Start
  <2>1. UNCHANGED <<found, body, position, answers, receipts>>
    BY <1>3, TakenUp
  <2>2. /\ Call' = Call
        /\ \A j, t, r : Says(j, t, r)' <=> Says(j, t, r)
        /\ \A t : HasReceipt(t)' <=> HasReceipt(t)
    BY <2>1 DEF Call, Element, Says, CallOf, HasReceipt
  <2>3. \A t : ~HasReceipt(t) =>
          \A j \in DOMAIN answers : \A r \in Decided : ~Says(j, t, r)
    BY <1>0, DecidedHasReceipt DEF AnswersInv
  <2>4. CASE cur' = [NoRequest EXCEPT !.method = "read"]
    BY <1>0, <1>3, <2>1, <2>4, TakenUp DEF FlightInv, Sending, NoRequest, Answering
  <2>5. CASE cur'.tx = Call.tx /\ cur'.dup = HasReceipt(Call.tx)
    <3>1. PICK t : t = cur'.tx
      OBVIOUS
    <3>2. /\ Call'.tx = t
          /\ cur'.dup => HasReceipt(t)'
          /\ ~cur'.dup => \A j \in DOMAIN answers' : \A r \in Decided : ~Says(j, t, r)'
      BY <2>1, <2>2, <2>3, <2>5, <3>1
    <3>3. found'[1] \in {"notYet", "receipt", "entries", "result"} /\ ~Answering'
      BY <1>0, <1>3, <2>1, TakenUp DEF FlightInv, Answering
    <3> QED
      BY <3>1, <3>2, <3>3 DEF FlightInv, Decided, HasReceipt, Says
  <2> QED
    BY <1>3, <2>4, <2>5, TakenUp
<1>4. CASE ~Work /\ ~AnswerRead /\ ~Start
  <2>1. cur' = NoRequest /\ found' \in {found, NotYet}
    BY <1>0, <1>4, NothingInFlight
  <2>2. ~Answering'
    <3>1. TypeOK' /\ RequestInv'
      BY <1>0, NextPreservesInv, FaultPreservesInv DEF FaultyNext, faultyVars, NodeInv
    <3> QED
      BY <2>1, <3>1 DEF RequestInv, NoRequest, Booting, Answering
  <2> QED
    BY <1>0, <2>1, <2>2 DEF FlightInv, Sending, NoRequest, NotYet
<1> QED
  BY <1>1, <1>2, <1>3, <1>4

-----------------------------------------------------------------------------
(* The invariant of the server, and what clients can rely on.               *)

LEMMA InitEstablishesRpcInv == RpcInit => RpcInv
<1> SUFFICES ASSUME RpcInit PROVE RpcInv
  OBVIOUS
<1> USE DEF RpcInit, FaultyInit, Init
<1>1. StoreInv
  BY InitEstablishesStoreInv
<1>2. BodyInv /\ AnswersInv
  BY DEF BodyInv, AnswersInv
<1>3. AdmittedInv /\ FlightInv
  BY DEF AdmittedInv, FlightInv, StoreInit, NoFiles, Sending, NoRequest, NotYet,
     Answering
<1> QED
  BY <1>1, <1>2, <1>3 DEF RpcInv

LEMMA RpcStepPreservesInv == RpcInv /\ [RpcNext]_rpcVars => RpcInv'
<1> SUFFICES ASSUME RpcInv, [RpcNext]_rpcVars PROVE RpcInv'
  OBVIOUS
<1>1. BodyInv'
  BY BodyStep DEF RpcInv
<1>2. StoreInv'
  <2>1. FaultyNext \/ UNCHANGED faultyVars
    BY StepsOfTheNode DEF RpcInv, rpcVars
  <2> QED
    BY <2>1, NextPreservesStoreInv, FaultPreservesStoreInv DEF RpcInv, FaultyNext, faultyVars
<1>3. CASE RpcNext
  BY <1>1, <1>2, <1>3, AnswersOfNoRun, AnswersOfRun, AdmittedStep, FlightStep
     DEF RpcInv, RpcNext, ServerStep
<1>4. CASE UNCHANGED rpcVars
  <2> USE <1>4 DEF rpcVars, frontVars, faultyVars, vars, storeVars, nodeVars, chainFiles
  <2>1. AnswersInv'
    BY AnswersKept DEF RpcInv, StoreInv
  <2>2. AdmittedInv'
    BY DEF RpcInv, AdmittedInv, Sending
  <2>3. FlightInv'
    BY DEF RpcInv, FlightInv, Sending, HasReceipt, Says, CallOf, Call, Element, StatusOf,
       Decided, Answering
  <2> QED
    BY <1>1, <1>2, <2>1, <2>2, <2>3 DEF RpcInv
<1> QED
  BY <1>3, <1>4

THEOREM RpcInvariance == RpcSpec => []RpcInv
BY InitEstablishesRpcInv, RpcStepPreservesInv, PTL DEF RpcSpec

\* What a client was told in a batch is so: PENDING once for each transaction,
\* and durable; ERROR of one that never will be applied; statuses and traces as
\* the elements before left them, whatever died in between.
THEOREM ClientsAreToldTheTruth == RpcSpec => []AnswersAreTrue
<1>1. ASSUME RpcInv PROVE AnswersAreTrue
  <2> SUFFICES ASSUME NEW i \in DOMAIN answers, NEW t, NEW r,
                      t = CallOf(answers[i]).tx, r = answers[i].result
      PROVE  LET TwinBefore(j) == j < i /\ answers[j].result \in Decided
                                  /\ CallOf(answers[j]).tx = t
             IN CASE r = <<"status", "PENDING">> ->
                       /\ Failed(t) \/ (Succeeded(t) /\ t \in Applied)
                       /\ \A j \in DOMAIN answers : ~TwinBefore(j)
                  [] r = <<"status", "DUPLICATE">> -> HasReceipt(t)
                  [] r = <<"status", "ERROR">> -> ~HasReceipt(t) /\ t \notin Applied
                  [] r[1] = "receipt" ->
                       IF \E j \in DOMAIN answers : TwinBefore(j)
                       THEN r[2] = StatusOf(t)
                       ELSE r[2] \in {"NOT_FOUND", StatusOf(t)}
                  [] r[1] = "trace" ->
                       (\E j \in DOMAIN answers : TwinBefore(j)) => r = TraceOf(t)
                  [] OTHER -> TRUE
    BY DEF AnswersAreTrue
  <2> DEFINE Twin == \E j \in DOMAIN answers : j < i /\ answers[j].result \in Decided
                                               /\ CallOf(answers[j]).tx = t
  <2>1. Holds(t, r) /\ (Twin => HoldsAfter(t, r))
    BY <1>1 DEF RpcInv, AnswersInv, Says, DecidedBefore
  <2>2. r = Pending => ~Twin /\ (Failed(t) \/ (Succeeded(t) /\ t \in Applied))
    BY <1>1, <2>1 DEF Holds, HoldsAfter, RpcInv, StoreInv, NodeInv, AckedInv
  <2>3. r = Refused => ~HasReceipt(t) /\ t \notin Applied
    <3>1. t \in Applied => HasReceipt(t)
      BY <1>1 DEF RpcInv, StoreInv, NodeInv, WorldFollowsLedgers, Applied, World, Succeeded
    <3> QED
      BY <1>1, <2>1, <3>1 DEF Holds, RpcInv, AdmittedInv, HasReceipt
  <2>4. r = Duplicate => HasReceipt(t)
    BY <2>1 DEF Holds
  <2>5. r[1] = "receipt" => IF Twin THEN r[2] = StatusOf(t)
                            ELSE r[2] \in {"NOT_FOUND", StatusOf(t)}
    BY <2>1 DEF Holds, HoldsAfter
  <2>6. r[1] = "trace" => (Twin => r = TraceOf(t))
    BY <2>1 DEF HoldsAfter
  <2> QED
    BY <2>2, <2>3, <2>4, <2>5, <2>6 DEF Pending, Duplicate, Refused
<1> QED
  BY <1>1, RpcInvariance, PTL

-----------------------------------------------------------------------------
(* The bytes of an upload.                                                  *)

\* Somebody was told that t is decided.
Told(t) == t \in acked \/ \E i \in DOMAIN answers : \E r \in Decided : Says(i, t, r)

UploadInv ==
  /\ \A t \in Uploads : Succeeded(t) /\ Told(t) => t \in wasms
  /\ pc = "close" /\ cur.tx \in Uploads => cur.tx \in wasms

LEMMA ToldHasReceipt ==
  ASSUME RpcInv, NEW t, Told(t)
  PROVE  HasReceipt(t)
BY DecidedHasReceipt DEF RpcInv, StoreInv, NodeInv, AckedInv, Failed, Succeeded,
   AnswersInv, Told

\* An answer says what it says, and leaves what the others say.
LEMMA AnswerSays ==
  ASSUME AnswersInv, UNCHANGED body, NEW id, NEW r,
         answers' = Append(answers, Answer(id, r))
  PROVE  \A j \in DOMAIN answers' : \A t, q :
           Says(j, t, q)' => \/ j \in DOMAIN answers /\ Says(j, t, q)
                             \/ q = r /\ t = Call.tx
<1>1. PICK n \in Nat :
        /\ DOMAIN answers = 1 .. n /\ DOMAIN answers' = 1 .. n + 1
        /\ \A i \in 1 .. n : answers'[i] = answers[i]
        /\ answers'[n + 1] = Answer(id, r)
  <2> DEFINE m == Len(answers)
  <2>1. answers \in Seq({answers[i] : i \in DOMAIN answers})
    BY DEF AnswersInv
  <2>2. /\ m \in Nat /\ DOMAIN answers = 1 .. m /\ DOMAIN answers' = 1 .. m + 1
        /\ \A i \in 1 .. m : answers'[i] = answers[i]
        /\ answers'[m + 1] = Answer(id, r)
    BY <2>1, OneMore
  <2> HIDE DEF m
  <2> QED
    BY <2>2
<1>2. \A j \in 1 .. n : \A t, q : Says(j, t, q)' <=> Says(j, t, q)
  BY <1>1 DEF Says, CallOf
<1>3. \A t, q : Says(n + 1, t, q)' <=> (t = Call.tx /\ q = r)
  BY <1>1 DEF Says, CallOf, Answer, Call, Element
<1> QED
  BY <1>1, <1>2, <1>3

\* Only the two ends of a transaction's run tell a client that it is decided.
LEMMA NothingDecided ==
  ASSUME RpcInv, RpcNext, ~(RecordFailure /\ Serve(Pending)),
         ~(CloseLedger /\ Serve(<<"status", response>>))
  PROVE  \A t : Told(t)' => Told(t)
<1>1. UNCHANGED acked
  BY DEF RpcNext, ServerStep, StartUp, RejectFrame, RejectParams, ServeAtOnce, SimulateCall,
     Start, Work, AnswerRead, Finish, SendReply, Post, Shutdown, ServerDies, CallDies,
     SeedState, SeedWritten, SeedMetadata, ResumeState, Stop, SubmitTx, SubmitRead,
     Simulate, SimulationFails, Launch, ProgramRuns, ProgramStuck, DispatchDuplicate,
     DispatchRead, OpenTrace, StepsRun, StepsStuck, WriteMetadata, WriteReceipt,
     RespondPending, DropStaged, ReadStuck, ReadFails, TruncateState, PersistState,
     AttachResult, AttachFails, TakeStaged, FileEvents, StoreWasm, LaunchFails, Crash, InterpreterDies, faultyVars, vars,
     nodeVars, Pending
<1>2. \/ UNCHANGED <<answers, body>>
      \/ answers' = << >>
      \/ \E id, r : r \notin Decided /\ UNCHANGED body
                    /\ answers' = Append(answers, Answer(id, r))
  <2>0. \A r : Silent(r) \/ r = Refused \/ r[1] = "trace" => r \notin Decided
    BY DEF Silent, Refused, Decided, Pending, Duplicate
  <2>1. CASE StartUp \/ Work \/ AnswerRead \/ Shutdown \/ Start \/ SendReply \/ ServerDies
             \/ \E b \in Bodies : Post(b)
    BY <2>1 DEF StartUp, Work, AnswerRead, Shutdown, Start, SendReply, ServerDies, Post,
       frontVars
  <2>2. CASE RejectFrame
    BY <2>0, <2>2, ErrorsAreSilent DEF RejectFrame
  <2>3. ASSUME NEW r, Serve(r), r \notin Decided
        PROVE  \/ UNCHANGED <<answers, body>>
               \/ \E id : UNCHANGED body /\ answers' = Append(answers, Answer(id, r))
    BY <2>3 DEF Serve
  <2>4. CASE RejectParams \/ SimulateCall \/ CallDies
    <3>1. PICK r : Serve(r) /\ r \in {InvalidParams, <<"simulationError">>, <<"simulated">>,
                                      InternalError}
      BY <2>4 DEF RejectParams, SimulateCall, SimulateAnswers, CallDies
    <3> QED
      BY <2>0, <2>3, <3>1, ErrorsAreSilent
  <2>5. CASE ServeAtOnce
    <3>1. TraceOf(Call.tx)[1] = "trace"
      BY DEF TraceOf
    <3> QED
      BY <2>0, <2>3, <2>5, <3>1, ToldAtOnce DEF ServeAtOnce
  <2>6. CASE Finish
    <3>1. Serve(InternalError) \/ Serve(ReadAnswer)
      BY <2>6 DEF Finish, Pending
    <3>2. ReadAnswer[1] \in {"notYet", "receipt", "entries", "result"}
      BY DEF RpcInv, FlightInv, ReadAnswer
    <3>3. ReadAnswer \notin Decided
      BY <3>2 DEF Decided
    <3> QED
      BY <2>0, <2>3, <3>1, <3>3, ErrorsAreSilent
  <2> QED
    BY <2>1, <2>2, <2>4, <2>5, <2>6 DEF RpcNext, ServerStep
<1>3. CASE UNCHANGED <<answers, body>> \/ answers' = << >>
  <2>1. CASE UNCHANGED <<answers, body>>
    <3>1. \A i, t, r : Says(i, t, r)' <=> Says(i, t, r)
      BY <2>1 DEF Says, CallOf
    <3> QED
      BY <1>1, <2>1, <3>1 DEF Told, Decided
  <2>2. CASE answers' = << >>
    <3>1. DOMAIN answers' = {}
      BY <2>2
    <3> QED
      BY <1>1, <3>1 DEF Told, Decided
  <2> QED
    BY <1>3, <2>1, <2>2
<1>4. ASSUME NEW id, NEW r, r \notin Decided, UNCHANGED body,
             answers' = Append(answers, Answer(id, r))
      PROVE  \A t : Told(t)' => Told(t)
  BY <1>1, <1>4, AnswerSays DEF Told, RpcInv, Decided
<1> QED
  BY <1>2, <1>3, <1>4

LEMMA UploadStep ==
  ASSUME RpcInv, UploadInv, RpcNext
  PROVE  UploadInv'
<1>1. NodeInv /\ FlightInv /\ (FaultyNext \/ UNCHANGED faultyVars)
  BY StepsOfTheNode DEF RpcInv, StoreInv
<1>2. wasms \subseteq wasms' /\ (pc' = "close" /\ cur'.tx \in Uploads => cur'.tx \in wasms')
  BY <1>1 DEF UploadInv, FaultyNext, LaunchFails, SimulationFails, Crash, InterpreterDies,
     Next, Boot, SeedState, SeedWritten, ResumeState, SeedMetadata, Stop,
     Clients, SubmitTx, SubmitRead, Simulate, Serving, Launch, Semantics,
     ProgramRuns, ProgramStuck, ReadStuck, Stuck, DispatchDuplicate, DispatchRead, OpenTrace,
     StepsRun, StepsStuck, WriteMetadata, WriteReceipt, RespondPending, PostProcess,
     DropStaged, RecordFailure, ReadFails, TruncateState, PersistState, AfterPersist,
     AttachResult, AttachFails, TakeStaged, FileEvents, AfterEvents, StoreWasm,
     CloseLedger, Reply, faultyVars,
     vars, storeVars, nodeVars, chainFiles
<1>3. ASSUME NEW t \in Uploads, Told(t), Succeeded(t)' PROVE t \in wasms'
  <2>1. HasReceipt(t) /\ StatusOf(t)' = StatusOf(t)
    BY <1>1, <1>3, ToldHasReceipt, ToldStays
  <2>2. Succeeded(t)
    BY <1>3, <2>1 DEF Succeeded, StatusOf, HasReceipt
  <2> QED
    BY <1>2, <1>3, <2>2 DEF UploadInv
<1>4. ASSUME NEW t \in Uploads, ~Told(t), Told(t)', Succeeded(t)' PROVE t \in wasms'
  <2>1. \/ RecordFailure /\ Serve(Pending)
        \/ CloseLedger /\ Serve(<<"status", response>>)
    BY <1>4, NothingDecided
  <2>2. Sending /\ Call.tx = cur.tx
    BY <1>1, <2>1 DEF RecordFailure, CloseLedger, NodeInv, RequestInv, SendOnly, FlightInv,
       Sending
  <2>3. t = cur.tx
    <3>1. acked' \subseteq acked \cup {cur.tx}
      BY <2>1 DEF RecordFailure, CloseLedger
    <3>2. UNCHANGED body /\ (UNCHANGED answers \/
            \E r : answers' = Append(answers, Answer(Element.id, r)))
      BY <2>1 DEF Serve
    <3>3. CASE UNCHANGED answers
      BY <1>4, <3>1, <3>2, <3>3 DEF Told, Says, CallOf, Decided
    <3>4. ASSUME NEW r, answers' = Append(answers, Answer(Element.id, r)) PROVE t = cur.tx
      <4>1. \A j \in DOMAIN answers' : \A u, q :
              Says(j, u, q)' => (j \in DOMAIN answers /\ Says(j, u, q)) \/ u = cur.tx
        BY <2>2, <3>2, <3>4, AnswerSays DEF RpcInv
      <4> QED
        BY <1>4, <3>1, <4>1 DEF Told, Decided
    <3> QED
      BY <3>2, <3>3, <3>4
  <2>4. CASE RecordFailure
    <3>1. receipts'[cur.tx].status = "FAILED"
      BY <2>4 DEF RecordFailure, WriteFile, FailedReceipt
    <3> QED
      BY <1>4, <2>3, <3>1 DEF Succeeded
  <2>5. CASE CloseLedger
    BY <2>3, <2>5 DEF CloseLedger, UploadInv
  <2> QED
    BY <2>1, <2>4, <2>5
<1> QED
  BY <1>2, <1>3, <1>4 DEF UploadInv

\* Whoever died, and whenever: the bytes of an upload that a client was told is
\* decided, and that succeeded, are in wasms/.
LEMMA BytesAreKept == RpcSpec => []UploadInv
<1>1. RpcInit => UploadInv
  BY DEF RpcInit, FaultyInit, Init, StoreInit, UploadInv, Told
<1>2. RpcInv /\ UploadInv /\ [RpcNext]_rpcVars => UploadInv'
  <2>1. UploadInv /\ UNCHANGED rpcVars => UploadInv'
    BY DEF UploadInv, Told, Says, CallOf, Decided, Succeeded, HasReceipt, rpcVars, frontVars,
       faultyVars, vars, storeVars, nodeVars, chainFiles
  <2> QED
    BY <2>1, UploadStep
<1> QED
  BY <1>1, <1>2, RpcInvariance, PTL DEF RpcSpec

-----------------------------------------------------------------------------
(* The two passes over the operations of a transaction agree: whatever the *)
(* encoder lets through, the result encoder has a result for.              *)

\* The operations that have a step are among those that have a result ...
LEMMA StepHasResult ==
  ASSUME NEW op, EncodeOperation(op) # NoStep
  PROVE  OpSuccessResult(op) # "raises"
BY DEF EncodeOperation, OpSuccessResult, HostFunctions

\* ... and so are uploads, which have none.
LEMMA UploadHasResult ==
  ASSUME NEW op, op.type = "upload"
  PROVE  EncodeOperation(op) = NoStep /\ OpSuccessResult(op) # "raises"
BY DEF EncodeOperation, OpSuccessResult, HostFunctions

\* The encoding of uploads stops at the first of them.
LEMMA UploadsStopAtOnce ==
  ASSUME NEW n \in Nat, n # 0, NEW ops, DOMAIN ops = 1 .. n,
         \A i \in DOMAIN ops : ops[i].type = "upload"
  PROVE  EncodeSteps(ops).path = "none"
<1> DEFINE steps == [i \in DOMAIN ops |-> EncodeOperation(ops[i])]
<1> DEFINE stops == {i \in DOMAIN ops : steps[i] \in {NoStep, BadStep}}
<1>1. \A i \in DOMAIN ops : steps[i] = NoStep
  BY UploadHasResult
<1>2. stops = 1 .. n
  BY <1>1
<1>3. Min(stops) \in stops
  <2>1. 1 \in stops /\ \A i \in stops : 1 <= i
    BY <1>2
  <2> HIDE DEF stops
  <2> QED
    BY <2>1 DEF Min
<1>4. stops # {} /\ steps[Min(stops)] = NoStep
  BY <1>1, <1>3
<1> QED
  BY <1>4 DEF EncodeSteps

\* For every list of operations.
THEOREM AdmittedFinishes ==
  ASSUME NEW n \in Nat, NEW S, NEW ops \in [1 .. n -> S], Admitted(ops)
  PROVE  Finishes(ops)
<1>1. CASE EncodeSteps(ops).path = "none"
  <2>1. \A i \in DOMAIN ops : ops[i].type = "upload"
    BY <1>1 DEF Admitted, BuildTxRequest, UploadSteps
  <2>2. BuildTxRequest(ops).path = "upload"
    BY <1>1, <2>1 DEF Admitted, BuildTxRequest, UploadSteps
  <2>3. ops # << >>
    BY <1>1 DEF EncodeSteps
  <2>4. ResultEncodes(ops)
    BY <2>1, UploadHasResult DEF ResultEncodes, TransactionResult
  <2> QED
    BY <2>1, <2>2, <2>3, <2>4 DEF Finishes
<1>2. CASE EncodeSteps(ops).path # "none"
  <2>1. BuildTxRequest(ops) = EncodeSteps(ops)
    BY <1>2 DEF BuildTxRequest
  <2>2. \A i \in DOMAIN ops : EncodeOperation(ops[i]) # NoStep
    <3> DEFINE steps == [i \in DOMAIN ops |-> EncodeOperation(ops[i])]
    <3> DEFINE stops == {i \in DOMAIN ops : steps[i] \in {NoStep, BadStep}}
    <3>1. stops # {} => EncodeSteps(ops).path \in {"none", "raises"}
      <4> DEFINE why == IF steps[Min(stops)] = NoStep THEN "none" ELSE "raises"
      <4>1. ASSUME stops # {} PROVE EncodeSteps(ops) = [path |-> why, steps |-> << >>]
        BY <4>1 DEF EncodeSteps
      <4>2. why \in {"none", "raises"}
        OBVIOUS
      <4> HIDE DEF why, stops
      <4> QED
        BY <4>1, <4>2
    <3>2. stops = {}
      <4>1. EncodeSteps(ops).path # "raises"
        BY <2>1 DEF Admitted
      <4> QED
        BY <1>2, <3>1, <4>1
    <3>3. \A i \in DOMAIN ops : steps[i] # NoStep
      BY <3>2
    <3> QED
      BY <3>3
  <2>3. ResultEncodes(ops)
    BY <2>2, StepHasResult DEF ResultEncodes, TransactionResult
  <2>4. BuildTxRequest(ops).path # "upload"
    BY <2>1 DEF EncodeSteps
  <2>5. ops # << >> => n # 0
    OBVIOUS
  <2>6. ~(ops # << >> /\ \A i \in DOMAIN ops : ops[i].type = "upload")
    BY <1>2, <2>5, UploadsStopAtOnce
  <2> QED
    BY <2>3, <2>4, <2>6 DEF Finishes
<1> QED
  BY <1>1, <1>2

\* Whatever operations a transaction is made of, and however many: one that is
\* admitted can be answered once it ran.
THEOREM AdmittedIsFinished == RpcSpec => []AdmittedCanBeFinished
<1>1. Unfinished = {}
  <2> SUFFICES ASSUME NEW ops \in OpLists, Admitted(ops)
               PROVE  Finishes(ops)
    BY DEF Unfinished
  <2> DEFINE kinds == UNION {Range(Ops[t]) : t \in Tx}
  <2>1. PICK n \in 0 .. 3 : ops \in [1 .. n -> kinds]
    BY DEF OpLists
  <2> HIDE DEF kinds
  <2>2. n \in Nat
    OBVIOUS
  <2> QED
    BY <2>1, <2>2, AdmittedFinishes
<1>2. AdmittedCanBeFinished
  BY <1>1 DEF AdmittedCanBeFinished
<1> QED
  BY <1>2, PTL

-----------------------------------------------------------------------------
(* Every element that is due an answer gets one.                            *)

\* The elements before the one being served are answered; the call in flight is
\* a well-formed element; what was sent back answers its body.
FrontInv ==
  /\ body # NoBody =>
       /\ position \in 1 .. Len(body.elements) + 1
       /\ AnswersFor(answers, body, position - 1)
  /\ pc \notin Booting \cup {"idle"} =>
       position \in DOMAIN body.elements /\ Element.frame = "ok"
  /\ reply.to.elements # << >> =>
       /\ AnswersFor(reply.answers, reply.to, Len(reply.to.elements))
       /\ reply.form = IF reply.answers = << >> THEN "none"
                       ELSE IF reply.to.batch THEN "array" ELSE "object"

LEMMA OneMoreAnswer ==
  ASSUME NEW s, s \in Seq({s[i] : i \in DOMAIN s}), NEW b, NEW n \in Nat \ {0},
         AnswersFor(s, b, n - 1), NEW id, NEW r, NEW e, e = b.elements[n],
         e.frame \in {"notObject", "badFrame"} \/ e.id # NoId,
         id = IF e.frame = "notObject" THEN NoId ELSE e.id
  PROVE  AnswersFor(Append(s, [id |-> id, of |-> n, result |-> r]), b, n)
<1> DEFINE Due(i) == b.elements[i].frame \in {"notObject", "badFrame"} \/ b.elements[i].id # NoId
<1> DEFINE a == Append(s, [id |-> id, of |-> n, result |-> r])
<1>1. PICK m \in Nat :
        /\ DOMAIN s = 1 .. m /\ DOMAIN a = 1 .. m + 1
        /\ \A i \in 1 .. m : a[i] = s[i]
        /\ a[m + 1] = [id |-> id, of |-> n, result |-> r]
  <2> DEFINE m == Len(s)
  <2>1. /\ m \in Nat /\ DOMAIN s = 1 .. m /\ DOMAIN a = 1 .. m + 1
        /\ \A i \in 1 .. m : a[i] = s[i]
        /\ a[m + 1] = [id |-> id, of |-> n, result |-> r]
    BY OneMore
  <2> HIDE DEF m, a
  <2> QED
    BY <2>1
<1> HIDE DEF a
<1>2. /\ {s[i].of : i \in DOMAIN s} = {i \in 1 .. n - 1 : Due(i)}
      /\ \A i, j \in DOMAIN s : i < j => s[i].of < s[j].of
      /\ \A i \in DOMAIN s :
           s[i].id = IF b.elements[s[i].of].frame = "notObject" THEN NoId
                     ELSE b.elements[s[i].of].id
  BY DEF AnswersFor
<1>3. a[m + 1].of = n /\ a[m + 1].id = id
  BY <1>1
<1>4. {a[i].of : i \in DOMAIN a} = {s[i].of : i \in DOMAIN s} \cup {n}
  <2>1. DOMAIN a = DOMAIN s \cup {m + 1}
    BY <1>1
  <2> QED
    BY <1>1, <1>3, <2>1
<1>5. {i \in 1 .. n : Due(i)} = {i \in 1 .. n - 1 : Due(i)} \cup {n}
  <2>1. 1 .. n = (1 .. n - 1) \cup {n}
    OBVIOUS
  <2> QED
    BY <2>1
<1>6. ASSUME NEW i \in DOMAIN a, NEW j \in DOMAIN a, i < j PROVE a[i].of < a[j].of
  <2>1. i \in DOMAIN s /\ a[i] = s[i]
    BY <1>1, <1>6
  <2>2. s[i].of \in 1 .. n - 1
    BY <1>2, <2>1
  <2>3. CASE j = m + 1
    BY <1>3, <2>1, <2>2, <2>3
  <2>4. CASE j # m + 1
    <3>1. j \in DOMAIN s /\ a[j] = s[j]
      BY <1>1, <2>4
    <3> QED
      BY <1>2, <1>6, <2>1, <3>1
  <2> QED
    BY <2>3, <2>4
<1>7. ASSUME NEW i \in DOMAIN a
      PROVE  a[i].id = IF b.elements[a[i].of].frame = "notObject" THEN NoId
                       ELSE b.elements[a[i].of].id
  <2>1. CASE i = m + 1
    BY <1>3, <2>1
  <2>2. CASE i # m + 1
    <3>1. i \in DOMAIN s /\ a[i] = s[i]
      BY <1>1, <2>2
    <3> QED
      BY <1>2, <3>1
  <2> QED
    BY <2>1, <2>2
<1>8. {a[i].of : i \in DOMAIN a} = {i \in 1 .. n : Due(i)}
  BY <1>2, <1>4, <1>5
<1> QED
  BY <1>6, <1>7, <1>8 DEF AnswersFor, a

\* A notification is passed over.
LEMMA OneMoreSilent ==
  ASSUME NEW s, NEW b, NEW n \in Nat \ {0}, AnswersFor(s, b, n - 1),
         ~(b.elements[n].frame \in {"notObject", "badFrame"} \/ b.elements[n].id # NoId)
  PROVE  AnswersFor(s, b, n)
<1> DEFINE Due(i) == b.elements[i].frame \in {"notObject", "badFrame"} \/ b.elements[i].id # NoId
<1>1. {i \in 1 .. n : Due(i)} = {i \in 1 .. n - 1 : Due(i)}
  <2>1. 1 .. n = (1 .. n - 1) \cup {n}
    OBVIOUS
  <2> QED
    BY <2>1
<1> QED
  BY <1>1 DEF AnswersFor

\* Serving an element moves past it.
LEMMA ServedElement ==
  ASSUME BodyInv, FrontInv, answers \in Seq({answers[i] : i \in DOMAIN answers}),
         position \in DOMAIN body.elements,
         \/ Element.frame \in {"ok", "badParams"} /\ \E r : Serve(r)
         \/ RejectFrame
  PROVE  /\ body' = body /\ reply' = reply
         /\ position' \in 1 .. Len(body.elements) + 1
         /\ AnswersFor(answers', body, position' - 1)
<1>1. body \in Bodies /\ body # NoBody
  BY DEF BodyInv, NoBody
<1>2. position \in 1 .. Len(body.elements) /\ Len(body.elements) \in Nat
  BY <1>1, RpcServerAssumption
<1>3. AnswersFor(answers, body, position - 1)
  BY <1>1 DEF FrontInv
<1>4. body' = body /\ reply' = reply /\ position' = position + 1
  BY DEF Serve, RejectFrame
<1>5. position \in Nat \ {0} /\ position' - 1 = position
  BY <1>2, <1>4
<1>6. AnswersFor(answers', body, position)
  <2>1. CASE RejectFrame
    <3>1. PICK id : /\ answers' = Append(answers, Answer(id, InvalidRequest))
                    /\ id = IF Element.frame = "notObject" THEN NoId ELSE Element.id
                    /\ Element.frame \in {"notObject", "badFrame"}
      BY <2>1 DEF RejectFrame
    <3> QED
      BY <1>3, <1>5, <3>1, OneMoreAnswer DEF Answer, Element
  <2>2. CASE Element.frame \in {"ok", "badParams"} /\ \E r : Serve(r)
    <3>1. PICK r : answers' = IF Element.id = NoId THEN answers
                              ELSE Append(answers, Answer(Element.id, r))
      BY <2>2 DEF Serve, Silenced
    <3>2. CASE Element.id = NoId
      <4>1. answers' = answers
        BY <3>1, <3>2
      <4> QED
        BY <1>3, <1>5, <2>2, <3>2, <4>1, OneMoreSilent DEF Element
    <3>3. CASE Element.id # NoId
      <4>1. answers' = Append(answers, Answer(Element.id, r))
        BY <3>1, <3>3
      <4> QED
        BY <1>3, <1>5, <2>2, <3>3, <4>1, OneMoreAnswer DEF Answer, Element
    <3> QED
      BY <3>2, <3>3
  <2> QED
    BY <2>1, <2>2
<1> QED
  BY <1>2, <1>4, <1>5, <1>6

\* What the steps of the server do to what it serves.
LEMMA FrontStep ==
  ASSUME RpcInv, FrontInv, RpcNext
  PROVE  FrontInv'
<1> USE DEF FrontInv
<1>0. /\ BodyInv /\ NodeInv /\ RequestInv
      /\ answers \in Seq({answers[i] : i \in DOMAIN answers})
  BY DEF RpcInv, StoreInv, NodeInv, AnswersInv
<1>1. CASE StartUp
  <2>1. UNCHANGED <<body, position, answers, reply>> /\ pc' \in Booting \cup {"idle"}
    BY <1>1 DEF StartUp, SeedState, ResumeState, SeedWritten, SeedMetadata, Booting
  <2> QED
    BY <2>1 DEF AnswersFor
<1>2. CASE RejectFrame \/ RejectParams \/ ServeAtOnce \/ SimulateCall
  <2>1. pc = "idle" /\ pc' = "idle" /\ position \in DOMAIN body.elements
    BY <1>2 DEF RejectFrame, RejectParams, ServeAtOnce, SimulateCall, AtCall, AtElement,
       Simulate, SimulationFails, faultyVars, vars, nodeVars
  <2>2. \/ Element.frame \in {"ok", "badParams"} /\ \E r : Serve(r)
        \/ RejectFrame
    BY <1>2 DEF RejectParams, ServeAtOnce, SimulateCall, AtCall
  <2>3. /\ body' = body /\ reply' = reply
        /\ position' \in 1 .. Len(body.elements) + 1
        /\ AnswersFor(answers', body, position' - 1)
    BY <1>0, <2>1, <2>2, ServedElement
  <2> QED
    BY <2>1, <2>3
<1>3. CASE Finish \/ CallDies
  <2>1. pc \notin Booting \cup {"idle"} /\ pc' = "idle"
    BY <1>0, <1>3 DEF Finish, CallDies, RecordFailure, ReadFails, CloseLedger, PersistState, AttachFails,
       LaunchFails, InterpreterDies, Reply, InK, Booting, RequestInv
  <2>2. position \in DOMAIN body.elements /\ Element.frame = "ok" /\ \E r : Serve(r)
    BY <1>3, <2>1 DEF Finish, CallDies
  <2>3. /\ body' = body /\ reply' = reply
        /\ position' \in 1 .. Len(body.elements) + 1
        /\ AnswersFor(answers', body, position' - 1)
    BY <1>0, <2>2, ServedElement
  <2> QED
    BY <2>1, <2>3
<1>4. CASE Start \/ Work \/ AnswerRead
  <2>1. UNCHANGED <<body, position, answers, reply>>
    BY <1>4 DEF Start, Work, AnswerRead, frontVars
  <2>2. position \in DOMAIN body.elements /\ Element.frame = "ok"
    <3>1. CASE Start
      BY <3>1 DEF Start, AtCall, AtElement
    <3>2. CASE Work
      BY <1>0, <3>2, WorkGoesOn
    <3>3. CASE AnswerRead
      BY <3>3 DEF AnswerRead, DispatchRead, Booting
    <3> QED
      BY <1>4, <3>1, <3>2, <3>3
  <2>3. Element' = Element
    BY <2>1 DEF Element
  <2> QED
    BY <2>1, <2>2, <2>3
<1>5. CASE \E b \in Bodies : Post(b)
  <2>1. PICK b \in Bodies : Post(b)
    BY <1>5
  <2>2. /\ body' = b /\ position' = 1 /\ answers' = << >> /\ reply' = NoReply /\ pc' = "idle"
    BY <2>1 DEF Post, faultyVars, vars, nodeVars
  <2>3. 1 \in 1 .. Len(b.elements) + 1
    BY RpcServerAssumption
  <2>4. AnswersFor(<< >>, b, 0)
    BY DEF AnswersFor
  <2> QED
    BY <2>2, <2>3, <2>4 DEF NoReply, NoBody
<1>6. CASE SendReply
  <2>1. /\ body \in Bodies /\ body # NoBody /\ position \notin DOMAIN body.elements
        /\ reply' = [form |-> HttpBody.form, answers |-> HttpBody.answers, to |-> body]
        /\ body' = NoBody /\ pc' = "idle"
    BY <1>0, <1>6 DEF SendReply, BodyInv, faultyVars, vars, nodeVars
  <2>2. position - 1 = Len(body.elements)
    BY <2>1, RpcServerAssumption
  <2>3. ASSUME body.elements # << >>
        PROVE  /\ HttpBody.answers = answers
               /\ HttpBody.form = IF answers = << >> THEN "none"
                                  ELSE IF body.batch THEN "array" ELSE "object"
    <3>1. body.parses
      BY <2>1, <2>3, RpcServerAssumption
    <3>2. HttpBody = IF answers = << >> THEN [form |-> "none", answers |-> << >>]
                     ELSE [form |-> IF body.batch THEN "array" ELSE "object",
                           answers |-> answers]
      BY <2>3, <3>1 DEF HttpBody
    <3>3. CASE answers = << >>
      <4>1. HttpBody.form = "none" /\ HttpBody.answers = << >>
        BY <3>2, <3>3
      <4>2. HttpBody.answers = answers
        BY <3>3, <4>1
      <4> QED
        BY <3>3, <4>1, <4>2
    <3>4. CASE answers # << >>
      BY <3>2, <3>4
    <3> QED
      BY <3>3, <3>4
  <2>4. AnswersFor(answers, body, Len(body.elements))
    BY <2>1, <2>2
  <2> QED
    BY <2>1, <2>3, <2>4
<1>7. CASE Shutdown
  BY <1>7 DEF Shutdown, Stop, frontVars, Booting
<1>8. CASE ServerDies
  BY <1>8 DEF ServerDies, Crash, NoReply, NoBody, Booting
<1> QED
  BY <1>1, <1>2, <1>3, <1>4, <1>5, <1>6, <1>7, <1>8 DEF RpcNext, ServerStep

\* Every element of a batch that must be answered is answered once, in order and
\* under its id, whichever of them fail and whatever is killed under them.
THEOREM BatchIsAnswered == RpcSpec => []BatchAnswersMatch
<1>1. RpcInit => FrontInv
  BY DEF RpcInit, FaultyInit, Init, FrontInv, NoReply, NoBody, Booting
<1>2. RpcInv /\ FrontInv /\ [RpcNext]_rpcVars => FrontInv'
  <2>1. FrontInv /\ UNCHANGED rpcVars => FrontInv'
    BY DEF FrontInv, AnswersFor, Element, rpcVars, frontVars, faultyVars, vars, nodeVars
  <2> QED
    BY <2>1, FrontStep
<1>3. FrontInv => BatchAnswersMatch
  BY DEF FrontInv, BatchAnswersMatch
<1> QED
  BY <1>1, <1>2, <1>3, RpcInvariance, PTL DEF RpcSpec

-----------------------------------------------------------------------------
(* The types of the server.                                                 *)

FrontTypeInv ==
  /\ position \in Nat
  /\ AnswerType(answers) /\ AnswerType(reply.answers)
  /\ reply.form \in {"none", "object", "array"}
  /\ requestCount \in Nat
  /\ posted \in 0 .. MaxBodies

LEMMA TypedAnswer ==
  ASSUME NEW s, s \in Seq({s[i] : i \in DOMAIN s}), AnswerType(s), position \in Nat,
         NEW id, NEW r
  PROVE  AnswerType(Append(s, Answer(id, r)))
<1> DEFINE a == Append(s, Answer(id, r))
<1>1. PICK m \in Nat :
        /\ DOMAIN s = 1 .. m /\ DOMAIN a = 1 .. m + 1
        /\ \A i \in 1 .. m : a[i] = s[i]
        /\ a[m + 1] = Answer(id, r)
  <2> DEFINE m == Len(s)
  <2>1. /\ m \in Nat /\ DOMAIN s = 1 .. m /\ DOMAIN a = 1 .. m + 1
        /\ \A i \in 1 .. m : a[i] = s[i]
        /\ a[m + 1] = Answer(id, r)
    BY OneMore
  <2> HIDE DEF m, a
  <2> QED
    BY <2>1
<1> HIDE DEF a
<1>2. DOMAIN a[m + 1] = {"id", "of", "result"} /\ a[m + 1].of \in Nat
  BY <1>1 DEF Answer
<1>3. ASSUME NEW i \in DOMAIN a PROVE DOMAIN a[i] = {"id", "of", "result"} /\ a[i].of \in Nat
  <2>1. CASE i = m + 1
    BY <1>2, <2>1
  <2>2. CASE i # m + 1
    <3>1. i \in DOMAIN s /\ a[i] = s[i]
      BY <1>1, <2>2
    <3> QED
      BY <3>1 DEF AnswerType
  <2> QED
    BY <2>1, <2>2
<1> QED
  BY <1>3 DEF AnswerType, a

LEMMA FrontTypeStep ==
  ASSUME RpcInv, ArchiveInv, FrontTypeInv, RpcNext
  PROVE  FrontTypeInv'
<1> USE DEF FrontTypeInv
<1>0. MaxBodies \in Nat /\ answers \in Seq({answers[i] : i \in DOMAIN answers})
  BY RpcServerAssumption DEF RpcInv, AnswersInv
<1>1. ASSUME \E r : Serve(r)
      PROVE  position' \in Nat /\ AnswerType(answers') /\ UNCHANGED <<reply, posted>>
  <2>1. PICK r : Serve(r)
    BY <1>1
  <2>2. UNCHANGED answers \/ answers' = Append(answers, Answer(Element.id, r))
    BY <2>1 DEF Serve
  <2>3. AnswerType(answers')
    <3>1. CASE UNCHANGED answers
      BY <3>1 DEF AnswerType
    <3>2. CASE answers' = Append(answers, Answer(Element.id, r))
      <4>1. AnswerType(Append(answers, Answer(Element.id, r)))
        BY <1>0, TypedAnswer
      <4> QED
        BY <3>2, <4>1 DEF AnswerType
    <3> QED
      BY <2>2, <3>1, <3>2
  <2> QED
    BY <2>1, <2>3 DEF Serve
<1>2. CASE StartUp
  <2>1. UNCHANGED <<position, answers, reply, posted>>
    BY <1>2 DEF StartUp
  <2>2. requestCount' \in Nat
    <3>1. PICK k \in Nat : DOMAIN archive = 0 .. k - 1
      BY DEF ArchiveInv
    <3> QED
      BY <1>2, <3>1, NumbersGoOn DEF StartUp
  <2> QED
    BY <2>1, <2>2 DEF AnswerType
<1>3. CASE RejectFrame
  <2>1. PICK id : answers' = Append(answers, Answer(id, InvalidRequest))
    BY <1>3 DEF RejectFrame
  <2>2. AnswerType(answers')
    BY <1>0, <2>1, TypedAnswer
  <2> QED
    BY <1>3, <2>2 DEF RejectFrame, AnswerType
<1>4. CASE RejectParams \/ Finish \/ CallDies
  <2>1. (\E r : Serve(r)) /\ UNCHANGED requestCount
    BY <1>4 DEF RejectParams, Finish, CallDies
  <2> QED
    BY <1>1, <2>1 DEF AnswerType
<1>5. CASE ServeAtOnce \/ SimulateCall
  <2>1. (\E r : Serve(r)) /\ requestCount' = requestCount + 1
    BY <1>5 DEF ServeAtOnce, SimulateCall, ArchiveRequest
  <2> QED
    BY <1>1, <2>1 DEF AnswerType
<1>6. CASE Start
  BY <1>6 DEF Start, ArchiveRequest, AnswerType
<1>7. CASE Work \/ AnswerRead \/ Shutdown
  BY <1>7 DEF Work, AnswerRead, Shutdown, frontVars, AnswerType
<1>8. CASE \E b \in Bodies : Post(b)
  BY <1>0, <1>8 DEF Post, NoReply, AnswerType
<1>9. CASE SendReply
  <2>1. HttpBody.form \in {"none", "object", "array"} /\ AnswerType(HttpBody.answers)
    <3>1. \A e : AnswerType(<<Answer(NoId, e)>>)
      BY DEF AnswerType, Answer
    <3>2. AnswerType(<< >>)
      BY DEF AnswerType
    <3>3. \/ \E e : HttpBody = [form |-> "object", answers |-> <<Answer(NoId, e)>>]
          \/ HttpBody = [form |-> "none", answers |-> << >>]
          \/ \E f \in {"array", "object"} : HttpBody = [form |-> f, answers |-> answers]
      BY DEF HttpBody
    <3> QED
      BY <3>1, <3>2, <3>3
  <2>2. /\ reply'.form = HttpBody.form /\ reply'.answers = HttpBody.answers
        /\ answers' = << >> /\ position' = 0 /\ UNCHANGED <<requestCount, posted>>
    BY <1>9 DEF SendReply
  <2> QED
    BY <2>1, <2>2 DEF AnswerType
<1>10. CASE ServerDies
  BY <1>10 DEF ServerDies, NoReply, AnswerType
<1> QED
  BY <1>2, <1>3, <1>4, <1>5, <1>6, <1>7, <1>8, <1>9, <1>10 DEF RpcNext, ServerStep

\* The types of the node, the answers, the reply and the archive.
THEOREM RpcTypes == RpcSpec => []RpcTypeOK
<1>1. RpcInit => ArchiveInv /\ FrontTypeInv
  BY RpcServerAssumption
     DEF RpcInit, ArchiveInv, NoFiles, FrontTypeInv, AnswerType, NoReply
<1>2. RpcInv /\ ArchiveInv /\ FrontTypeInv /\ [RpcNext]_rpcVars => ArchiveInv' /\ FrontTypeInv'
  <2>1. ArchiveInv /\ FrontTypeInv /\ UNCHANGED rpcVars => ArchiveInv' /\ FrontTypeInv'
    BY DEF ArchiveInv, FrontTypeInv, AnswerType, rpcVars, frontVars, faultyVars, vars, nodeVars
  <2> QED
    BY <2>1, ArchiveStep, FrontTypeStep
<1>3. RpcInv /\ ArchiveInv /\ FrontTypeInv /\ FaultyTypeOK => RpcTypeOK
  BY DEF RpcInv, BodyInv, ArchiveInv, FrontTypeInv, RpcTypeOK
<1> QED
  BY <1>1, <1>2, <1>3, RpcInvariance, ServerIsFaultyNode, FaultyTypes, PTL DEF RpcSpec
=============================================================================
