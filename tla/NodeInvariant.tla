---------------------------- MODULE NodeInvariant ----------------------------
(***************************************************************************)
(* The inductive invariant of the node, with or without faults: what holds  *)
(* of the request in flight, of the configuration in memory and of the      *)
(* io-dir at each step.  It does not mention the fault counter, so it is    *)
(* one invariant for Spec and for FaultySpec.                               *)
(***************************************************************************)
EXTENDS FaultyNode

\* The steps at which the request in flight is a transaction whatever its path.
SendOnly == {"program", "steps", "metadata", "receipt", "respond", "attach",
             "events", "file", "wasm", "close", "fail"}

Sending == cur.method = "sendTransaction"

\* The run has been answered by the semantics: the configuration it printed is
\* about to be saved.
Answering == pc = "persist" \/ (pc = "exit" /\ response # "none")

\* The request in flight.
RequestInv ==
  /\ pc \notin Booting => latest \in Nat
  /\ pc \in Booting \cup {"idle"} => cur = NoRequest
  /\ pc \notin Booting \cup {"idle"} => cur.method # "none"
  /\ pc \in SendOnly => Sending
  /\ pc \in {"program", "wasm"} => cur.tx \in Uploads
  /\ Sending => cur.tx \in Tx /\ cur.now \in Times
  /\ ~Sending => cur.tx = NoTx

\* A transaction runs only if it has no receipt; the server's is_duplicate and
\* the semantics' own test agree.
FreshnessInv ==
  /\ pc \in {"launch", "dispatch"} /\ Sending => (cur.dup <=> HasReceipt(cur.tx))
  /\ pc \in {"program", "steps", "metadata", "receipt"} =>
       ~cur.dup /\ ~HasReceipt(cur.tx)
  /\ pc = "fail" \/ (pc = "exit" /\ response = "none" /\ Sending) =>
       ~cur.dup /\ ~HasReceipt(cur.tx)

\* response.json is that of this run, and it tells a duplicate from a commit.
ResponseInv ==
  /\ pc \in {"program", "dispatch", "steps", "metadata", "receipt", "respond"} =>
       response = "none"
  /\ (Answering \/ pc \in {"attach", "events", "file", "wasm", "close"}) /\ Sending =>
       /\ cur.dup => response = "DUPLICATE"
       /\ ~cur.dup => response = "PENDING"
  /\ pc \in {"respond", "attach"} => ~cur.dup

\* What the interpreter has done to the world so far.
ConfigInv ==
  /\ pc \in {"dispatch", "program"} =>
       config.txs = IF pc = "dispatch" /\ InjectsProgram(cur)
                      THEN Append(World, cur.tx) ELSE World
  /\ pc = "steps" =>
       config.txs = IF cur.tx \in Uploads THEN Append(World, cur.tx) ELSE World
  /\ pc \in {"metadata", "receipt", "respond"} => config.txs = Append(World, cur.tx)
  /\ Answering => config.txs = IF Sending /\ ~cur.dup
                                 THEN Append(World, cur.tx) ELSE World

\* The receipt of the transaction being committed is the youngest.
CommitInv ==
  /\ pc \in {"receipt", "respond"} \/ (Answering /\ Sending /\ ~cur.dup) =>
       \A i \in 1 .. Len(World) : receipts[World[i]].ledger < latest
  /\ pc = "respond" \/ (Answering /\ Sending /\ ~cur.dup) =>
       Succeeded(cur.tx) /\ receipts[cur.tx].ledger = latest
  /\ pc \in {"respond", "attach"} \/ (Answering /\ Sending /\ ~cur.dup) =>
       receipts[cur.tx].result = "returnValue"
  /\ pc \in {"attach", "events", "file", "wasm", "close"} /\ ~cur.dup =>
       Succeeded(cur.tx) /\ cur.tx \in Applied

\* An io-dir whose state.kore was never written has an empty world.
BootInv ==
  stateKore.file = "absent" \/ pc \in {"seeding", "seeded"} => World = << >>

\* An acknowledged transaction is in the last configuration written, torn file
\* or not: AckedIsDurable alone would not survive the next rewrite.
AckedInv == \A t \in acked : Failed(t) \/ (Succeeded(t) /\ t \in Applied)

NodeInv ==
  /\ TypeOK
  /\ RequestInv
  /\ FreshnessInv
  /\ ResponseInv
  /\ ConfigInv
  /\ CommitInv
  /\ BootInv
  /\ WorldFollowsLedgers
  /\ AckedInv
=============================================================================
