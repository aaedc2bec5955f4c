----------------------------- MODULE NodeClaims -----------------------------
(***************************************************************************)
(* What the documentation and the comments say of the io-dir that the code  *)
(* does not keep.  Each is refuted by a run of its own; the README tells    *)
(* the counterexamples.                                                     *)
(***************************************************************************)
EXTENDS FaultyNode

\* "Failed transactions never close a ledger, so they do not appear in the
\* history" (docs/server.md:225), which is the "ledger->transaction index" of
\* docs/architecture.md:100: ledger n's record names the transaction that
\* closed ledger n.
HistoryFollowsReceipts ==
  \A n \in DOMAIN ledgers :
    /\ Succeeded(ledgers[n].txHash)
    /\ receipts[ledgers[n].txHash].ledger = n

\* "It runs after setLedgerSequence so the sequence it reports is this
\* transaction's, not the previous one's" (kdist/node.md:469-470): the
\* sequence in a transaction's trace is the ledger in its receipt.
BaselineSequenceIsOwn ==
  \A i \in 1 .. Len(World) :
    traces[World[i]].sequence = receipts[World[i]].ledger

\* "The server can be stopped and restarted without losing the world state"
\* (docs/server.md:98): a node that closed a ledger and is back to serving has a
\* state.kore to serve from.
WorldSurvivesRestart == pc = "idle" /\ latest > 0 => stateKore.file = "whole"

\* "returnValue never reaches an RPC client" (kdist/node.md:583), whom the
\* stored receipt is served to as it is.
ReturnValueStaysInternal == NoReturnValueLeft

\* "before any step runs" (README.md:167, docs/node-semantics.md:207) and "any
\* `setAccount`, upload or deploy among those steps is a change on top of this
\* baseline" (kdist/node.md:471): whatever a run has done to the world, the
\* trace of its transaction was opened before.
TraceOpensFirst == pc \in InK /\ config.txs # World => cur.tx \in DOMAIN traces
=============================================================================
