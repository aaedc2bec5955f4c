------------------------------ MODULE RpcClaims ------------------------------
(***************************************************************************)
(* What the documentation says of the RPC methods that the code does not    *)
(* keep, to be refuted on a node whose processes do not die.                *)
(***************************************************************************)
EXTENDS RpcServer

\* "Keys that do not resolve (unknown, or of an untracked type) are not an
\* error; they are simply absent from `entries`" (docs/server.md:261): a request
\* whose keys are all well-formed ledger keys, and not too many, is answered
\* with entries.
UnresolvedKeysAreAbsent ==
  \A i \in DOMAIN answers :
    LET call == CallOf(answers[i])
    IN  /\ call.method = "getLedgerEntries"
        /\ call.valid
        /\ Len(call.keys) <= KeyLimit
        /\ \A j \in DOMAIN call.keys : call.keys[j].type # "garbage"
        => answers[i].result # InternalError
=============================================================================
