----------------------------- MODULE MCFaultyNode -----------------------------
(***************************************************************************)
(* A node whose processes may die, sent a contract call, which may return   *)
(* an undecodable value and stages an event with no JSON form before one    *)
(* that has one, and a wasm upload.                                         *)
(***************************************************************************)
EXTENDS NodeClaims, NodeInvariant

CONSTANTS a, u

MCTx      == {a, u}
MCUploads == {u}
MCOpaque  == {a}
MCEmits   == [t \in MCTx |-> IF t = a THEN <<"opaque", "plain">> ELSE << >>]
=============================================================================
