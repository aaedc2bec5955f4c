----------------------------- MODULE MCKometNode -----------------------------
(***************************************************************************)
(* A node sent two contract calls, of which one may return an undecodable   *)
(* value and stages an event with no JSON form before one that has one, and *)
(* a wasm upload.                                                           *)
(***************************************************************************)
EXTENDS KometNode

CONSTANTS a, b, u

MCTx      == {a, b, u}
MCUploads == {u}
MCOpaque  == {a}
MCEmits   == [t \in MCTx |-> IF t = a THEN <<"opaque", "plain">> ELSE << >>]
=============================================================================
