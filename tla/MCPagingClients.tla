---------------------------- MODULE MCPagingClients ----------------------------
(***************************************************************************)
(* Three transactions, so that a page can end before, at and after the last *)
(* ledger; one of them emits two events, so that a page can end inside a    *)
(* ledger, and the events of one are filtered out.                          *)
(***************************************************************************)
EXTENDS PagingClients

CONSTANTS a, b, c

MCTx     == {a, b, c}
MCWanted == {a, b}
MCEmits  == [t \in MCTx |-> IF t = a THEN <<"plain", "plain">> ELSE <<"plain">>]

MCEndLedgers == {NoCursor, 1, 2}
=============================================================================
