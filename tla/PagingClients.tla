---------------------------- MODULE PagingClients ----------------------------
(***************************************************************************)
(* A client that pages through the history of a node while it goes on       *)
(* closing ledgers.  It walks getTransactions, getLedgers or getEvents, each *)
(* page from the cursor the page before gave it.                            *)
(*                                                                         *)
(* A read-only request is a whole run of the node (SubmitRead), but it sees *)
(* the io-dir of one moment, since the server takes no other request before *)
(* it is answered; here it is one step.                                     *)
(***************************************************************************)
EXTENDS KometNode, ReadApi

CONSTANTS
  Limits,       \* the page sizes clients ask for
  Starts,       \* the startLedgers of the first getEvents request
  EndLedgers,   \* the endLedgers a getEvents window may have, or NoCursor
  Wanted        \* the transactions whose events the filters let through

ASSUME PagingAssumption ==
  /\ Limits \subseteq Nat \ {0}
  /\ Starts \subseteq Nat \ {0}
  /\ EndLedgers \subseteq Nat \cup {NoCursor}
  /\ Wanted \subseteq Tx

VARIABLES
  method,   \* what the client calls
  cursor,   \* the cursor of the page before; NoCursor, NoId when it has none
  start,    \* the startLedger to ask for without a cursor
  seen      \* history: what the client got, in the order it got it

readerVars == <<method, cursor, start, seen>>
pagingVars == <<vars, readerVars>>

HistoryMethods == {"getTransactions", "getLedgers"}

PagingTypeOK ==
  /\ TypeOK
  /\ method \in HistoryMethods \cup {"getEvents"}
  /\ method \in HistoryMethods =>
       cursor \in Nat \cup {NoCursor} /\ start \in Nat /\ seen \in Seq(Nat)
  /\ method = "getEvents" => cursor = NoId \/ (cursor.toid \in Nat /\ cursor.index \in Nat)

PagingInit ==
  /\ Init
  /\ \/ method \in HistoryMethods /\ cursor = NoCursor /\ start = 0
     \/ method = "getEvents" /\ cursor = NoId /\ start \in Starts
  /\ seen = << >>

-----------------------------------------------------------------------------

\* The node can serve a read.
Serves == pc = "idle" /\ stateKore.file = "whole"

\* The first ledger of the next history page.
HistoryPosition == IF cursor = NoCursor THEN start ELSE StartAfter(method, cursor)

\* A request without a cursor is refused when its startLedger is not closed yet.
\* After a page that was not full, which has no cursor, the client asks for
\* the ledgers after the last it saw.
PageHistory(limit) ==
  /\ Serves
  /\ method \in HistoryMethods
  /\ cursor = NoCursor => StartAllowed(start)
  /\ LET page == HistoryPage(HistoryPosition, limit)
     IN  /\ cursor' = PageCursor(method, page, limit)
         /\ start' = IF page = {} THEN HistoryPosition ELSE LastOf(page) + 1
         /\ seen' = seen \o InLedgerOrder(page)
  /\ UNCHANGED <<vars, method>>

\* The first request asks for a window, whose first ledger has to exist; the
\* others resume at the cursor and can name none.
WindowAllowed(endLedger) ==
  IF cursor = NoId THEN start <= latest ELSE endLedger = NoCursor

PageEvents(limit, endLedger) ==
  /\ Serves
  /\ method = "getEvents"
  /\ WindowAllowed(endLedger)
  /\ LET from    == IF cursor = NoId THEN start ELSE CursorLedger(cursor)
         end     == ScanEnd(endLedger)
         matched == MatchingEvents(from, end, cursor, Wanted)
     IN  /\ cursor' = EventsPageCursor(matched, limit, end)
         /\ seen' = seen \o InIdOrder(FirstEvents(limit, matched))
  /\ UNCHANGED <<vars, method, start>>

PagingNext ==
  \/ Next /\ UNCHANGED readerVars
  \/ \E limit \in Limits : PageHistory(limit)
  \/ \E limit \in Limits, end \in EndLedgers : PageEvents(limit, end)

PagingSpec == PagingInit /\ [][PagingNext]_pagingVars

-----------------------------------------------------------------------------
(* Properties.                                                              *)

\* The ledgers whose transaction committed and was post-processed to the end.
FinishedLedgers ==
  {receipts[t].ledger :
     t \in {x \in Tx : Succeeded(x) /\ receipts[x].result = "resultXdr"}}

\* However the pages are cut and whatever commits between two of them, a client
\* that walks getTransactions or getLedgers by its cursors gets each ledger once
\* and in order, and passes none of a finished transaction without getting it.
HistoryExactlyOnce ==
  method \in HistoryMethods =>
    /\ \A i, j \in 1 .. Len(seen) : i < j => seen[i] < seen[j]
    /\ Serves => \A n \in FinishedLedgers :
                   n < HistoryPosition => \E i \in 1 .. Len(seen) : seen[i] = n

\* A client that walks getEvents by its cursors, from a window that may be
\* smaller than the chain, gets each event its filters let through once and in
\* the order of the ids, and its cursor is past none it did not get.
EventsExactlyOnce ==
  method = "getEvents" =>
    /\ \A i, j \in 1 .. Len(seen) : i < j => IdAfter(seen[j], seen[i])
    /\ \A n \in DOMAIN events : \A e \in events[n] :
         n >= start /\ e.origin \in Wanted /\ ~IdAfter(EventId(n, e), cursor) =>
           \E i \in 1 .. Len(seen) : seen[i] = EventId(n, e)

\* "getEvents returns the contract events emitted in a ledger window,
\* startLedger (inclusive) to endLedger (exclusive)" (docs/server.md:278): the
\* client gets none from before the startLedger it asked for.  The code does
\* not keep this; a run of its own refutes it.
EventsFromStart ==
  method = "getEvents" =>
    \A i \in 1 .. Len(seen) : seen[i].toid >= Toid(start)
=============================================================================
