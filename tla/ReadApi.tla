------------------------------- MODULE ReadApi -------------------------------
(***************************************************************************)
(* What the paginated read methods compute from the io-dir: getTransactions *)
(* and getLedgers from the ledger records, getEvents from the event files.  *)
(*                                                                         *)
(* A page is the set of the records returned; the code lists them in the    *)
(* order of their ledgers, and of their ids within one.  Records are named  *)
(* by their ledger, events by their id.  What a client's filters select is  *)
(* abstracted to the transactions whose events they let through.            *)
(***************************************************************************)
EXTENDS ChainStore, FiniteSets

CONSTANTS
  LedgerUnit,   \* 2^32: a ledger in a TOID
  OrderUnit     \* 2^12: an application order in a TOID

ASSUME ToidAssumption ==
  /\ LedgerUnit \in Nat /\ OrderUnit \in Nat
  /\ 0 < OrderUnit /\ OrderUnit < LedgerUnit

NoCursor == -1

\* The one transaction of a ledger has application order 1.
Toid(ledger) == ledger * LedgerUnit + OrderUnit

LastOf(S) == CHOOSE n \in S : \A m \in S : m <= n

\* A page in the order it is listed: the i-th has i - 1 others before it.
InLedgerOrder(page) ==
  [i \in 1 .. Cardinality(page) |->
     CHOOSE n \in page : Cardinality({m \in page : m < n}) = i - 1]

-----------------------------------------------------------------------------
(* getTransactions and getLedgers.                                          *)

\* #txInfos, #ledgerInfos: the first `limit` ledgers from start that have an
\* index file; the ones without are skipped.
HistoryPage(start, limit) ==
  LET indexed == {n \in start .. latest : n \in DOMAIN ledgers}
  IN  {n \in indexed : Cardinality({m \in indexed : m < n}) < limit}

\* The cursor that names the record of a ledger: a TOID for getTransactions, the
\* sequence itself for getLedgers (multiplier 1, offset 0).
RecordCursor(method, ledger) ==
  IF method = "getTransactions" THEN Toid(ledger) ELSE ledger

PageCursorOfNext(method, page, limit) ==
  IF Cardinality(page) = limit THEN RecordCursor(method, LastOf(page) + 1)
  ELSE NoCursor

\* #pageCursor: the last record of a full page.
PageCursor(method, page, limit) ==
  IF Cardinality(page) = limit THEN RecordCursor(method, LastOf(page)) ELSE NoCursor

CursorPosition(method, cursor) ==
  IF method = "getTransactions" THEN cursor \div LedgerUnit ELSE cursor

\* _history_envelope: the next page starts one ledger on.
StartAfter(method, cursor) == CursorPosition(method, cursor) + 1

\* startLedger without a cursor: 0 stands for the oldest ledger.
StartAllowed(start) == start = 0 \/ start \in 0 .. latest

-----------------------------------------------------------------------------
(* getEvents.                                                               *)

\* Ids are fixed-width decimal strings: their order is that of their numbers.
EventId(ledger, event) == [toid |-> Toid(ledger), index |-> event.index]

IdAfter(x, y) == x.toid > y.toid \/ (x.toid = y.toid /\ x.index > y.index)

NoId == [toid |-> -1, index |-> 0]

LedgerCursor(ledger) == [toid |-> ledger * LedgerUnit, index |-> 0]

CursorLedger(cursor) == cursor.toid \div LedgerUnit

\* #matchingEvents: those of ledgers start .. end - 1 that come after the
\* cursor and pass the filters.
MatchingEvents(start, end, after, wanted) ==
  LET window == (start .. end - 1) \cap DOMAIN events
      passing(n) == {EventId(n, e) : e \in {x \in events[n] : x.origin \in wanted}}
  IN  {id \in UNION {passing(n) : n \in window} : IdAfter(id, after)}

\* #takeJSONs
FirstEvents(limit, matched) ==
  {x \in matched : Cardinality({y \in matched : IdAfter(x, y)}) < limit}

InIdOrder(page) ==
  [i \in 1 .. Cardinality(page) |->
     CHOOSE x \in page : Cardinality({y \in page : IdAfter(x, y)}) = i - 1]

LastEventId(S) == CHOOSE x \in S : \A y \in S : x = y \/ IdAfter(x, y)

CursorOfLastMatch(matched, limit, end) ==
  IF Cardinality(matched) <= limit THEN LedgerCursor(end)
  ELSE LastEventId(matched)

\* #eventsPageCursor: just past the window once all of it was returned.
EventsPageCursor(matched, limit, end) ==
  IF Cardinality(matched) <= limit THEN LedgerCursor(end)
  ELSE LastEventId(FirstEvents(limit, matched))

\* #scanEnd: the window never reaches past the latest ledger.
ScanEnd(endLedger) ==
  IF endLedger = NoCursor \/ endLedger > latest + 1 THEN latest + 1 ELSE endLedger
=============================================================================
