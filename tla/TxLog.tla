------------------------------- MODULE TxLog -------------------------------
(***************************************************************************)
(* What a node promises the clients that send it transactions: each         *)
(* transaction is decided once, atomically.  It is committed at the end of  *)
(* the log or it is rejected, and submitting it again changes nothing.      *)
(*                                                                         *)
(* LossySpec is the weaker promise of a node that may die half way: a       *)
(* transaction may also be lost, that is decided without ever having an     *)
(* effect; it is still never applied twice nor reordered.                   *)
(***************************************************************************)
EXTENDS Integers, Sequences

CONSTANT Tx

VARIABLES
  log,       \* the committed transactions, in the order of their ledgers
  rejected,  \* the transactions that failed
  lost       \* the transactions that can no longer be committed nor rejected

logVars == <<log, rejected, lost>>

InLog(t)     == \E i \in 1 .. Len(log) : log[i] = t
Undecided(t) == ~InLog(t) /\ t \notin rejected \cup lost

Init ==
  /\ log = << >>
  /\ rejected = {}
  /\ lost = {}

Commit(t) ==
  /\ Undecided(t)
  /\ log' = Append(log, t)
  /\ UNCHANGED <<rejected, lost>>

Reject(t) ==
  /\ Undecided(t)
  /\ rejected' = rejected \cup {t}
  /\ UNCHANGED <<log, lost>>

Lose(t) ==
  /\ Undecided(t)
  /\ lost' = lost \cup {t}
  /\ UNCHANGED <<log, rejected>>

Next == \E t \in Tx : Commit(t) \/ Reject(t)

LossyNext == Next \/ \E t \in Tx : Lose(t)

Spec      == Init /\ [][Next]_logVars
LossySpec == Init /\ [][LossyNext]_logVars
=============================================================================
