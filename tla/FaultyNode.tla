----------------------------- MODULE FaultyNode -----------------------------
(***************************************************************************)
(* The komet node of module KometNode when the processes may die.           *)
(*                                                                         *)
(* Crash: the server process is stopped, with the interpreter it runs, at   *)
(* any step: the io-dir is all that is left, and the next start resumes     *)
(* from it.  InterpreterDies: the interpreter alone is killed, as by the    *)
(* OOM killer, which surfaces as a NodeInterpreterError and ends the        *)
(* request with an internal error.                                          *)
(***************************************************************************)
EXTENDS KometNode

CONSTANT
  MaxFaults    \* bound: how many times a process may die

ASSUME MaxFaultsAssumption == MaxFaults \in Nat

VARIABLE faults

faultyVars == <<vars, faults>>

FaultyTypeOK == TypeOK /\ faults \in Nat

Fault ==
  /\ faults < MaxFaults
  /\ faults' = faults + 1

\* A partial write other than that of state.kore is not modelled: the other
\* files are small enough to be written by one call.
Crash ==
  /\ pc # "down"
  /\ Fault
  /\ pc' = "down"
  /\ cur' = NoRequest
  /\ config' = EmptyConfig
  /\ UNCHANGED <<storeVars, acked>>

\* run_process_2(check=True) raises before response.json is looked at.
InterpreterDies ==
  /\ pc \in InK
  /\ Fault
  /\ Reply
  /\ UNCHANGED <<storeVars, acked>>

LaunchRetries ==
  /\ pc = "launch"
  /\ stateKore.file # "whole"
  /\ UNCHANGED faultyVars

\* No configuration can be read from the torn state.kore a death left behind:
\* the splice or the interpreter fails and the client gets an internal error.
LaunchFails ==
  /\ pc = "launch"
  /\ stateKore.file # "whole"
  /\ UnlinkResponse
  /\ Reply
  /\ UNCHANGED <<stateKore, latest, chainFiles, staged, acked, faults>>

\* The same of a simulation, which stages nothing then.
SimulationFails ==
  /\ pc = "idle"
  /\ stateKore.file # "whole"
  /\ UnlinkResponse
  /\ UNCHANGED <<stateKore, latest, chainFiles, staged, pc, cur, config, acked,
                 faults>>

FaultyInit == Init /\ faults = 0

FaultyNext ==
  \/ Next /\ UNCHANGED faults
  \/ LaunchFails
  \/ SimulationFails
  \/ Crash
  \/ InterpreterDies

FaultySpec == FaultyInit /\ [][FaultyNext]_faultyVars

FairStep == ((Boot \/ Serving) /\ UNCHANGED faults) \/ LaunchFails

FirstSubmission(t) ==
  /\ ~HasReceipt(t)
  /\ \E now \in Times : SubmitTx(t, now)
  /\ UNCHANGED faults

(* Fairness.  The server runs to the end what it began, and the interpreter  *)
(* terminates.  Clients owe the node nothing; RetryingSpec is about one that *)
(* submits its transactions again as long as they have no receipt.           *)
FairSpec == FaultySpec /\ WF_faultyVars(FairStep)

RetryingSpec ==
  FairSpec /\ \A t \in Tx : SF_faultyVars(FirstSubmission(t))

-----------------------------------------------------------------------------
(* Properties.                                                              *)

\* A node that may die half way decides each transaction at most once: it may
\* lose one, it never applies one twice, nor one it rejected.
ImplementsLossyTxLog == Log!LossySpec

\* Whatever happens to the processes, the server comes back to where it takes
\* requests: none holds it for ever.
Answered == pc # "idle" ~> pc = "idle"

\* A client that retries gets its transaction decided, whatever a run that was
\* killed left in the io-dir, unless that is a state.kore torn for good (it is
\* torn for a moment whenever it is rewritten).
RetriedIsDecided ==
  \A t \in Tx : <>HasReceipt(t) \/ <>[](stateKore.file = "torn")
=============================================================================
