----------------------------- MODULE ScriptRetry -----------------------------
(***************************************************************************)
(* Invoke-WithRetry, which the deployment and the upgrade script share.  A *)
(* command is one transaction.  Its answer may get lost after the          *)
(* transaction took effect, or the transaction may never have been sent;   *)
(* both look like a retryable RPC error.  Any other error is final: a      *)
(* rejection by the contract, a refused fee, an output that the script     *)
(* cannot read.  All transactions of a script use one source account,      *)
(* whose sequence number keeps a lost transaction from taking effect after *)
(* a later one did.                                                        *)
(***************************************************************************)
EXTENDS Naturals, Shared

CONSTANT MaxRetries

ASSUME RetriesAssumption == MaxRetries \in Nat \ {0}

VARIABLES
  step,      \* the command the script is at, "done" or "failed"
  attempt    \* $attempt

scriptVars == <<step, attempt>>

ScriptInit(first) == step = first /\ attempt = 1

(* The function returns, or throws. *)
Advance(next) == step' = next /\ attempt' = 1

(* Fault: at the limit the count starts over. *)
AgainForever ==
  /\ attempt' = IF attempt >= MaxRetries THEN 1 ELSE attempt + 1
  /\ UNCHANGED step

Again ==
  \/ attempt >= MaxRetries /\ Advance("failed")
  \/ attempt < MaxRetries /\ attempt' = attempt + 1 /\ UNCHANGED step

(* Takes is the transaction's effect, Idle says that nothing changes.      *)
Invoke_WithRetry(result, Takes, Idle, next) ==
  \/ result = Ok /\ Takes /\ (Advance(next) \/ Again)
  \/ Idle /\ (Again \/ Advance("failed"))

Ended == step \in {"done", "failed"}
===============================================================================
