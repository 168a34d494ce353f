------------------------------- MODULE Shared -------------------------------
(***************************************************************************)
(* packages/shared: the address rule, the status enumerations and the      *)
(* error catalogue that the three EarnProof contracts have in common.      *)
(*                                                                         *)
(* An invocation of a contract is one atomic step: Soroban runs the        *)
(* transactions of a ledger one after the other, and an Err, a panic or a  *)
(* trap rolls back everything the invocation wrote.  Every entry point f   *)
(* is therefore written as two definitions:                                *)
(*   - fResult(...), the value the call returns in the current state, with *)
(*     the checks in the order in which the code makes them, and           *)
(*   - the action f(...), enabled when fResult(...) = Ok, with its writes. *)
(* A rejected call is a stuttering step.                                   *)
(*                                                                         *)
(* Every entry point asks for the authorisation of at most one address, so *)
(* an invocation carries one authorising address, called "caller".         *)
(*                                                                         *)
(* Two effects of the handlers are left to modules of their own, because  *)
(* no contract reads them: published events (EventStream and the modules   *)
(* that extend it) and extend_ttl (StorageTtl and the modules that extend  *)
(* it).  An entry whose TTL ran out is archived, not deleted: the next     *)
(* invocation that loads it restores it with the value it had.  So         *)
(* archival changes what a call costs, never what it does.                 *)
(***************************************************************************)

CONSTANTS
  Address,             \* account (G...) and contract (C...) addresses
  InvalidPrincipals,   \* those with a malformed or an all-zero strkey
  NoAddress            \* reads of an absent Address entry

ASSUME AddressAssumption ==
  /\ InvalidPrincipals \subseteq Address
  /\ NoAddress \notin Address

(* The only addresses the contracts refuse by themselves.                  *)
is_valid_principal_address(a) == a \notin InvalidPrincipals

IssuerStatus == {"Active", "Suspended", "Revoked"}
ProofStatus  == {"Active", "Revoked"}

Ok        == "Ok"
AuthAbort == "HostAuthError"   \* require_auth fails: the host aborts

(* ERROR_CATALOG: the returned codes whose entry says Retry::Never.        *)
NeverCodes ==
  {"AlreadyInitialized", "IssuerAlreadyRegistered",
   "IssuerAddressAlreadyRegistered", "IssuerRevoked", "InvalidTransition",
   "ProofAlreadyRegistered", "ProofAlreadyRevoked"}
=============================================================================
