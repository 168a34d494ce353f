------------------------------ MODULE StorageTtl ------------------------------
(***************************************************************************)
(* The lifetime of ledger entries.  An entry has a remaining TTL that      *)
(* falls by one with every ledger; below zero it is archived.  Nothing is  *)
(* lost: the next invocation that loads an archived entry restores it with *)
(* the value it had and the host's minimal TTL.  extend_ttl is the only    *)
(* way to move the TTL up again.                                           *)
(*                                                                         *)
(* The TTL of an entry depends on the calls that touch that entry and on   *)
(* no other entry, so one entry at a time is watched, any one: IssuerTtl,  *)
(* ProofTtl and ConfigTtl say which call of a contract touches which, and  *)
(* StorageLifetimes puts the three together.                               *)
(***************************************************************************)
EXTENDS Integers

CONSTANTS
  TTL_THRESHOLD_LEDGERS,    \* 50,000, scaled down
  TTL_EXTEND_TO_LEDGERS,    \* 500,000, scaled down
  MinTtl,                   \* remaining TTL of a new or restored entry
  Horizon                   \* bound: idle ledgers are counted up to here

ASSUME TtlAssumption ==
  /\ {TTL_THRESHOLD_LEDGERS, TTL_EXTEND_TO_LEDGERS, MinTtl, Horizon} \subseteq Nat
  /\ TTL_THRESHOLD_LEDGERS < TTL_EXTEND_TO_LEDGERS
  /\ MinTtl <= TTL_EXTEND_TO_LEDGERS
  /\ TTL_THRESHOLD_LEDGERS + 1 < Horizon

VARIABLES
  watched,    \* the entry that is looked at
  ttl,        \* its remaining TTL, or one of the two values below
  since       \* ledgers since a call last asked to extend it

entryVars == <<watched, ttl, since>>

Absent   == -2
Archived == -1

TtlInit(entry) ==
  /\ watched = entry
  /\ ttl = Absent
  /\ since = Horizon

(* The instance entry of a contract exists from its deployment on.         *)
DeployedInit(entry) ==
  /\ watched = entry
  /\ ttl = MinTtl
  /\ since = Horizon

(* What loading or first writing an entry does to its TTL.                 *)
Loaded(t) == IF t < 0 THEN MinTtl ELSE t

(* Fault: threshold and target are passed in the wrong order. *)
ExtendedSwapped(t) ==
  IF t < TTL_THRESHOLD_LEDGERS THEN TTL_THRESHOLD_LEDGERS ELSE t

(* extend_ttl(TTL_THRESHOLD_LEDGERS, TTL_EXTEND_TO_LEDGERS)                *)
Extended(t) == IF t <= TTL_THRESHOLD_LEDGERS THEN TTL_EXTEND_TO_LEDGERS ELSE t

(* An invocation that loads, extends and removes these entries.            *)
Touch(loads, extends, removes) ==
  /\ ttl' = IF watched \in removes THEN Absent
            ELSE IF watched \in extends THEN Extended(Loaded(ttl))
            ELSE IF watched \in loads THEN Loaded(ttl)
            ELSE ttl
  /\ since' = IF watched \in removes THEN Horizon
              ELSE IF watched \in extends THEN 0
              ELSE since
  /\ UNCHANGED watched

LedgerPasses ==
  /\ ttl' = IF ttl >= 0 THEN ttl - 1 ELSE ttl
  /\ since' = IF since < Horizon THEN since + 1 ELSE since
  /\ UNCHANGED watched

(* How much the contracts' extension policy guarantees: an entry that was  *)
(* touched with an extension stays live for the threshold and one ledger   *)
(* more, and an archived one has been idle for longer than that.  The      *)
(* touch may have been a no-op just above the threshold, so no slower      *)
(* cadence keeps an entry live, not even the target minus the threshold.   *)
TouchesKeepAlive ==
  ttl = Archived => since > TTL_THRESHOLD_LEDGERS + 1
===============================================================================
