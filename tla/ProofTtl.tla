------------------------------- MODULE ProofTtl -------------------------------
(***************************************************************************)
(* proof-registry with the lifetime of its entries: the calls of           *)
(* ProofRegistry together with what each does to the TTL of the instance   *)
(* and of a proof record, and the read-only calls.                         *)
(***************************************************************************)
EXTENDS ProofRegistry, StorageTtl

Instance == <<"Instance">>
Proof(p) == <<"Proof", p>>

TtlVars == <<proofVars, entryVars>>

Initial ==
  /\ Init
  /\ DeployedInit(Instance) \/ \E p \in ProofId : TtlInit(Proof(p))

initialize_ttl(caller, a, ir, pc) ==
  initialize(caller, a, ir, pc) /\ Touch({}, {Instance}, {})

register_proof_ttl(caller, p, k, a, v, e) ==
  register_proof(caller, p, k, a, v, e) /\ Touch({Instance}, {Proof(p)}, {})

(* Fault: the revocation writes the record and leaves its TTL alone. *)
RevokedUnextended(caller, p) ==
  /\ revoke_proof(caller, p) \/ admin_revoke_proof(caller, p)
  /\ Touch({Instance, Proof(p)}, {}, {})

set_revoked_ttl(caller, p) ==
  /\ revoke_proof(caller, p) \/ admin_revoke_proof(caller, p)
  /\ Touch({Instance}, {Proof(p)}, {})

approve_upgrade_ttl(caller, h, v) ==
  approve_upgrade(caller, h, v) /\ Touch({}, {Instance}, {})

revoke_upgrade_ttl(caller, h) ==
  revoke_upgrade(caller, h) /\ Touch({Instance}, {}, {})

upgrade_contract_ttl(caller, h) ==
  upgrade_contract(caller, h) /\ Touch({}, {Instance}, {})

Write(caller) ==
  \/ \E a, ir, pc \in Address : initialize_ttl(caller, a, ir, pc)
  \/ \E p \in ProofId :
       \/ \E k \in Commitment, a \in Address, v \in SchemaVersions, e \in Time :
            register_proof_ttl(caller, p, k, a, v, e)
       \/ set_revoked_ttl(caller, p)
  \/ \E h \in WasmHash, v \in ContractVersions : approve_upgrade_ttl(caller, h, v)
  \/ \E h \in WasmHash :
       revoke_upgrade_ttl(caller, h) \/ upgrade_contract_ttl(caller, h)

(* get_admin, get_issuer_registry, get_protocol_config and the reads of    *)
(* the upgrade state, and every read that finds no record.                 *)
ReadInstance == Touch({Instance}, {}, {}) /\ UNCHANGED proofVars

(* get_proof, is_valid_proof and is_revoked *)
ReadProof(p) ==
  /\ Registered(p)
  /\ Touch({Instance}, {Proof(p)}, {})
  /\ UNCHANGED proofVars

(* A ledger closes; MaxTime bounds the time stamps, not the ledgers.       *)
LedgerCloses ==
  /\ LedgerPasses
  /\ now' = IF now < MaxTime THEN now + 1 ELSE now
  /\ UNCHANGED <<wiring, proofs, upgrade, environment>>

TtlNext ==
  \/ \E caller \in Address : Write(caller)
  \/ ReadInstance
  \/ \E p \in ProofId : ReadProof(p)
  \/ EnvironmentStep /\ UNCHANGED entryVars
  \/ LedgerCloses

(* Whoever touches an archived proof pays for all of it: the record is     *)
(* back with the full TTL, by a verifier's read as by a revocation, never  *)
(* with the few ledgers a bare restoration gives.                          *)
RestoredInFull ==
  [][\A p \in ProofId : watched = Proof(p) /\ ttl = Archived /\ ttl' # Archived
       => ttl' = TTL_EXTEND_TO_LEDGERS]_TtlVars
===============================================================================
