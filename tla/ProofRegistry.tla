---------------------------- MODULE ProofRegistry ----------------------------
(***************************************************************************)
(* contracts/proof-registry: proof records and their lifecycle.            *)
(*                                                                         *)
(* register_proof reads two other contracts in the middle of its checks,   *)
(* whichever contracts are at the addresses that initialize stored.  What  *)
(* those reads answer is this module's environment: the variables paused,  *)
(* approved and active, which change freely here; the composed system      *)
(* (EarnProof) says whose answers they are.                                *)
(***************************************************************************)
EXTENDS UpgradeGovernance

CONSTANTS
  ProofId,           \* proof_id_hash
  Commitment,        \* commitment_hash
  NoProof,           \* reads of an absent Proof entry
  ProofContract,     \* env.current_contract_address()
  IssuerContract,    \* where the issuer registry is deployed
  ConfigContract,    \* where the protocol config is deployed
  IssuerServers,     \* the addresses at which a contract answers
                     \* is_active_address, and
  ConfigServers,     \* those at which one answers is_paused and
                     \* is_schema_version_approved: the deployed contract,
                     \* a second instance, a mock or a look-alike
  Candidates,        \* bound: the addresses that may be active issuers
  MaxSchema,         \* the largest schema version that callers name
  MaxTime            \* u64::MAX of timestamps, scaled down

Time == 0 .. MaxTime
SchemaVersions == 0 .. MaxSchema

ProofRecord ==
  [commitment_hash : Commitment, issuer_address : Address,
   status : ProofStatus, schema_version : SchemaVersions,
   expires_at : Time, created_at : Time, revoked_at : Time]

ASSUME ProofAssumption ==
  /\ NoProof \notin ProofRecord
  /\ {ProofContract, IssuerContract, ConfigContract} \subseteq Address
  /\ ProofContract # IssuerContract
  /\ ProofContract # ConfigContract
  /\ IssuerContract # ConfigContract
  /\ IssuerContract \in IssuerServers
  /\ IssuerServers \subseteq Address \ {ProofContract, ConfigContract}
  /\ ConfigContract \in ConfigServers
  /\ ConfigServers \subseteq Address \ {ProofContract, IssuerContract}
  /\ Candidates \subseteq Address
  /\ MaxSchema \in Nat
  /\ MaxTime \in Nat

VARIABLES
  issuerRegistry,    \* DataKey::IssuerRegistry, NoAddress when absent
  protocolConfig,    \* DataKey::ProtocolConfig, NoAddress when absent
  proofs,            \* DataKey::Proof(id)
  now,               \* env.ledger().timestamp()
  paused,            \* at protocolConfig: is_paused()
  approved,          \* at protocolConfig: v with is_schema_version_approved(v)
  active             \* at issuerRegistry: a with is_active_address(a)

wiring == <<admin, issuerRegistry, protocolConfig>>
environment == <<paused, approved, active>>
proofVars == <<wiring, proofs, now, upgrade, environment>>

Init ==
  /\ UpgradeInit
  /\ issuerRegistry = NoAddress
  /\ protocolConfig = NoAddress
  /\ proofs = [p \in ProofId |-> NoProof]
  /\ now \in Time
  /\ paused = FALSE
  /\ approved = {}
  /\ active = {}

Registered(p) == proofs[p] # NoProof

(* Fault: the expiry is not looked at. *)
UnexpiringProof(p) == Registered(p) /\ proofs[p].status = "Active"

is_valid_proof(p) ==
  /\ Registered(p)
  /\ proofs[p].status = "Active"
  /\ now <= proofs[p].expires_at

is_revoked(p) == Registered(p) /\ proofs[p].status = "Revoked"

(***************************************************************************)
(* Entry points.  Definitions marked "Fault" are deliberately wrong        *)
(* variants of the definition that follows: each must break a property.    *)
(***************************************************************************)
validate_dependency_addresses(ir, pc) ==
  /\ is_valid_principal_address(ir)
  /\ is_valid_principal_address(pc)
  /\ ir # ProofContract
  /\ pc # ProofContract
  /\ ir # pc

InitializeResult(caller, a, ir, pc) ==
  IF admin # NoAddress THEN "AlreadyInitialized"
  ELSE IF ~ is_valid_principal_address(a) THEN "InvalidInput"
  ELSE IF ~ validate_dependency_addresses(ir, pc) THEN "InvalidInput"
  ELSE IF caller # a THEN AuthAbort
  ELSE Ok

(* The answers to the three reads become any answers; nobody is ever asked *)
(* about version 0, which register_proof refuses itself.                   *)
AnswersChange ==
  /\ paused' \in BOOLEAN
  /\ approved' \in SUBSET (SchemaVersions \ {0})
  /\ active' \in SUBSET Candidates

(* The addresses decide who is asked from now on.                          *)
initialize(caller, a, ir, pc) ==
  /\ InitializeResult(caller, a, ir, pc) = Ok
  /\ admin' = a
  /\ issuerRegistry' = ir
  /\ protocolConfig' = pc
  /\ upgrade' = FirstVersion
  /\ UNCHANGED <<proofs, now>>
  /\ AnswersChange

(* A read traps at an address where nothing answers it: an account, or a   *)
(* contract without that function.  A contract that has the function is    *)
(* believed, whoever deployed it.                                          *)
(* Fault: a failed read counts as an answer. *)
UnreachableIgnored == FALSE

ConfigUnreachable == protocolConfig \notin ConfigServers
IssuersUnreachable == issuerRegistry \notin IssuerServers

(* Fault: a proof may be registered again once it is revoked. *)
DuplicateUnlessRevoked(p) == Registered(p) /\ proofs[p].status # "Revoked"

Duplicate(p) == Registered(p)

(* Fault: the lower bound of the expiry is not exclusive. *)
ExpiredStrictly(e) == e < now

(* Fault: a proof has to live for more than one ledger. *)
ExpiresSoon(e) == e <= now + 1

AlreadyExpired(e) == e <= now

RegisterProofResult(caller, p, a, v, e) ==
  IF ~ is_valid_principal_address(a) THEN "InvalidProofAddress"
  ELSE IF NoAddress \in {protocolConfig, issuerRegistry} THEN "ProofNotFound"
  ELSE IF a \in {ProofContract, protocolConfig, issuerRegistry}
       THEN "InvalidProofAddress"
  ELSE IF caller # a THEN AuthAbort
  ELSE IF v = 0 THEN "InvalidSchemaVersion"
  ELSE IF AlreadyExpired(e) THEN "ProofExpired"
  ELSE IF ConfigUnreachable THEN "trap: no protocol config"
  ELSE IF paused THEN "InvalidSchemaVersion"
  ELSE IF v \notin approved THEN "SchemaVersionNotApproved"
  ELSE IF IssuersUnreachable THEN "trap: no issuer registry"
  ELSE IF a \notin active THEN "InvalidSchemaVersion"
  ELSE IF Duplicate(p) THEN "ProofAlreadyRegistered"
  ELSE Ok

register_proof(caller, p, k, a, v, e) ==
  /\ RegisterProofResult(caller, p, a, v, e) = Ok
  /\ proofs' = [proofs EXCEPT ![p] =
       [commitment_hash |-> k, issuer_address |-> a, status |-> "Active",
        schema_version |-> v, expires_at |-> e, created_at |-> now,
        revoked_at |-> 0]]
  /\ UNCHANGED <<wiring, now, upgrade, environment>>

(* Fault: revocation waits for the pause to be lifted. *)
PausedRevokerResult(caller, p, revoker) ==
  IF ~ Registered(p) THEN "ProofNotFound"
  ELSE IF caller # revoker THEN AuthAbort
  ELSE IF paused THEN "InvalidSchemaVersion"
  ELSE IF proofs[p].status = "Revoked" THEN "ProofAlreadyRevoked"
  ELSE Ok

(* set_revoked, with the address that has to authorise: the admin or the   *)
(* issuer address of the record.                                           *)
SetRevokedResult(caller, p, revoker) ==
  IF ~ Registered(p) THEN "ProofNotFound"
  ELSE IF revoker = NoAddress THEN "ProofNotFound"
  ELSE IF caller # revoker THEN AuthAbort
  ELSE IF proofs[p].status = "Revoked" THEN "ProofAlreadyRevoked"
  ELSE Ok

RevokeProofResult(caller, p) ==
  IF ~ Registered(p) THEN "ProofNotFound"
  ELSE SetRevokedResult(caller, p, proofs[p].issuer_address)

AdminRevokeProofResult(caller, p) == SetRevokedResult(caller, p, admin)

(* Fault: the time of revocation is not recorded. *)
RevokedWithoutTime(p) == [proofs EXCEPT ![p].status = "Revoked"]

(* Fault: the revocation is dated with the ledger after this one. *)
RevokedNextLedger(p) ==
  [proofs EXCEPT ![p].status = "Revoked", ![p].revoked_at = now + 1]

RevokedRecord(p) ==
  [proofs EXCEPT ![p].status = "Revoked", ![p].revoked_at = now]

revoke_proof(caller, p) ==
  /\ RevokeProofResult(caller, p) = Ok
  /\ proofs' = RevokedRecord(p)
  /\ UNCHANGED <<wiring, now, upgrade, environment>>

admin_revoke_proof(caller, p) ==
  /\ AdminRevokeProofResult(caller, p) = Ok
  /\ proofs' = RevokedRecord(p)
  /\ UNCHANGED <<wiring, now, upgrade, environment>>

unaffectedByUpgrade == <<issuerRegistry, protocolConfig, proofs, now, environment>>

approve_upgrade(caller, h, v) ==
  ApproveUpgrade(caller, h, v) /\ UNCHANGED unaffectedByUpgrade

revoke_upgrade(caller, h) ==
  RevokeUpgrade(caller, h) /\ UNCHANGED unaffectedByUpgrade

upgrade_contract(caller, h) ==
  UpgradeContract(caller, h) /\ UNCHANGED unaffectedByUpgrade

ProofCall(caller) ==
  \/ \E a, ir, pc \in Address : initialize(caller, a, ir, pc)
  \/ \E p \in ProofId :
       \/ \E k \in Commitment, a \in Address, v \in SchemaVersions, e \in Time :
            register_proof(caller, p, k, a, v, e)
       \/ revoke_proof(caller, p)
       \/ admin_revoke_proof(caller, p)

UpgradeCall(caller) ==
  \E h \in WasmHash :
    \/ \E v \in ContractVersions : approve_upgrade(caller, h, v)
    \/ revoke_upgrade(caller, h)
    \/ upgrade_contract(caller, h)

(* The contracts that are asked change their answers.                      *)
EnvironmentStep == UNCHANGED <<wiring, proofs, now, upgrade>> /\ AnswersChange

(* A ledger closes: its timestamp is later than the last one's.            *)
Tick ==
  /\ now < MaxTime
  /\ now' = now + 1
  /\ UNCHANGED <<wiring, proofs, upgrade, environment>>

Next ==
  \/ EnvironmentStep
  \/ Tick
  \/ \E caller \in Address : ProofCall(caller) \/ UpgradeCall(caller)

Spec == Init /\ [][Next]_proofVars

(***************************************************************************)
(* Properties                                                              *)
(***************************************************************************)

(* Type invariant of the contract's storage and of what it reads.          *)
TypeOK ==
  /\ admin \in Address \union {NoAddress}
  /\ issuerRegistry \in Address \union {NoAddress}
  /\ protocolConfig \in Address \union {NoAddress}
  /\ upgrade \in UpgradeState
  /\ proofs \in [ProofId -> ProofRecord \union {NoProof}]
  /\ now \in Time
  /\ paused \in BOOLEAN
  /\ approved \subseteq SchemaVersions \ {0}
  /\ active \subseteq Candidates

(* The administrator and the dependency addresses are set by the one       *)
(* successful initialize and never again.                                  *)
WiringIsFinal ==
  [][admin # NoAddress => UNCHANGED wiring]_proofVars

(* No proof exists unless both stored addresses hold a contract that       *)
(* answers the registry's reads: one that was initialised with the two     *)
(* swapped, with an account or with some other contract in either place    *)
(* stays empty for good.  That the contracts are the deployed ones does    *)
(* not follow: whatever has their interface is believed.                   *)
MiswiredStaysEmpty ==
  \A p \in ProofId : Registered(p) =>
    protocolConfig \in ConfigServers /\ issuerRegistry \in IssuerServers

(* The timestamps of a record tell its story: it was created before it     *)
(* expires and not in the future; revoked_at is the zero sentinel exactly  *)
(* while it is active and otherwise lies between creation and the present. *)
TimestampsConsistent ==
  \A p \in ProofId : Registered(p) =>
    LET r == proofs[p] IN
      /\ r.created_at <= now
      /\ r.created_at < r.expires_at
      /\ r.schema_version # 0
      /\ r.status = "Active"  => r.revoked_at = 0
      /\ r.status = "Revoked" => r.created_at <= r.revoked_at /\ r.revoked_at <= now

(* A proof once written keeps its commitment, issuer, schema, expiry and   *)
(* creation time for ever; the only change it can undergo is its one       *)
(* revocation, stamped with the time of that step.                         *)
ProofsAreImmutable ==
  [][\A p \in ProofId : Registered(p) /\ proofs'[p] # proofs[p] =>
       /\ proofs[p].status = "Active"
       /\ proofs'[p] = [proofs[p] EXCEPT !.status = "Revoked", !.revoked_at = now]
    ]_proofVars

(* A registered proof that a verifier has seen invalid is never valid      *)
(* again: neither time, nor unpausing, reactivation or re-approval brings  *)
(* it back.                                                                *)
InvalidityIsFinal ==
  [][\A p \in ProofId : Registered(p) /\ ~ is_valid_proof(p)
       => Registered(p)' /\ ~ is_valid_proof(p)']_proofVars

(* While a proof is active its recorded issuer and the administrator can   *)
(* both revoke it, whatever the pause flag, the schema's approval and the  *)
(* issuer's standing have become since.                                    *)
RevocationStaysOpen ==
  \A p \in ProofId : Registered(p) /\ proofs[p].status = "Active" =>
    /\ RevokeProofResult(proofs[p].issuer_address, p) = Ok
    /\ AdminRevokeProofResult(admin, p) = Ok

(* Rejections that nothing can cure: a revocation of a revoked proof and a *)
(* registration with a passed expiry are answered alike for ever, and a    *)
(* duplicate registration never succeeds, whatever comes between.          *)
HopelessCallsStayHopeless ==
  [][\A c \in Address, p \in ProofId :
       /\ RevokeProofResult(c, p) = "ProofAlreadyRevoked"
            => RevokeProofResult(c, p)' = "ProofAlreadyRevoked"
       /\ \A v \in SchemaVersions, e \in Time :
            LET r == RegisterProofResult(c, p, c, v, e) IN
              /\ r = "ProofExpired" => r' = "ProofExpired"
              /\ r = "ProofAlreadyRegistered" => r' # Ok]_proofVars

(* Every proof whose expiry the clock can pass becomes invalid for good,   *)
(* even if nobody ever revokes it.                                         *)
EveryProofEnds ==
  \A p \in ProofId :
    (Registered(p) /\ proofs[p].expires_at < MaxTime) ~> [] (~ is_valid_proof(p))
==============================================================================
