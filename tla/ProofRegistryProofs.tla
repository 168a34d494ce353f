------------------------- MODULE ProofRegistryProofs -------------------------
(***************************************************************************)
(* Theorems about proof-registry, for every behaviour of the two contracts *)
(* it reads.                                                               *)
(***************************************************************************)
EXTENDS ProofRegistry, UpgradeGovernanceProofs

(***************************************************************************)
(* The kinds of steps                                                      *)
(***************************************************************************)

(* The answers of the two contracts the registry asks.                     *)
AnswersTyped ==
  /\ paused' \in BOOLEAN
  /\ approved' \subseteq SchemaVersions \ {0}
  /\ active' \subseteq Candidates

(* The successful initialize.                                              *)
Wired ==
  /\ admin = NoAddress
  /\ admin' \in Address /\ issuerRegistry' \in Address /\ protocolConfig' \in Address
  /\ upgrade' = FirstVersion
  /\ UNCHANGED <<proofs, now>>
  /\ AnswersTyped

(* A registration of proof p with record r.                                *)
AdmittedAs(p, r) ==
  /\ ~ Registered(p)
  /\ r \in ProofRecord
  /\ r.status = "Active" /\ r.schema_version # 0 /\ r.revoked_at = 0
  /\ r.created_at = now /\ now < r.expires_at
  /\ protocolConfig \in ConfigServers /\ issuerRegistry \in IssuerServers
  /\ proofs' = [proofs EXCEPT ![p] = r]
  /\ UNCHANGED <<wiring, now, upgrade, environment>>

(* A revocation of proof p.                                                *)
RevokedNow(p) ==
  /\ Registered(p) /\ proofs[p].status = "Active"
  /\ proofs' = RevokedRecord(p)
  /\ UNCHANGED <<wiring, now, upgrade, environment>>

(* Everything else leaves the proofs and the wiring alone.                 *)
Elsewhere ==
  /\ UNCHANGED <<wiring, proofs>>
  /\ now' \in Time /\ now <= now'
  /\ upgrade' \in UpgradeState
  /\ upgrade' # upgrade => SpendsApproval
  /\ AnswersTyped

(* Every step is of one of these kinds.                                    *)
LEMMA ProofStepKinds ==
  ASSUME TypeOK, [Next]_proofVars
  PROVE  \/ Wired
         \/ \E p \in ProofId, r \in ProofRecord : AdmittedAs(p, r)
         \/ \E p \in ProofId : RevokedNow(p)
         \/ Elsewhere
<1>1. ASSUME NEW caller \in Address, NEW a \in Address, NEW ir \in Address,
             NEW pc \in Address, initialize(caller, a, ir, pc)
      PROVE  Wired
  BY <1>1 DEF initialize, InitializeResult, AnswersChange, AnswersTyped, Ok, AuthAbort, Wired
<1>2. ASSUME NEW caller \in Address, NEW p \in ProofId, NEW k \in Commitment,
             NEW a \in Address, NEW v \in SchemaVersions, NEW e \in Time,
             register_proof(caller, p, k, a, v, e)
      PROVE  \E r \in ProofRecord : AdmittedAs(p, r)
  <2> DEFINE r == [commitment_hash |-> k, issuer_address |-> a,
                   status |-> "Active", schema_version |-> v, expires_at |-> e,
                   created_at |-> now, revoked_at |-> 0]
  <2>1. /\ ~ Duplicate(p) /\ ~ AlreadyExpired(e) /\ v # 0
        /\ ~ ConfigUnreachable /\ ~ IssuersUnreachable
    BY <1>2 DEF register_proof, RegisterProofResult, Ok, AuthAbort
  <2>2. now < e
    BY <2>1, ProofAssumption DEF AlreadyExpired, TypeOK, Time
  <2>3. r \in ProofRecord
    BY ProofAssumption DEF ProofRecord, ProofStatus, TypeOK, Time
  <2>4. AdmittedAs(p, r)
    BY <1>2, <2>1, <2>2, <2>3
    DEF register_proof, Duplicate, ConfigUnreachable, IssuersUnreachable, AdmittedAs
  <2>5. QED
    BY <2>3, <2>4
<1>3. ASSUME NEW caller \in Address, NEW p \in ProofId,
             revoke_proof(caller, p) \/ admin_revoke_proof(caller, p)
      PROVE  RevokedNow(p)
  <2>1. Registered(p) /\ proofs[p].status # "Revoked"
    BY <1>3
    DEF revoke_proof, admin_revoke_proof, RevokeProofResult,
        AdminRevokeProofResult, SetRevokedResult, Ok, AuthAbort
  <2>2. proofs[p].status \in ProofStatus
    BY <2>1 DEF TypeOK, Registered, ProofRecord
  <2>3. QED
    BY <1>3, <2>1, <2>2
    DEF revoke_proof, admin_revoke_proof, RevokedNow, ProofStatus
<1>4. ASSUME NEW caller \in Address, UpgradeCall(caller)
      PROVE  Elsewhere
  <2>1. /\ \E h \in WasmHash : UpgradeStep(caller, h)
        /\ UNCHANGED unaffectedByUpgrade
    BY <1>4
    DEF UpgradeCall, approve_upgrade, revoke_upgrade, upgrade_contract, UpgradeStep
  <2>2. upgrade' \in UpgradeState /\ admin' = admin /\ SpendsApproval
    BY <2>1, UpgradeStepType, UpgradeStepSpends DEF TypeOK
  <2>3. now' \in Time /\ now <= now'
    BY <2>1, ProofAssumption DEF unaffectedByUpgrade, TypeOK, Time
  <2>4. QED
    BY <2>1, <2>2, <2>3
    DEF unaffectedByUpgrade, wiring, environment, Elsewhere, AnswersTyped, TypeOK
<1>5. CASE EnvironmentStep
  <2>1. now' \in Time /\ now <= now'
    BY <1>5, ProofAssumption DEF EnvironmentStep, TypeOK, Time
  <2>2. QED
    BY <1>5, <2>1 DEF EnvironmentStep, AnswersChange, AnswersTyped, Elsewhere, TypeOK
<1>6. CASE Tick
  <2>1. now' \in Time /\ now <= now'
    BY <1>6, ProofAssumption DEF Tick, TypeOK, Time
  <2>2. QED
    BY <1>6, <2>1 DEF Tick, environment, Elsewhere, AnswersTyped, TypeOK
<1>7. CASE UNCHANGED proofVars
  <2>1. now' \in Time /\ now <= now'
    BY <1>7, ProofAssumption DEF proofVars, TypeOK, Time
  <2>2. QED
    BY <1>7, <2>1 DEF proofVars, environment, Elsewhere, AnswersTyped, TypeOK
<1>8. QED
  BY <1>1, <1>2, <1>3, <1>4, <1>5, <1>6, <1>7 DEF Next, ProofCall

(***************************************************************************)
(* The inductive invariant                                                 *)
(***************************************************************************)

(* The three instance entries appear together.                             *)
WiredTogether ==
  /\ admin = NoAddress => issuerRegistry = NoAddress /\ protocolConfig = NoAddress

(* What the step-by-step argument needs of a state.                        *)
ProofInv ==
  TypeOK /\ WiredTogether /\ MiswiredStaysEmpty /\ TimestampsConsistent

(* A stored proof implies an administrator.                                *)
LEMMA ProofsHaveAdmin ==
  ASSUME ProofInv, NEW p \in ProofId, Registered(p)
  PROVE  admin \in Address /\ admin # NoAddress
BY ProofAssumption, AddressAssumption
DEF ProofInv, TypeOK, WiredTogether, MiswiredStaysEmpty

(* What is stored is a record.                                             *)
LEMMA ProofTyped ==
  ASSUME TypeOK, NEW p \in ProofId, Registered(p)
  PROVE  proofs[p] \in ProofRecord
BY DEF TypeOK, Registered

(* Every step preserves the invariant.                                     *)
LEMMA ProofInvPreserved ==
  ASSUME ProofInv, [Next]_proofVars
  PROVE  ProofInv'
<1> USE DEF ProofInv
<1>1. CASE Wired
  <2>1. \A p \in ProofId : ~ Registered(p)
    BY <1>1, ProofsHaveAdmin DEF Wired
  <2>2. FirstVersion \in UpgradeState
    BY UpgradeAssumption
    DEF TypeOK, FirstVersion, UpgradeState, ContractVersions
  <2>3. TypeOK'
    BY <1>1, <2>2 DEF Wired, AnswersTyped, TypeOK
  <2>4. \A p \in ProofId : ~ Registered(p)'
    BY <1>1, <2>1 DEF Wired, Registered
  <2>5. WiredTogether'
    BY <1>1, AddressAssumption DEF Wired, WiredTogether
  <2>6. QED
    BY <2>3, <2>4, <2>5 DEF MiswiredStaysEmpty, TimestampsConsistent
<1>2. ASSUME NEW p \in ProofId, NEW r \in ProofRecord, AdmittedAs(p, r)
      PROVE  ProofInv'
  <2>1. TypeOK'
    BY <1>2 DEF AdmittedAs, wiring, environment, TypeOK
  <2>2. WiredTogether'
    BY <1>2 DEF AdmittedAs, wiring, WiredTogether
  <2>3. MiswiredStaysEmpty'
    BY <1>2 DEF AdmittedAs, wiring, MiswiredStaysEmpty
  <2>4. ASSUME NEW q \in ProofId, q # p
        PROVE  proofs'[q] = proofs[q] /\ now' = now
    BY <1>2, <2>4 DEF AdmittedAs, TypeOK
  <2>5. proofs'[p] = r /\ now' = now
    BY <1>2 DEF AdmittedAs, TypeOK
  <2>6. now \in Nat
    BY ProofAssumption DEF TypeOK, Time
  <2>7. TimestampsConsistent'
    BY <1>2, <2>4, <2>5, <2>6
    DEF AdmittedAs, TimestampsConsistent, Registered
  <2>8. QED
    BY <2>1, <2>2, <2>3, <2>7
<1>3. ASSUME NEW p \in ProofId, RevokedNow(p)
      PROVE  ProofInv'
  <2>1. proofs[p] \in ProofRecord
    BY <1>3, ProofTyped DEF RevokedNow
  <2>2. proofs' = [proofs EXCEPT ![p] =
                    [proofs[p] EXCEPT !.status = "Revoked", !.revoked_at = now]]
    BY <1>3, <2>1 DEF RevokedNow, RevokedRecord, TypeOK, ProofRecord
  <2>3. /\ proofs'[p] = [proofs[p] EXCEPT !.status = "Revoked", !.revoked_at = now]
        /\ proofs'[p] \in ProofRecord
    BY <2>1, <2>2 DEF TypeOK, ProofRecord, ProofStatus
  <2>4. TypeOK'
    BY <1>3, <2>2, <2>3 DEF RevokedNow, wiring, environment, TypeOK
  <2>5. WiredTogether'
    BY <1>3 DEF RevokedNow, wiring, WiredTogether
  <2>6. ASSUME NEW q \in ProofId, q # p
        PROVE  proofs'[q] = proofs[q]
    BY <2>2, <2>6 DEF TypeOK
  <2>7. MiswiredStaysEmpty'
    BY <1>3, <2>6 DEF RevokedNow, wiring, MiswiredStaysEmpty, Registered
  <2>8. now' = now /\ now \in Nat
    BY <1>3, ProofAssumption DEF RevokedNow, TypeOK, Time
  <2>9. TimestampsConsistent'
    <3>1. /\ proofs'[p].status = "Revoked" /\ proofs'[p].revoked_at = now
          /\ proofs'[p].created_at = proofs[p].created_at
          /\ proofs'[p].expires_at = proofs[p].expires_at
          /\ proofs'[p].schema_version = proofs[p].schema_version
      BY <2>1, <2>3 DEF ProofRecord
    <3>2. /\ proofs[p].created_at <= now
          /\ proofs[p].created_at < proofs[p].expires_at
          /\ proofs[p].schema_version # 0
      BY <1>3 DEF RevokedNow, TimestampsConsistent
    <3>3. QED
      BY <2>6, <2>8, <3>1, <3>2 DEF TimestampsConsistent, Registered
  <2>10. QED
    BY <2>4, <2>5, <2>7, <2>9
<1>4. CASE Elsewhere
  <2>1. TypeOK' /\ WiredTogether' /\ MiswiredStaysEmpty'
    BY <1>4
    DEF Elsewhere, AnswersTyped, wiring, TypeOK, WiredTogether, MiswiredStaysEmpty, Registered
  <2>2. ASSUME NEW p \in ProofId, Registered(p)'
        PROVE  /\ proofs'[p] = proofs[p] /\ Registered(p)
               /\ proofs[p].created_at \in Nat /\ proofs[p].revoked_at \in Nat
    BY <1>4, <2>2, ProofTyped, ProofAssumption
    DEF Elsewhere, Registered, ProofRecord, Time
  <2>3. now \in Nat /\ now' \in Nat /\ now <= now'
    BY <1>4, ProofAssumption DEF Elsewhere, TypeOK, Time
  <2>4. TimestampsConsistent'
    BY <2>2, <2>3 DEF TimestampsConsistent
  <2>5. QED
    BY <2>1, <2>4
<1>5. QED
  BY <1>1, <1>2, <1>3, <1>4, ProofStepKinds

(* The invariant holds initially.                                          *)
LEMMA ProofInitially == Init => ProofInv
<1> SUFFICES ASSUME Init PROVE ProofInv
  OBVIOUS
<1>1. paused \in BOOLEAN
  BY Zenon DEF Init
<1>2. upgrade \in UpgradeState
  BY UpgradeAssumption DEF Init, UpgradeInit, UpgradeState, ContractVersions
<1>3. TypeOK
  BY <1>1, <1>2 DEF Init, UpgradeInit, TypeOK
<1>4. \A p \in ProofId : ~ Registered(p)
  BY DEF Init, Registered
<1>5. QED
  BY <1>3, <1>4
  DEF Init, ProofInv, WiredTogether, MiswiredStaysEmpty, TimestampsConsistent

(* The invariant holds in every reachable state.                           *)
LEMMA ProofInvariant == Spec => []ProofInv
<1>1. Init => ProofInv
  BY ProofInitially
<1>2. ProofInv /\ [Next]_proofVars => ProofInv'
  BY ProofInvPreserved
<1>3. QED
  BY <1>1, <1>2, PTL DEF Spec

(***************************************************************************)
(* Safety                                                                  *)
(***************************************************************************)

(* The type invariant TypeOK holds of the registry's storage after every   *)
(* sequence of calls.                                                      *)
THEOREM ProofTypeCorrect == Spec => []TypeOK
BY ProofInvariant, PTL DEF ProofInv

(* A registry wired to addresses where nothing answers its reads, swapped  *)
(* ones included, holds no proof, ever.                                    *)
THEOREM MiswiredEmpty == Spec => []MiswiredStaysEmpty
BY ProofInvariant, PTL DEF ProofInv

(* The time stamps of every stored proof are in order.                     *)
THEOREM TimestampsCorrect == Spec => []TimestampsConsistent
BY ProofInvariant, PTL DEF ProofInv

(* An active proof can be revoked by its recorded issuer and by the        *)
(* administrator in every reachable state, whatever the pause flag, the    *)
(* schema and the issuer's standing are.                                   *)
THEOREM RevocationOpen == Spec => []RevocationStaysOpen
<1>1. ASSUME ProofInv, NEW p \in ProofId, Registered(p),
             proofs[p].status = "Active"
      PROVE  /\ RevokeProofResult(proofs[p].issuer_address, p) = Ok
             /\ AdminRevokeProofResult(admin, p) = Ok
  <2>1. proofs[p].issuer_address \in Address
    BY <1>1, ProofTyped DEF ProofInv, ProofRecord
  <2>2. QED
    BY <1>1, <2>1, ProofsHaveAdmin, AddressAssumption
    DEF RevokeProofResult, AdminRevokeProofResult, SetRevokedResult
<1>2. ProofInv => RevocationStaysOpen
  BY <1>1 DEF RevocationStaysOpen
<1>3. QED
  BY <1>2, ProofInvariant, PTL

(* What a step may do to the proof registry's proofs and wiring.           *)
ProofRules ==
  /\ admin # NoAddress => UNCHANGED wiring
  /\ \A p \in ProofId : Registered(p) => Registered(p)'
  /\ \A p \in ProofId : Registered(p) /\ proofs'[p] # proofs[p] =>
       /\ proofs[p].status = "Active"
       /\ proofs'[p] = [proofs[p] EXCEPT !.status = "Revoked", !.revoked_at = now]
  /\ now \in Nat /\ now' \in Nat /\ now <= now'

(* Every step keeps to the rules.                                          *)
LEMMA ProofRulesKept ==
  ASSUME ProofInv, [Next]_proofVars
  PROVE  ProofRules
<1> USE DEF ProofInv
<1>1. CASE Wired
  BY <1>1, ProofAssumption DEF Wired, Registered, ProofRules, TypeOK, Time
<1>2. ASSUME NEW p \in ProofId, NEW r \in ProofRecord, AdmittedAs(p, r)
      PROVE  ProofRules
  <2>1. \A q \in ProofId : q # p => proofs'[q] = proofs[q]
    BY <1>2 DEF AdmittedAs, TypeOK
  <2>2. ~ Registered(p) /\ UNCHANGED wiring /\ now' = now
    BY <1>2 DEF AdmittedAs
  <2>3. now \in Nat /\ now' \in Nat /\ now <= now'
    BY <2>2, ProofAssumption DEF TypeOK, Time
  <2>4. \A q \in ProofId : Registered(q) => proofs'[q] = proofs[q]
    BY <2>1, <2>2
  <2>5. QED
    BY <2>2, <2>3, <2>4 DEF Registered, ProofRules
<1>3. ASSUME NEW p \in ProofId, RevokedNow(p)
      PROVE  ProofRules
  <2>1. proofs[p] \in ProofRecord
    BY <1>3, ProofTyped DEF RevokedNow
  <2>2. proofs' = [proofs EXCEPT ![p] =
                    [proofs[p] EXCEPT !.status = "Revoked", !.revoked_at = now]]
    BY <1>3, <2>1 DEF RevokedNow, RevokedRecord, TypeOK, ProofRecord
  <2>3. /\ proofs'[p] = [proofs[p] EXCEPT !.status = "Revoked", !.revoked_at = now]
        /\ proofs'[p] \in ProofRecord
    BY <2>1, <2>2 DEF TypeOK, ProofRecord, ProofStatus
  <2>4. \A q \in ProofId : q # p => proofs'[q] = proofs[q]
    BY <2>2 DEF TypeOK
  <2>5. UNCHANGED wiring /\ now' = now /\ proofs[p].status = "Active"
    BY <1>3 DEF RevokedNow
  <2>6. now \in Nat /\ now' \in Nat /\ now <= now'
    BY <2>5, ProofAssumption DEF TypeOK, Time
  <2>7. \A q \in ProofId : Registered(q) => Registered(q)'
    BY <2>3, <2>4, ProofAssumption DEF Registered
  <2>8. \A q \in ProofId : Registered(q) /\ proofs'[q] # proofs[q] =>
          /\ proofs[q].status = "Active"
          /\ proofs'[q] = [proofs[q] EXCEPT !.status = "Revoked", !.revoked_at = now]
    BY <2>3, <2>4, <2>5
  <2>9. QED
    BY <2>5, <2>6, <2>7, <2>8 DEF ProofRules
<1>4. CASE Elsewhere
  BY <1>4, ProofAssumption DEF Elsewhere, Registered, ProofRules, TypeOK, Time
<1>5. QED
  BY <1>1, <1>2, <1>3, <1>4, ProofStepKinds

(* The wiring is set once.                                                 *)
THEOREM WiringFinal == Spec => WiringIsFinal
<1>1. ProofInv /\ [Next]_proofVars
        => [admin # NoAddress => UNCHANGED wiring]_proofVars
  BY ProofRulesKept DEF ProofRules
<1>2. QED
  BY <1>1, ProofInvariant, PTL DEF Spec, WiringIsFinal

(* A stored proof changes only by its one revocation.                      *)
THEOREM ProofsImmutable == Spec => ProofsAreImmutable
<1>1. ProofInv /\ [Next]_proofVars
        => [\A p \in ProofId : Registered(p) /\ proofs'[p] # proofs[p] =>
              /\ proofs[p].status = "Active"
              /\ proofs'[p] = [proofs[p] EXCEPT !.status = "Revoked",
                                                !.revoked_at = now]]_proofVars
  BY ProofRulesKept DEF ProofRules
<1>2. QED
  BY <1>1, ProofInvariant, PTL DEF Spec, ProofsAreImmutable

(* An invalid proof never becomes valid again.                             *)
THEOREM InvalidityFinal == Spec => InvalidityIsFinal
<1>1. ASSUME ProofInv, [Next]_proofVars, NEW p \in ProofId, Registered(p),
             ~ is_valid_proof(p)
      PROVE  Registered(p)' /\ ~ is_valid_proof(p)'
  <2>1. ProofRules
    BY <1>1, ProofRulesKept
  <2>2. Registered(p)'
    BY <1>1, <2>1 DEF ProofRules
  <2>3. proofs[p] \in ProofRecord /\ proofs[p].expires_at \in Nat
    BY <1>1, ProofTyped, ProofAssumption DEF ProofInv, ProofRecord, Time
  <2>4. CASE proofs'[p] = proofs[p]
    <3>1. now \in Nat /\ now' \in Nat /\ now <= now'
      BY <2>1 DEF ProofRules
    <3>2. proofs[p].status = "Active" => ~ (now <= proofs[p].expires_at)
      BY <1>1 DEF is_valid_proof
    <3>3. proofs[p].status = "Active" => ~ (now' <= proofs[p].expires_at)
      BY <2>3, <3>1, <3>2
    <3>4. QED
      BY <2>2, <2>4, <3>3 DEF is_valid_proof
  <2>5. CASE proofs'[p] # proofs[p]
    <3>1. proofs'[p].status = "Revoked"
      BY <1>1, <2>1, <2>3, <2>5 DEF ProofRules, ProofRecord
    <3>2. QED
      BY <2>2, <3>1 DEF is_valid_proof
  <2>6. QED
    BY <2>2, <2>4, <2>5
<1>2. ProofInv /\ [Next]_proofVars
        => [\A p \in ProofId : Registered(p) /\ ~ is_valid_proof(p)
              => Registered(p)' /\ ~ is_valid_proof(p)']_proofVars
  BY <1>1
<1>3. QED
  BY <1>2, ProofInvariant, PTL DEF Spec, InvalidityIsFinal

(* Rejections that nothing cures stay rejections.                          *)
THEOREM HopelessStaysHopeless == Spec => HopelessCallsStayHopeless
<1>1. ASSUME ProofInv, [Next]_proofVars, NEW c \in Address, NEW p \in ProofId,
             RevokeProofResult(c, p) = "ProofAlreadyRevoked"
      PROVE  RevokeProofResult(c, p)' = "ProofAlreadyRevoked"
  <2>1. /\ Registered(p) /\ proofs[p].status = "Revoked"
        /\ c = proofs[p].issuer_address
    BY <1>1 DEF RevokeProofResult, SetRevokedResult, Ok, AuthAbort
  <2>2. Registered(p)' /\ proofs'[p] = proofs[p]
    BY <1>1, <2>1, ProofRulesKept DEF ProofRules
  <2>3. c # NoAddress
    BY AddressAssumption
  <2>4. QED
    BY <2>1, <2>2, <2>3 DEF RevokeProofResult, SetRevokedResult
<1>2. ASSUME ProofInv, [Next]_proofVars, NEW c \in Address, NEW p \in ProofId,
             NEW v \in SchemaVersions, NEW e \in Time,
             RegisterProofResult(c, p, c, v, e) = "ProofExpired"
      PROVE  RegisterProofResult(c, p, c, v, e)' = "ProofExpired"
  <2>1. /\ is_valid_principal_address(c) /\ v # 0 /\ AlreadyExpired(e)
        /\ NoAddress \notin {protocolConfig, issuerRegistry}
        /\ c \notin {ProofContract, protocolConfig, issuerRegistry}
    BY <1>2 DEF RegisterProofResult, Ok, AuthAbort
  <2>2. admin # NoAddress
    BY <1>2, <2>1 DEF ProofInv, WiredTogether
  <2>3. ProofRules
    BY <1>2, ProofRulesKept
  <2>4. UNCHANGED <<protocolConfig, issuerRegistry>>
    BY <2>2, <2>3 DEF ProofRules, wiring
  <2>5. e <= now'
    <3>1. now \in Nat /\ now' \in Nat /\ now <= now'
      BY <2>3 DEF ProofRules
    <3>2. e \in Nat /\ e <= now
      BY <2>1, ProofAssumption DEF AlreadyExpired, Time
    <3>3. QED
      BY <3>1, <3>2
  <2>6. QED
    BY <2>1, <2>4, <2>5 DEF RegisterProofResult, AlreadyExpired
<1>3. ASSUME ProofInv, [Next]_proofVars, NEW c \in Address, NEW p \in ProofId,
             NEW v \in SchemaVersions, NEW e \in Time,
             RegisterProofResult(c, p, c, v, e) = "ProofAlreadyRegistered"
      PROVE  RegisterProofResult(c, p, c, v, e)' # Ok
  <2>1. Duplicate(p)
    BY <1>3 DEF RegisterProofResult, Ok, AuthAbort
  <2>2. Duplicate(p)'
    BY <1>3, <2>1, ProofRulesKept DEF ProofRules, Duplicate
  <2>3. QED
    BY <2>2 DEF RegisterProofResult, Ok, AuthAbort
<1>4. ProofInv /\ [Next]_proofVars
        => [\A c \in Address, p \in ProofId :
              /\ RevokeProofResult(c, p) = "ProofAlreadyRevoked"
                   => RevokeProofResult(c, p)' = "ProofAlreadyRevoked"
              /\ \A v \in SchemaVersions, e \in Time :
                   LET r == RegisterProofResult(c, p, c, v, e) IN
                     /\ r = "ProofExpired" => r' = "ProofExpired"
                     /\ r = "ProofAlreadyRegistered" => r' # Ok]_proofVars
  BY <1>1, <1>2, <1>3
<1>5. QED
  BY <1>4, ProofInvariant, PTL DEF Spec, HopelessCallsStayHopeless

(* Upgrades of the proof registry spend approvals and only raise its       *)
(* version.                                                                *)
THEOREM ProofUpgradesGoverned == Spec => UpgradesSpendApprovals
<1>1. ProofInv /\ [Next]_proofVars => [SpendsApproval]_<<admin, upgrade>>
  <2> SUFFICES ASSUME ProofInv, [Next]_proofVars, ~ UNCHANGED <<admin, upgrade>>
               PROVE  SpendsApproval
    OBVIOUS
  <2>1. CASE Wired
    BY <2>1
    DEF Wired, FirstVersion, SpendsApproval, ProofInv, TypeOK, UpgradeState
  <2>2. CASE Elsewhere
    BY <2>2 DEF Elsewhere, wiring
  <2>3. QED
    BY <2>1, <2>2, ProofStepKinds DEF AdmittedAs, RevokedNow, wiring, ProofInv
<1>2. QED
  BY <1>1, ProofInvariant, PTL DEF Spec, UpgradesSpendApprovals
==============================================================================
