-------------------------- MODULE RegistryUseProofs --------------------------
(***************************************************************************)
(* proof-registry in use.  The first part is about a backend that retries  *)
(* by the error catalogue, with any number of other callers, and any       *)
(* behaviour of the two contracts the registry reads, around it.  The      *)
(* second is about the entries of this and of the other two contracts and  *)
(* how long they live, for every threshold, target and minimal TTL.        *)
(***************************************************************************)
EXTENDS RetryClient, StorageLifetimes, ProofRegistryProofs

(***************************************************************************)
(* The catalogue                                                           *)
(***************************************************************************)

(* The entries of the two codes that ask for an operator, 304 and 305,     *)
(* are found by spec, and say so.                                          *)
LEMMA OperatorEntries ==
  /\ Published(304) /\ spec(304).retry = "AfterOperatorAction"
  /\ Published(305) /\ spec(305).retry = "AfterOperatorAction"
<1> DEFINE C == ERROR_CATALOG
<1>1. DOMAIN C = 1 .. 21
  BY DEF ERROR_CATALOG, CommonEntries, IssuerEntries, ProofEntries
<1>2. \A i \in 1 .. 8 : C[i] = CommonEntries[i]
  BY DEF ERROR_CATALOG, CommonEntries, IssuerEntries, ProofEntries
<1>3. \A i \in 9 .. 15 : C[i] = IssuerEntries[i - 8]
  BY DEF ERROR_CATALOG, CommonEntries, IssuerEntries, ProofEntries
<1>4. \A i \in 16 .. 21 : C[i] = ProofEntries[i - 15]
  BY DEF ERROR_CATALOG, CommonEntries, IssuerEntries, ProofEntries
<1>5. \A i \in 1 .. 8 : CommonEntries[i].code < 100
  BY DEF CommonEntries, CommonEntry, Entry
<1>6. \A i \in 1 .. 7 : IssuerEntries[i].code < 300
  BY DEF IssuerEntries, IssuerEntry, Entry
<1>7. \A i \in 1 .. 6 : ProofEntries[i].code = 299 + i
  BY DEF ProofEntries, ProofEntry, Entry
<1>8. /\ ProofEntries[5].retry = "AfterOperatorAction"
      /\ ProofEntries[6].retry = "AfterOperatorAction"
  BY DEF ProofEntries, ProofEntry, Entry
<1>9. ASSUME NEW i \in DOMAIN C
      PROVE  (C[i].code = 304 <=> i = 20) /\ (C[i].code = 305 <=> i = 21)
  <2>1. CASE i \in 1 .. 8
    BY <2>1, <1>2, <1>5
  <2>2. CASE i \in 9 .. 15
    BY <2>2, <1>3, <1>6
  <2>3. CASE i \in 16 .. 21
    BY <2>3, <1>4, <1>7
  <2>4. QED
    BY <2>1, <2>2, <2>3, <1>1
<1>10. /\ C[20].retry = "AfterOperatorAction"
       /\ C[21].retry = "AfterOperatorAction"
  BY <1>4, <1>8
<1>11. /\ (CHOOSE i \in DOMAIN C : C[i].code = 304) = 20
       /\ (CHOOSE i \in DOMAIN C : C[i].code = 305) = 21
  BY <1>9, <1>1
<1>12. QED
  BY <1>1, <1>9, <1>10, <1>11 DEF spec, Published

(* So an answer with either code leaves the request in the queue.          *)
LEMMA OperatorCodesWait ==
  /\ decide("InvalidSchemaVersion") = "waiting"
  /\ decide("SchemaVersionNotApproved") = "waiting"
<1>1. /\ {"InvalidSchemaVersion", "SchemaVersionNotApproved"} \subseteq DOMAIN ErrorCode
      /\ ErrorCode["InvalidSchemaVersion"] = 304
      /\ ErrorCode["SchemaVersionNotApproved"] = 305
  BY DEF ErrorCode, ContractError, IssuerError, ProofError
<1>2. /\ retry_for(304) = "AfterOperatorAction"
      /\ retry_for(305) = "AfterOperatorAction"
  BY OperatorEntries DEF retry_for
<1>3. QED
  BY <1>1, <1>2 DEF decide

(***************************************************************************)
(* The backend is one caller among others                                  *)
(***************************************************************************)

(* The request's arguments are ones that callers use.                      *)
LEMMA RegistrationIsACall ==
  ASSUME request \in Request, Registration
  PROVE  Next
<1>1. /\ request.issuer \in Address /\ request.id \in ProofId
      /\ request.schema \in SchemaVersions /\ request.expires \in Time
      /\ OwnCommitment \in Commitment
  BY RequestAssumption DEF Request
<1>2. ProofCall(request.issuer)
  BY <1>1 DEF Registration, ProofCall
<1>3. QED
  BY <1>1, <1>2 DEF Next

(* Every step of the backend's system is one that the registry may take.   *)
LEMMA ClientStepIsRegistryStep ==
  ASSUME request \in Request, [ClientNext]_systemVars
  PROVE  [Next]_proofVars
BY RegistrationIsACall
DEF ClientNext, Accepted, Refused, AnswerLost, Poll, systemVars

(***************************************************************************)
(* The inductive invariant                                                 *)
(***************************************************************************)
Connected == NoAddress \notin {protocolConfig, issuerRegistry}

(* The checks on addresses and wiring that a submission which took effect  *)
(* has passed; initialize runs once, so it goes on passing them.           *)
AddressAccepted ==
  /\ is_valid_principal_address(request.issuer)
  /\ Connected
  /\ request.issuer \notin {ProofContract, protocolConfig, issuerRegistry}
  /\ ~ ConfigUnreachable /\ ~ IssuersUnreachable

(* The effect of a submission is still there.                              *)
EffectStays ==
  applied =>
    /\ AddressAccepted
    /\ Registered(request.id)
    /\ proofs[request.id].commitment_hash = OwnCommitment
    /\ proofs[request.id].issuer_address = request.issuer

(* Why an answer cannot turn into Ok.                                      *)
Traps == {"trap: no protocol config", "trap: no issuer registry"}

Incurable ==
  \/ answer = "ProofNotFound" /\ ~ applied
  \/ /\ answer = "InvalidProofAddress" /\ ~ applied
     /\ \/ ~ is_valid_principal_address(request.issuer)
        \/ /\ Connected
           /\ request.issuer \in {ProofContract, protocolConfig, issuerRegistry}
  \/ /\ answer \in Traps /\ ~ applied
     /\ Connected
     /\ ConfigUnreachable \/ IssuersUnreachable
  \/ answer = "ProofExpired" /\ AlreadyExpired(request.expires)
  \/ answer = "ProofAlreadyRegistered" /\ Registered(request.id)

(* The registry's own invariant, and what the backend relies on.           *)
ClientInv ==
  /\ ProofInv
  /\ request \in Request
  /\ applied \in BOOLEAN
  /\ EffectStays
  /\ Dropped => Incurable

(* A refusal that the backend gives up on has a cause that stays.          *)
LEMMA RefusalIncurable ==
  ASSUME ClientInv, Refused, decide(Outcome) # "waiting"
  PROVE  Incurable'
<1>1. Outcome \notin {Ok, "InvalidSchemaVersion", "SchemaVersionNotApproved"}
  BY OperatorCodesWait DEF Refused
<1>2. /\ answer' = Outcome
      /\ UNCHANGED <<proofVars, request, applied>>
  BY DEF Refused
<1>3. CASE Outcome = "InvalidProofAddress"
  <2>1. \/ ~ is_valid_principal_address(request.issuer)
        \/ /\ Connected
           /\ request.issuer \in {ProofContract, protocolConfig, issuerRegistry}
    BY <1>3 DEF Outcome, RegisterProofResult, Connected, Ok, AuthAbort
  <2>2. ~ applied
    BY <2>1 DEF ClientInv, EffectStays, AddressAccepted
  <2>3. QED
    BY <1>2, <1>3, <2>1, <2>2
    DEF Incurable, Connected, proofVars, wiring, is_valid_principal_address
<1>4. CASE Outcome = "ProofNotFound"
  <2>1. ~ Connected
    BY <1>4 DEF Outcome, RegisterProofResult, Connected, Ok, AuthAbort
  <2>2. ~ applied
    BY <2>1 DEF ClientInv, EffectStays, AddressAccepted
  <2>3. QED
    BY <1>2, <1>4, <2>2 DEF Incurable
<1>5. CASE Outcome = "ProofExpired"
  <2>1. AlreadyExpired(request.expires)
    BY <1>5 DEF Outcome, RegisterProofResult, Ok, AuthAbort
  <2>2. QED
    BY <1>2, <1>5, <2>1 DEF Incurable, AlreadyExpired, proofVars
<1>6. CASE Outcome \in Traps
  <2>1. Connected /\ (ConfigUnreachable \/ IssuersUnreachable)
    BY <1>6 DEF Outcome, RegisterProofResult, Traps, Connected, Ok, AuthAbort
  <2>2. ~ applied
    BY <2>1 DEF ClientInv, EffectStays, AddressAccepted
  <2>3. QED
    BY <1>2, <1>6, <2>1, <2>2
    DEF Incurable, Connected, ConfigUnreachable, IssuersUnreachable,
        proofVars, wiring
<1>7. CASE Outcome = "ProofAlreadyRegistered"
  <2>1. Registered(request.id)
    BY <1>7 DEF Outcome, RegisterProofResult, Duplicate, Ok, AuthAbort
  <2>2. QED
    BY <1>2, <1>7, <2>1 DEF Incurable, Registered, proofVars
<1>8. QED
  BY <1>1, <1>3, <1>4, <1>5, <1>6, <1>7
  DEF Outcome, RegisterProofResult, Traps

(* Neither administrators, nor other callers, nor time undo such a cause.  *)
LEMMA IncurableStays ==
  ASSUME ClientInv, Incurable, [Next]_proofVars,
         UNCHANGED <<request, answer, applied>>
  PROVE  Incurable'
<1>1. ProofRules
  BY ProofRulesKept DEF ClientInv
<1>2. Connected => UNCHANGED wiring
  BY <1>1 DEF ClientInv, ProofInv, WiredTogether, Connected, ProofRules
<1>3. Registered(request.id) => Registered(request.id)'
  BY <1>1 DEF ClientInv, Request, ProofRules, Registered
<1>4. AlreadyExpired(request.expires) => AlreadyExpired(request.expires)'
  <2>1. request.expires \in Nat
    BY ProofAssumption DEF ClientInv, Request, Time
  <2>2. now \in Nat /\ now' \in Nat /\ now <= now'
    BY <1>1 DEF ProofRules
  <2>3. QED
    BY <2>1, <2>2 DEF AlreadyExpired
<1>5. QED
  BY <1>2, <1>3, <1>4
  DEF Incurable, Connected, ConfigUnreachable, IssuersUnreachable, wiring,
      is_valid_principal_address

(* The record of a submission is kept, whoever revokes it.                 *)
LEMMA EffectKept ==
  ASSUME ClientInv, [Next]_proofVars, applied, UNCHANGED request
  PROVE  EffectStays'
<1>1. ProofRules
  BY ProofRulesKept DEF ClientInv
<1>2. /\ AddressAccepted /\ Registered(request.id) /\ request.id \in ProofId
      /\ proofs[request.id].commitment_hash = OwnCommitment
      /\ proofs[request.id].issuer_address = request.issuer
  BY DEF ClientInv, EffectStays, Request
<1>3. UNCHANGED wiring
  BY <1>1, <1>2
  DEF ClientInv, ProofInv, WiredTogether, AddressAccepted, Connected, ProofRules
<1>4. AddressAccepted'
  BY <1>2, <1>3
  DEF AddressAccepted, Connected, ConfigUnreachable, IssuersUnreachable, wiring,
      is_valid_principal_address
<1>5. Registered(request.id)'
  BY <1>1, <1>2 DEF ProofRules, Registered
<1>6. /\ proofs'[request.id].commitment_hash = OwnCommitment
      /\ proofs'[request.id].issuer_address = request.issuer
  <2>1. proofs[request.id] \in ProofRecord
    BY <1>2, ProofTyped DEF ClientInv, ProofInv
  <2>2. QED
    BY <1>1, <1>2, <2>1 DEF ProofRules, ProofRecord
<1>7. QED
  BY <1>4, <1>5, <1>6 DEF EffectStays

(* A submission that takes effect leaves the record it asks for.           *)
LEMMA RegistrationLeavesRecord ==
  ASSUME ClientInv, Registration, applied' = TRUE, UNCHANGED request
  PROVE  EffectStays'
<1>1. /\ AddressAccepted /\ request.id \in ProofId
      /\ UNCHANGED wiring
  BY DEF Registration, register_proof, RegisterProofResult, Ok, AuthAbort,
         AddressAccepted, Connected, ClientInv, Request
<1>2. AddressAccepted'
  BY <1>1
  DEF AddressAccepted, Connected, ConfigUnreachable, IssuersUnreachable, wiring,
      is_valid_principal_address
<1>3. proofs'[request.id] =
        [commitment_hash |-> OwnCommitment, issuer_address |-> request.issuer,
         status |-> "Active", schema_version |-> request.schema,
         expires_at |-> request.expires, created_at |-> now, revoked_at |-> 0]
  BY <1>1 DEF Registration, register_proof, ClientInv, ProofInv, TypeOK
<1>4. proofs'[request.id] \in ProofRecord
  BY <1>3, RequestAssumption, ProofAssumption
  DEF ClientInv, ProofInv, TypeOK, Request, ProofRecord, ProofStatus, Time
<1>5. Registered(request.id)'
  BY <1>4, ProofAssumption DEF Registered
<1>6. QED
  BY <1>2, <1>3, <1>5 DEF EffectStays

(* Every step preserves the invariant.                                     *)
LEMMA ClientInvPreserved ==
  ASSUME ClientInv, [ClientNext]_systemVars
  PROVE  ClientInv'
<1>1. [Next]_proofVars
  BY ClientStepIsRegistryStep DEF ClientInv
<1>2. ProofInv'
  BY <1>1, ProofInvPreserved DEF ClientInv
<1>3. ASSUME Accepted \/ AnswerLost
      PROVE  ClientInv'
  <2>1. /\ Registration /\ applied' = TRUE /\ UNCHANGED request
        /\ ~ Dropped'
    BY <1>3 DEF Accepted, AnswerLost, Dropped
  <2>2. applied' \in BOOLEAN
    BY <2>1, Zenon
  <2>3. EffectStays'
    BY <2>1, RegistrationLeavesRecord
  <2>4. QED
    BY <1>2, <2>1, <2>2, <2>3 DEF ClientInv
<1>4. ASSUME UNCHANGED <<request, applied>>, Dropped' => Incurable'
      PROVE  ClientInv'
  <2>1. EffectStays'
    BY <1>1, <1>4, EffectKept DEF ClientInv, EffectStays
  <2>2. QED
    BY <1>2, <1>4, <2>1 DEF ClientInv
<1>5. CASE Refused
  BY <1>4, <1>5, RefusalIncurable DEF Refused, Dropped
<1>6. CASE Poll
  BY <1>4, <1>6 DEF Poll, Dropped
<1>7. CASE UNCHANGED clientVars
  BY <1>1, <1>4, <1>7, IncurableStays DEF clientVars, ClientInv, Dropped
<1>8. QED
  BY <1>3, <1>5, <1>6, <1>7 DEF ClientNext, systemVars

(* The invariant holds in every reachable state.                           *)
LEMMA ClientInvariant == ClientSpec => []ClientInv
<1>1. ClientInit => ClientInv
  <2> SUFFICES ASSUME ClientInit PROVE ClientInv
    OBVIOUS
  <2>1. applied \in BOOLEAN
    BY Zenon DEF ClientInit
  <2>2. ProofInv
    BY ProofInitially DEF ClientInit
  <2>3. QED
    BY <2>1, <2>2 DEF ClientInit, ClientInv, EffectStays, Dropped
<1>2. ClientInv /\ [ClientNext]_systemVars => ClientInv'
  BY ClientInvPreserved
<1>3. QED
  BY <1>1, <1>2, PTL DEF ClientSpec

(***************************************************************************)
(* Safety                                                                  *)
(***************************************************************************)

(* The backend, with its retries and lost answers, does nothing that the   *)
(* registry's own specification does not allow: what is proved of the      *)
(* registry holds beside it.                                               *)
THEOREM ClientUsesRegistry == ClientSpec => Spec
<1>1. ClientInit => Init
  BY DEF ClientInit
<1>2. ClientInv /\ [ClientNext]_systemVars => [Next]_proofVars
  BY ClientStepIsRegistryStep DEF ClientInv
<1>3. QED
  BY <1>1, <1>2, ClientInvariant, PTL DEF ClientSpec, Spec

(* What the backend gives up on stays rejected for ever, whatever          *)
(* administrators, other callers and time do (DroppedIsHopeless).          *)
THEOREM DroppedHopeless == ClientSpec => []DroppedIsHopeless
<1>1. ClientInv => DroppedIsHopeless
  <2> SUFFICES ASSUME ClientInv, Dropped, answer # "ProofNotFound"
               PROVE  Outcome # Ok
    BY DEF DroppedIsHopeless
  <2>1. Incurable
    BY DEF ClientInv
  <2>2. QED
    BY <2>1
    DEF Incurable, Connected, Outcome, RegisterProofResult, Duplicate, Ok, AuthAbort
<1>2. QED
  BY <1>1, ClientInvariant, PTL

(* A submission whose answer was lost keeps its effect, and the backend    *)
(* hears of it as 300, or as 303 once the proof has expired                *)
(* (LostAnswersAreRecovered).                                              *)
THEOREM LostAnswersRecovered == ClientSpec => []LostAnswersAreRecovered
<1>1. ClientInv => LostAnswersAreRecovered
  BY DEF ClientInv, EffectStays, Incurable, AlreadyExpired, LostAnswersAreRecovered
<1>2. QED
  BY <1>1, ClientInvariant, PTL

(***************************************************************************)
(* The lifetime of the watched entry                                       *)
(***************************************************************************)

(* Whatever the last extension found, TTL and idle ledgers add up to more  *)
(* than the threshold; an entry without a TTL was not extended of late.    *)
LifetimeInv ==
  /\ ttl \in Absent .. TTL_EXTEND_TO_LEDGERS
  /\ since \in 0 .. Horizon
  /\ ttl >= 0 => ttl + since > TTL_THRESHOLD_LEDGERS
  /\ ttl = Archived => since > TTL_THRESHOLD_LEDGERS + 1
  /\ ttl = Absent => since = Horizon

(* The TTL of an entry that is loaded and extended.                        *)
LEMMA ExtensionRange ==
  ASSUME NEW t \in Absent .. TTL_EXTEND_TO_LEDGERS
  PROVE  /\ Loaded(t) \in 0 .. TTL_EXTEND_TO_LEDGERS
         /\ Extended(Loaded(t)) \in (TTL_THRESHOLD_LEDGERS + 1) .. TTL_EXTEND_TO_LEDGERS
BY TtlAssumption DEF Loaded, Extended, Absent

(* An invocation keeps the lifetime invariant, whatever it touches.        *)
LEMMA TouchKeeps ==
  ASSUME LifetimeInv, NEW loads, NEW extends, NEW removes,
         Touch(loads, extends, removes)
  PROVE  LifetimeInv'
<1> USE TtlAssumption DEF Absent, Archived
<1>1. CASE watched \in removes
  BY <1>1 DEF Touch, LifetimeInv
<1>2. CASE watched \notin removes /\ watched \in extends
  <2>1. ttl' \in (TTL_THRESHOLD_LEDGERS + 1) .. TTL_EXTEND_TO_LEDGERS /\ since' = 0
    BY <1>2, ExtensionRange DEF Touch, LifetimeInv
  <2>2. QED
    BY <2>1 DEF LifetimeInv
<1>3. CASE watched \notin removes \union extends /\ watched \in loads
  <2>1. ttl' = Loaded(ttl) /\ since' = since
    BY <1>3 DEF Touch
  <2>2. QED
    BY <2>1, ExtensionRange DEF LifetimeInv, Loaded
<1>4. CASE watched \notin removes \union extends \union loads
  BY <1>4 DEF Touch, LifetimeInv
<1>5. QED
  BY <1>1, <1>2, <1>3, <1>4

(* So does a ledger that closes.                                           *)
LEMMA LedgerKeeps ==
  ASSUME LifetimeInv, LedgerPasses
  PROVE  LifetimeInv'
BY TtlAssumption DEF LedgerPasses, LifetimeInv, Absent, Archived

(***************************************************************************)
(* proof-registry                                                          *)
(***************************************************************************)
(* With the lifetimes, the contract's calls are still its calls.           *)
LEMMA ProofTtlCalls == TtlNext => [Next]_proofVars
BY DEF TtlNext, Write, initialize_ttl, register_proof_ttl, set_revoked_ttl,
       approve_upgrade_ttl, revoke_upgrade_ttl, upgrade_contract_ttl,
       ReadInstance, ReadProof, LedgerCloses, Tick, Next, ProofCall,
       UpgradeCall, proofVars

(* Every call touches entries, and the ledger passes over them.            *)
LEMMA ProofTtlKeeps ==
  ASSUME LifetimeInv, TtlNext
  PROVE  LifetimeInv'
<1>1. ASSUME NEW caller \in Address, Write(caller)
      PROVE  LifetimeInv'
  BY <1>1, TouchKeeps
  DEF Write, initialize_ttl, register_proof_ttl, set_revoked_ttl,
      approve_upgrade_ttl, revoke_upgrade_ttl, upgrade_contract_ttl
<1>2. ReadInstance \/ (\E p \in ProofId : ReadProof(p)) => LifetimeInv'
  BY TouchKeeps DEF ReadInstance, ReadProof
<1>3. LedgerCloses => LifetimeInv'
  BY LedgerKeeps DEF LedgerCloses
<1>4. UNCHANGED entryVars => LifetimeInv'
  BY DEF LifetimeInv, entryVars
<1>5. QED
  BY <1>1, <1>2, <1>3, <1>4 DEF TtlNext

(***************************************************************************)
(* issuer-registry                                                         *)
(***************************************************************************)
(* The entries of both modules live by the same rules.                     *)
LEMMA IssuerTouchSame ==
  /\ \A l, e, r : Issuers!Touch(l, e, r) <=> Touch(l, e, r)
  /\ Issuers!LedgerPasses <=> LedgerPasses
  /\ Issuers!Instance = Instance
BY DEF Issuers!Touch, Touch, Issuers!Absent, Absent, Issuers!Extended, Extended,
       Issuers!Loaded, Loaded, Issuers!LedgerPasses, LedgerPasses,
       Issuers!Instance, Instance

(* With the lifetimes, the contract's calls are still its calls.           *)
LEMMA IssuerTtlCalls ==
  Issuers!TtlNext => [Issuers!Next]_(Issuers!registryVars)
<1>1. ASSUME NEW caller \in Address, Issuers!Write(caller)
      PROVE  Issuers!IssuerCall(caller) \/ Issuers!UpgradeCall(caller)
  BY <1>1
  DEF Issuers!Write, Issuers!initialize_ttl, Issuers!register_issuer_ttl,
      Issuers!update_issuer_ttl, Issuers!set_status_ttl, Issuers!IssuerStatus,
      Issuers!rotate_issuer_address_ttl, Issuers!approve_upgrade_ttl,
      Issuers!revoke_upgrade_ttl, Issuers!upgrade_contract_ttl,
      Issuers!suspend_issuer, Issuers!reactivate_issuer,
      Issuers!revoke_issuer, Issuers!IssuerCall, Issuers!UpgradeCall
<1>2. Issuers!Read => UNCHANGED Issuers!registryVars
  BY DEF Issuers!Read, Issuers!ReadInstance, Issuers!ReadIssuer,
         Issuers!ReadActiveAddress, Issuers!ReadIssuerByAddress
<1>3. Issuers!LedgerCloses => Issuers!Tick \/ UNCHANGED Issuers!registryVars
  BY DEF Issuers!LedgerCloses, Issuers!Tick, Issuers!registryVars
<1>4. QED
  BY <1>1, <1>2, <1>3 DEF Issuers!TtlNext, Issuers!Next

(* Every call touches entries, and the ledger passes over them.            *)
LEMMA IssuerTtlKeeps ==
  ASSUME LifetimeInv, Issuers!TtlNext
  PROVE  LifetimeInv'
<1>1. ASSUME NEW loads, NEW extends, NEW removes,
             Issuers!Touch(loads, extends, removes)
      PROVE  LifetimeInv'
  BY <1>1, IssuerTouchSame, TouchKeeps
<1>2. ASSUME NEW caller \in Address, Issuers!Write(caller)
      PROVE  LifetimeInv'
  BY <1>1, <1>2
  DEF Issuers!Write, Issuers!initialize_ttl, Issuers!register_issuer_ttl,
      Issuers!update_issuer_ttl, Issuers!set_status_ttl,
      Issuers!rotate_issuer_address_ttl, Issuers!approve_upgrade_ttl,
      Issuers!revoke_upgrade_ttl, Issuers!upgrade_contract_ttl
<1>3. Issuers!Read => LifetimeInv'
  BY <1>1
  DEF Issuers!Read, Issuers!ReadInstance, Issuers!ReadIssuer,
      Issuers!ReadActiveAddress, Issuers!ReadIssuerByAddress
<1>4. Issuers!LedgerCloses => LifetimeInv'
  BY IssuerTouchSame, LedgerKeeps DEF Issuers!LedgerCloses
<1>5. QED
  BY <1>2, <1>3, <1>4 DEF Issuers!TtlNext

(***************************************************************************)
(* protocol-config                                                         *)
(***************************************************************************)
(* The entries of both modules live by the same rules.                     *)
LEMMA ConfigTouchSame ==
  /\ \A l, e, r : Config!Touch(l, e, r) <=> Touch(l, e, r)
  /\ Config!LedgerPasses <=> LedgerPasses
  /\ Config!Instance = Instance
BY DEF Config!Touch, Touch, Config!Absent, Absent, Config!Extended, Extended,
       Config!Loaded, Loaded, Config!LedgerPasses, LedgerPasses,
       Config!Instance, Instance

(* With the lifetimes, the contract's calls are still its calls.           *)
LEMMA ConfigTtlCalls == Config!TtlNext => [Config!Next]_(Config!configVars)
<1>1. ASSUME NEW caller \in Address, Config!Write(caller)
      PROVE  Config!ConfigCall(caller) \/ Config!UpgradeCall(caller)
  BY <1>1
  DEF Config!Write, Config!instance_ttl, Config!schema_ttl, Config!upgrade_ttl,
      Config!revoke_upgrade_ttl, Config!ConfigCall, Config!UpgradeCall
<1>2. QED
  BY <1>1
  DEF Config!TtlNext, Config!ReadInstance, Config!ReadSchema,
      Config!LedgerCloses, Config!Next

(* Every call touches entries, and the ledger passes over them.            *)
LEMMA ConfigTtlKeeps ==
  ASSUME LifetimeInv, Config!TtlNext
  PROVE  LifetimeInv'
<1>1. ASSUME NEW loads, NEW extends, NEW removes,
             Config!Touch(loads, extends, removes)
      PROVE  LifetimeInv'
  BY <1>1, ConfigTouchSame, TouchKeeps
<1>2. ASSUME NEW caller \in Address, Config!Write(caller)
      PROVE  LifetimeInv'
  BY <1>1, <1>2
  DEF Config!Write, Config!instance_ttl, Config!schema_ttl,
      Config!upgrade_ttl, Config!revoke_upgrade_ttl
<1>3. \/ Config!ReadInstance
      \/ \E v \in Config!SchemaVersions : Config!ReadSchema(v)
      => LifetimeInv'
  BY <1>1 DEF Config!ReadInstance, Config!ReadSchema
<1>4. Config!LedgerCloses => LifetimeInv'
  BY ConfigTouchSame, LedgerKeeps DEF Config!LedgerCloses
<1>5. QED
  BY <1>2, <1>3, <1>4 DEF Config!TtlNext

(***************************************************************************)
(* The contract at hand                                                    *)
(***************************************************************************)
StorageInv ==
  /\ contract \in CONTRACTS
  /\ LifetimeInv
  /\ contract # "proof-registry" => \A p \in ProofId : watched # Proof(p)

(* A contract is deployed without entries but its instance.                *)
LEMMA StorageInitially == StorageInit => StorageInv
<1> SUFFICES ASSUME StorageInit PROVE StorageInv
  OBVIOUS
<1>1. ASSUME NEW entry, DeployedInit(entry) \/ TtlInit(entry)
      PROVE  LifetimeInv /\ watched = entry
  BY <1>1, TtlAssumption
  DEF DeployedInit, TtlInit, LifetimeInv, Absent, Archived
<1>2. CASE contract = "proof-registry" /\ Initial
  BY <1>1, <1>2 DEF Initial, StorageInit, StorageInv
<1>3. CASE contract = "issuer-registry" /\ Issuers!Initial
  <2>1. \/ DeployedInit(Issuers!Instance)
        \/ \E i \in IssuerId : TtlInit(Issuers!Issuer(i))
        \/ \E a \in Address : TtlInit(Issuers!AddressIssuer(a))
    BY <1>3
    DEF Issuers!Initial, Issuers!DeployedInit, Issuers!TtlInit,
        Issuers!Absent, DeployedInit, TtlInit, Absent
  <2>2. \/ watched = <<"Instance">>
        \/ \E i \in IssuerId : watched = <<"Issuer", i>>
        \/ \E a \in Address : watched = <<"AddressIssuer", a>>
    BY <2>1 DEF DeployedInit, TtlInit, Issuers!Instance, Issuers!Issuer,
                Issuers!AddressIssuer
  <2>3. \A p \in ProofId : watched # Proof(p)
    BY <2>2 DEF Proof
  <2>4. QED
    BY <1>1, <1>3, <2>1, <2>3 DEF StorageInit, StorageInv
<1>4. CASE contract = "protocol-config" /\ Config!Initial
  <2>1. \/ DeployedInit(Config!Instance)
        \/ \E v \in Config!SchemaVersions : TtlInit(Config!SchemaVersion(v))
    BY <1>4
    DEF Config!Initial, Config!DeployedInit, Config!TtlInit, Config!Absent,
        DeployedInit, TtlInit, Absent
  <2>2. \/ watched = <<"Instance">>
        \/ \E v \in Config!SchemaVersions : watched = <<"SchemaVersion", v>>
    BY <2>1 DEF DeployedInit, TtlInit, Config!Instance, Config!SchemaVersion
  <2>3. \A p \in ProofId : watched # Proof(p)
    BY <2>2 DEF Proof
  <2>4. QED
    BY <1>1, <1>4, <2>1, <2>3 DEF StorageInit, StorageInv
<1>5. QED
  BY <1>2, <1>3, <1>4 DEF StorageInit

(* No call looks away from the entry that is watched.                      *)
LEMMA WatchedStays ==
  [StorageNext]_storageVars => UNCHANGED watched
<1>1. TtlNext => UNCHANGED watched
  BY DEF TtlNext, Write, initialize_ttl, register_proof_ttl, set_revoked_ttl,
         approve_upgrade_ttl, revoke_upgrade_ttl, upgrade_contract_ttl,
         ReadInstance, ReadProof, LedgerCloses, LedgerPasses, Touch, entryVars
<1>2. Issuers!TtlNext => UNCHANGED watched
  BY DEF Issuers!TtlNext, Issuers!Write, Issuers!initialize_ttl,
         Issuers!register_issuer_ttl, Issuers!update_issuer_ttl,
         Issuers!set_status_ttl, Issuers!rotate_issuer_address_ttl,
         Issuers!approve_upgrade_ttl, Issuers!revoke_upgrade_ttl,
         Issuers!upgrade_contract_ttl, Issuers!Read, Issuers!ReadInstance,
         Issuers!ReadIssuer, Issuers!ReadActiveAddress,
         Issuers!ReadIssuerByAddress, Issuers!LedgerCloses,
         Issuers!LedgerPasses, Issuers!Touch
<1>3. Config!TtlNext => UNCHANGED watched
  BY DEF Config!TtlNext, Config!Write, Config!instance_ttl, Config!schema_ttl,
         Config!upgrade_ttl, Config!revoke_upgrade_ttl, Config!ReadInstance,
         Config!ReadSchema, Config!LedgerCloses, Config!LedgerPasses,
         Config!Touch
<1>4. QED
  BY <1>1, <1>2, <1>3 DEF StorageNext, storageVars, TtlVars, entryVars

(* Every step preserves the invariant.                                     *)
LEMMA StorageInvPreserved ==
  ASSUME StorageInv, [StorageNext]_storageVars
  PROVE  StorageInv'
<1>1. UNCHANGED <<contract, watched>>
  BY WatchedStays DEF StorageNext, storageVars
<1>2. CASE StorageNext
  BY <1>1, <1>2, ProofTtlKeeps, IssuerTtlKeeps, ConfigTtlKeeps
  DEF StorageInv, StorageNext, Proof
<1>3. CASE UNCHANGED storageVars
  BY <1>1, <1>3
  DEF StorageInv, LifetimeInv, Proof, storageVars, TtlVars, entryVars
<1>4. QED
  BY <1>2, <1>3

(* So the invariant always holds.                                          *)
LEMMA StorageInvariant == StorageSpec => []StorageInv
<1>1. StorageInv /\ [StorageNext]_storageVars => StorageInv'
  BY StorageInvPreserved
<1>2. QED
  BY <1>1, StorageInitially, PTL DEF StorageSpec

(***************************************************************************)
(* Theorems                                                                *)
(***************************************************************************)

(* An entry that is archived has been idle for more than the threshold and *)
(* one ledger, whatever the calls touched and in which order.              *)
THEOREM LifetimesGuaranteed == StorageSpec => []TouchesKeepAlive
<1>1. StorageInv => TouchesKeepAlive
  BY DEF StorageInv, LifetimeInv, TouchesKeepAlive
<1>2. QED
  BY <1>1, StorageInvariant, PTL

(* Where the network's minimal TTL is not above the threshold, whoever     *)
(* brings an archived proof back pays for the full TTL.                    *)
THEOREM ProofsRestoredInFull ==
  ASSUME MinTtl <= TTL_THRESHOLD_LEDGERS
  PROVE  StorageSpec => RestoredInFull
<1> DEFINE Full(p) == watched = Proof(p) /\ ttl = Archived /\ ttl' # Archived
                        => ttl' = TTL_EXTEND_TO_LEDGERS
<1>1. ASSUME NEW p \in ProofId, NEW loads \in SUBSET {Instance}, NEW extends,
             Touch(loads, extends, {})
      PROVE  Full(p)
  <2> SUFFICES ASSUME watched = Proof(p), ttl = Archived, ttl' # Archived
               PROVE  ttl' = TTL_EXTEND_TO_LEDGERS
    OBVIOUS
  <2>1. watched \notin loads
    BY <1>1 DEF Instance, Proof
  <2>2. ttl' = Extended(Loaded(ttl))
    BY <1>1, <2>1 DEF Touch
  <2>3. QED
    BY <2>2, TtlAssumption DEF Loaded, Extended, Archived
<1>2. ASSUME NEW p \in ProofId, TtlNext
      PROVE  Full(p)
  <2>1. ASSUME NEW caller \in Address, Write(caller)
        PROVE  Full(p)
    BY <1>1, <2>1
    DEF Write, initialize_ttl, register_proof_ttl, set_revoked_ttl,
        approve_upgrade_ttl, revoke_upgrade_ttl, upgrade_contract_ttl
  <2>2. ReadInstance \/ (\E q \in ProofId : ReadProof(q)) => Full(p)
    BY <1>1 DEF ReadInstance, ReadProof
  <2>3. LedgerCloses \/ UNCHANGED entryVars => Full(p)
    BY DEF LedgerCloses, LedgerPasses, entryVars, Archived
  <2>4. QED
    BY <1>2, <2>1, <2>2, <2>3 DEF TtlNext
<1>3. StorageInv /\ [StorageNext]_storageVars
        => [\A p \in ProofId : Full(p)]_TtlVars
  BY <1>2 DEF StorageInv, StorageNext, storageVars, Proof
<1>4. QED
  BY <1>3, StorageInvariant, PTL DEF StorageSpec, RestoredInFull

(* Archival and restoration change what a call costs, never what it does:  *)
(* with the lifetimes of its entries, each contract still behaves as its   *)
(* own specification says.                                                 *)
THEOREM LifetimesAreTransparent ==
  StorageSpec => /\ contract = "proof-registry" => Spec
                 /\ contract = "issuer-registry" => Issuers!Spec
                 /\ contract = "protocol-config" => Config!Spec
<1>1. StorageInit => Init /\ Issuers!Init /\ Config!Init
  BY DEF StorageInit
<1>2. ASSUME [StorageNext]_storageVars
      PROVE  /\ UNCHANGED contract
             /\ contract = "proof-registry" => [Next]_proofVars
             /\ contract = "issuer-registry"
                  => [Issuers!Next]_(Issuers!registryVars)
             /\ contract = "protocol-config"
                  => [Config!Next]_(Config!configVars)
  <2>1. CASE UNCHANGED storageVars
    BY <2>1
    DEF storageVars, TtlVars, proofVars, wiring, environment,
        Issuers!registryVars, Config!configVars
  <2>2. CASE StorageNext
    BY <2>2, ProofTtlCalls, IssuerTtlCalls, ConfigTtlCalls DEF StorageNext
  <2>3. QED
    BY <1>2, <2>1, <2>2
<1>3. StorageSpec /\ contract = "proof-registry" => Spec
  <2>1. contract = "proof-registry" /\ [StorageNext]_storageVars
          => [Next]_proofVars /\ (contract = "proof-registry")'
    BY <1>2
  <2>2. QED
    BY <1>1, <2>1, PTL DEF StorageSpec, Spec
<1>4. StorageSpec /\ contract = "issuer-registry" => Issuers!Spec
  <2>1. contract = "issuer-registry" /\ [StorageNext]_storageVars
          => [Issuers!Next]_(Issuers!registryVars) /\ (contract = "issuer-registry")'
    BY <1>2
  <2>2. QED
    BY <1>1, <2>1, PTL DEF StorageSpec, Issuers!Spec
<1>5. StorageSpec /\ contract = "protocol-config" => Config!Spec
  <2>1. contract = "protocol-config" /\ [StorageNext]_storageVars
          => [Config!Next]_(Config!configVars) /\ (contract = "protocol-config")'
    BY <1>2
  <2>2. QED
    BY <1>1, <2>1, PTL DEF StorageSpec, Config!Spec
<1>6. QED
  BY <1>3, <1>4, <1>5
===============================================================================
