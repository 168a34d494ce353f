--------------------------- MODULE EarnProofProofs ---------------------------
(***************************************************************************)
(* In the composed system, where the proof registry may be wired to        *)
(* contracts of strangers, admission of proofs is as sound as the          *)
(* contracts it asks; with the deployment script at work too, whose        *)
(* manifest names a system that works and asks the deployed ones.          *)
(***************************************************************************)
EXTENDS DeployScript, TLAPS

(* The theorems about the contracts, at the system's variables.            *)
CfgP == INSTANCE ProtocolConfigProofs WITH
  admin <- cfgAdmin, paused <- cfgPaused, schema <- cfgSchema,
  configVersion <- cfgVersion, upgrade <- cfgUpgrade

IssP == INSTANCE IssuerRegistryProofs WITH admin <- irAdmin, upgrade <- irUpgrade

PrfP == INSTANCE ProofRegistryProofs WITH
  admin <- prAdmin, upgrade <- prUpgrade, Candidates <- Address,
  paused <- PausedAnswer, approved <- SchemaAnswer, active <- ActiveAnswer

(* The assumptions of the contracts' modules follow from the system's.     *)
LEMMA ContractAssumptions ==
  /\ CfgP!AddressAssumption /\ CfgP!UpgradeAssumption /\ CfgP!ConfigAssumption
  /\ IssP!AddressAssumption /\ IssP!UpgradeAssumption /\ IssP!IssuerAssumption
  /\ PrfP!AddressAssumption /\ PrfP!UpgradeAssumption /\ PrfP!ProofAssumption
BY AddressAssumption, SystemAssumption, RecordAssumption
DEF CfgP!AddressAssumption, CfgP!UpgradeAssumption, CfgP!ConfigAssumption,
    IssP!AddressAssumption, IssP!UpgradeAssumption, IssP!IssuerAssumption,
    PrfP!AddressAssumption, PrfP!UpgradeAssumption, PrfP!ProofAssumption,
    Issuers!IssuerRecord, IssP!IssuerRecord, Issuers!IssuerStatus,
    IssP!IssuerStatus, Issuers!Time, IssP!Time,
    Proofs!ProofRecord, PrfP!ProofRecord, Proofs!ProofStatus, PrfP!ProofStatus,
    Proofs!Time, PrfP!Time, Proofs!SchemaVersions, PrfP!SchemaVersions

(***************************************************************************)
(* The two sets of instances say the same: EarnProof's own and those of    *)
(* the proof modules.                                                      *)
(***************************************************************************)

(* protocol-config                                                         *)
LEMMA ConfigSame ==
  /\ Config!Init <=> CfgP!Init
  /\ Config!Next <=> CfgP!Next
  /\ Config!configVars = CfgP!configVars
  /\ Config!TypeOK <=> CfgP!TypeOK
  /\ Config!FailClosed <=> CfgP!FailClosed
<1>1. Config!Init <=> CfgP!Init
  BY DEF Config!Init, CfgP!Init, Config!UpgradeInit, CfgP!UpgradeInit,
         Config!SchemaVersions, CfgP!SchemaVersions
<1>2. ASSUME NEW c \in Address PROVE Config!UpgradeCall(c) <=> CfgP!UpgradeCall(c)
  BY DEF Config!UpgradeCall, CfgP!UpgradeCall, Config!approve_upgrade,
         CfgP!approve_upgrade, Config!revoke_upgrade, CfgP!revoke_upgrade,
         Config!upgrade_contract, CfgP!upgrade_contract,
         Config!ApproveUpgrade, CfgP!ApproveUpgrade,
         Config!ApproveUpgradeResult, CfgP!ApproveUpgradeResult,
         Config!RevokeUpgrade, CfgP!RevokeUpgrade, Config!RevokeUpgradeResult,
         CfgP!RevokeUpgradeResult, Config!UpgradeContract,
         CfgP!UpgradeContract, Config!UpgradeContractResult,
         CfgP!UpgradeContractResult, Config!NotAdvancing, CfgP!NotAdvancing,
         Config!is_upgrade_allowed, CfgP!is_upgrade_allowed, Config!Installed,
         CfgP!Installed, Config!ContractVersions, CfgP!ContractVersions,
         Config!Ok, CfgP!Ok, Config!AuthAbort, CfgP!AuthAbort,
         Config!settings, CfgP!settings
<1>3. ASSUME NEW c \in Address PROVE Config!ConfigCall(c) <=> CfgP!ConfigCall(c)
  BY DEF Config!ConfigCall, CfgP!ConfigCall, Config!initialize,
         CfgP!initialize, Config!InitializeResult, CfgP!InitializeResult,
         Config!set_admin, CfgP!set_admin, Config!SetAdminResult,
         CfgP!SetAdminResult, Config!pause, CfgP!pause, Config!unpause,
         CfgP!unpause, Config!SetPausedResult, CfgP!SetPausedResult,
         Config!approve_schema_version, CfgP!approve_schema_version,
         Config!deprecate_schema_version, CfgP!deprecate_schema_version,
         Config!SetSchemaResult, CfgP!SetSchemaResult, Config!FirstVersion,
         CfgP!FirstVersion, Config!bump_config_version,
         CfgP!bump_config_version, Config!BumpOverflows, CfgP!BumpOverflows,
         Config!SchemaVersions, CfgP!SchemaVersions,
         Config!is_valid_principal_address, CfgP!is_valid_principal_address,
         Config!Ok, CfgP!Ok, Config!AuthAbort, CfgP!AuthAbort
<1>4. Config!configVars = CfgP!configVars
  BY DEF Config!configVars, CfgP!configVars
<1>5. Config!TypeOK <=> CfgP!TypeOK
  BY DEF Config!TypeOK, CfgP!TypeOK, Config!UpgradeState, CfgP!UpgradeState,
         Config!ContractVersions, CfgP!ContractVersions,
         Config!SchemaVersions, CfgP!SchemaVersions
<1>6. Config!FailClosed <=> CfgP!FailClosed
  BY DEF Config!FailClosed, CfgP!FailClosed, Config!SchemaVersions,
         CfgP!SchemaVersions, Config!is_schema_version_approved,
         CfgP!is_schema_version_approved, Config!is_upgrade_allowed,
         CfgP!is_upgrade_allowed
<1>7. Config!Next <=> CfgP!Next
  BY <1>2, <1>3 DEF Config!Next, CfgP!Next
<1>8. QED
  BY <1>1, <1>4, <1>5, <1>6, <1>7

(* issuer-registry                                                         *)
LEMMA IssuersSame ==
  /\ Issuers!Init <=> IssP!Init
  /\ Issuers!Next <=> IssP!Next
  /\ Issuers!registryVars = IssP!registryVars
  /\ Issuers!TypeOK <=> IssP!TypeOK
  /\ Issuers!IndexMatchesRecords <=> IssP!IndexMatchesRecords
<1>1. Issuers!Init <=> IssP!Init
  BY DEF Issuers!Init, IssP!Init, Issuers!UpgradeInit, IssP!UpgradeInit,
         Issuers!Time, IssP!Time
<1>2. ASSUME NEW c \in Address PROVE Issuers!UpgradeCall(c) <=> IssP!UpgradeCall(c)
  BY DEF Issuers!UpgradeCall, IssP!UpgradeCall, Issuers!approve_upgrade,
         IssP!approve_upgrade, Issuers!revoke_upgrade, IssP!revoke_upgrade,
         Issuers!upgrade_contract, IssP!upgrade_contract,
         Issuers!ApproveUpgrade, IssP!ApproveUpgrade,
         Issuers!ApproveUpgradeResult, IssP!ApproveUpgradeResult,
         Issuers!RevokeUpgrade, IssP!RevokeUpgrade,
         Issuers!RevokeUpgradeResult, IssP!RevokeUpgradeResult,
         Issuers!UpgradeContract, IssP!UpgradeContract,
         Issuers!UpgradeContractResult, IssP!UpgradeContractResult,
         Issuers!NotAdvancing, IssP!NotAdvancing, Issuers!is_upgrade_allowed,
         IssP!is_upgrade_allowed, Issuers!Installed, IssP!Installed,
         Issuers!ContractVersions, IssP!ContractVersions, Issuers!Ok, IssP!Ok,
         Issuers!AuthAbort, IssP!AuthAbort
<1>3. ASSUME NEW c \in Address PROVE Issuers!IssuerCall(c) <=> IssP!IssuerCall(c)
  BY DEF Issuers!IssuerCall, IssP!IssuerCall, Issuers!initialize,
         IssP!initialize, Issuers!InitializeResult, IssP!InitializeResult,
         Issuers!register_issuer, IssP!register_issuer,
         Issuers!RegisterIssuerResult, IssP!RegisterIssuerResult,
         Issuers!NewIssuer, IssP!NewIssuer, Issuers!update_issuer,
         IssP!update_issuer, Issuers!UpdateIssuerResult,
         IssP!UpdateIssuerResult, Issuers!set_status, IssP!set_status,
         Issuers!SetStatusResult, IssP!SetStatusResult,
         Issuers!ForbiddenTransition, IssP!ForbiddenTransition,
         Issuers!suspend_issuer, IssP!suspend_issuer,
         Issuers!reactivate_issuer, IssP!reactivate_issuer,
         Issuers!revoke_issuer, IssP!revoke_issuer,
         Issuers!rotate_issuer_address, IssP!rotate_issuer_address,
         Issuers!RotateIssuerResult, IssP!RotateIssuerResult,
         Issuers!IndexAfterRotation, IssP!IndexAfterRotation,
         Issuers!Registered, IssP!Registered, Issuers!Revoked, IssP!Revoked,
         Issuers!AddressTaken, IssP!AddressTaken, Issuers!FirstVersion,
         IssP!FirstVersion, Issuers!is_valid_principal_address,
         IssP!is_valid_principal_address, Issuers!Ok, IssP!Ok,
         Issuers!AuthAbort, IssP!AuthAbort
<1>4. Issuers!registryVars = IssP!registryVars
  BY DEF Issuers!registryVars, IssP!registryVars
<1>5. Issuers!TypeOK <=> IssP!TypeOK
  BY DEF Issuers!TypeOK, IssP!TypeOK, Issuers!UpgradeState, IssP!UpgradeState,
         Issuers!ContractVersions, IssP!ContractVersions,
         Issuers!IssuerRecord, IssP!IssuerRecord, Issuers!IssuerStatus,
         IssP!IssuerStatus, Issuers!Time, IssP!Time
<1>6. Issuers!IndexMatchesRecords <=> IssP!IndexMatchesRecords
  BY DEF Issuers!IndexMatchesRecords, IssP!IndexMatchesRecords,
         Issuers!Registered, IssP!Registered
<1>7. Issuers!Next <=> IssP!Next
  BY <1>2, <1>3 DEF Issuers!Next, IssP!Next, Issuers!Tick, IssP!Tick
<1>8. QED
  BY <1>1, <1>4, <1>5, <1>6, <1>7

(* proof-registry                                                          *)
LEMMA ProofsSame ==
  /\ Proofs!Init <=> PrfP!Init
  /\ Proofs!Next <=> PrfP!Next
  /\ Proofs!proofVars = PrfP!proofVars
  /\ Proofs!TypeOK <=> PrfP!TypeOK
  /\ Proofs!MiswiredStaysEmpty <=> PrfP!MiswiredStaysEmpty
<1>1. Proofs!Init <=> PrfP!Init
  BY DEF Proofs!Init, PrfP!Init, Proofs!UpgradeInit, PrfP!UpgradeInit,
         Proofs!Time, PrfP!Time
<1>2. ASSUME NEW c \in Address PROVE Proofs!UpgradeCall(c) <=> PrfP!UpgradeCall(c)
  BY DEF Proofs!UpgradeCall, PrfP!UpgradeCall, Proofs!approve_upgrade,
         PrfP!approve_upgrade, Proofs!revoke_upgrade, PrfP!revoke_upgrade,
         Proofs!upgrade_contract, PrfP!upgrade_contract,
         Proofs!ApproveUpgrade, PrfP!ApproveUpgrade,
         Proofs!ApproveUpgradeResult, PrfP!ApproveUpgradeResult,
         Proofs!RevokeUpgrade, PrfP!RevokeUpgrade, Proofs!RevokeUpgradeResult,
         PrfP!RevokeUpgradeResult, Proofs!UpgradeContract,
         PrfP!UpgradeContract, Proofs!UpgradeContractResult,
         PrfP!UpgradeContractResult, Proofs!NotAdvancing, PrfP!NotAdvancing,
         Proofs!is_upgrade_allowed, PrfP!is_upgrade_allowed, Proofs!Installed,
         PrfP!Installed, Proofs!ContractVersions, PrfP!ContractVersions,
         Proofs!Ok, PrfP!Ok, Proofs!AuthAbort, PrfP!AuthAbort,
         Proofs!unaffectedByUpgrade, PrfP!unaffectedByUpgrade,
         Proofs!environment, PrfP!environment
<1>3. ASSUME NEW c \in Address PROVE Proofs!ProofCall(c) <=> PrfP!ProofCall(c)
  BY DEF Proofs!ProofCall, PrfP!ProofCall, Proofs!initialize, PrfP!initialize,
         Proofs!AnswersChange, PrfP!AnswersChange,
         Proofs!InitializeResult, PrfP!InitializeResult,
         Proofs!validate_dependency_addresses,
         PrfP!validate_dependency_addresses, Proofs!register_proof,
         PrfP!register_proof, Proofs!RegisterProofResult,
         PrfP!RegisterProofResult, Proofs!AlreadyExpired, PrfP!AlreadyExpired,
         Proofs!Duplicate, PrfP!Duplicate, Proofs!ConfigUnreachable,
         PrfP!ConfigUnreachable, Proofs!IssuersUnreachable,
         PrfP!IssuersUnreachable, Proofs!revoke_proof, PrfP!revoke_proof,
         Proofs!RevokeProofResult, PrfP!RevokeProofResult,
         Proofs!admin_revoke_proof, PrfP!admin_revoke_proof,
         Proofs!AdminRevokeProofResult, PrfP!AdminRevokeProofResult,
         Proofs!SetRevokedResult, PrfP!SetRevokedResult, Proofs!RevokedRecord,
         PrfP!RevokedRecord, Proofs!Registered, PrfP!Registered,
         Proofs!FirstVersion, PrfP!FirstVersion,
         Proofs!is_valid_principal_address, PrfP!is_valid_principal_address,
         Proofs!SchemaVersions, PrfP!SchemaVersions, Proofs!Time, PrfP!Time,
         Proofs!wiring, PrfP!wiring, Proofs!environment, PrfP!environment,
         Proofs!Ok, PrfP!Ok, Proofs!AuthAbort, PrfP!AuthAbort
<1>4. Proofs!proofVars = PrfP!proofVars
  BY DEF Proofs!proofVars, PrfP!proofVars, Proofs!wiring, PrfP!wiring,
         Proofs!environment, PrfP!environment
<1>5. Proofs!TypeOK <=> PrfP!TypeOK
  BY DEF Proofs!TypeOK, PrfP!TypeOK, Proofs!UpgradeState, PrfP!UpgradeState,
         Proofs!ContractVersions, PrfP!ContractVersions, Proofs!ProofRecord,
         PrfP!ProofRecord, Proofs!ProofStatus, PrfP!ProofStatus,
         Proofs!SchemaVersions, PrfP!SchemaVersions, Proofs!Time, PrfP!Time
<1>6. Proofs!MiswiredStaysEmpty <=> PrfP!MiswiredStaysEmpty
  BY DEF Proofs!MiswiredStaysEmpty, PrfP!MiswiredStaysEmpty,
         Proofs!Registered, PrfP!Registered
<1>7. Proofs!Next <=> PrfP!Next
  BY <1>2, <1>3 DEF Proofs!Next, PrfP!Next, Proofs!Tick, PrfP!Tick,
         Proofs!EnvironmentStep, PrfP!EnvironmentStep, Proofs!AnswersChange,
         PrfP!AnswersChange, Proofs!SchemaVersions,
         PrfP!SchemaVersions, Proofs!wiring, PrfP!wiring, Proofs!environment,
         PrfP!environment
<1>8. QED
  BY <1>1, <1>4, <1>5, <1>6, <1>7

(***************************************************************************)
(* The steps of the three contracts, whoever calls them: the accounts      *)
(* (Spec), or the accounts and the deployment script (DeploySpec).         *)
(***************************************************************************)
AnyConfigStep ==
  /\ UNCHANGED <<irVars, prVars, now, foreign>>
  /\ \E caller \in Address : Config!ConfigCall(caller)

AnyIssuerStep ==
  /\ UNCHANGED <<cfgVars, prVars, foreign>>
  /\ \E caller \in Address : Issuers!IssuerCall(caller)

AnyProofStep ==
  /\ UNCHANGED <<cfgVars, irVars, foreign>>
  /\ \E caller \in Address : Proofs!ProofCall(caller)

AnyNext ==
  AnyConfigStep \/ AnyIssuerStep \/ AnyProofStep \/ Tick \/ ForeignStep

AnySpec == Init /\ [][AnyNext]_vars

(* The accounts' steps are among them.                                     *)
LEMMA AccountSteps ==
  /\ ConfigStep => AnyConfigStep
  /\ IssuerStep => AnyIssuerStep
  /\ ProofStep => AnyProofStep
BY AccountAssumption
DEF ConfigStep, IssuerStep, ProofStep, AnyConfigStep, AnyIssuerStep, AnyProofStep

(* So the system is one of these.                                          *)
LEMMA SystemIsAny == Spec => AnySpec
<1>1. [Next]_vars => [AnyNext]_vars
  BY AccountSteps DEF Next, AnyNext
<1>2. QED
  BY <1>1, PTL DEF Spec, AnySpec

(* And so is a system that is being deployed: every command of the script  *)
(* is a call, repeated or not.                                             *)
LEMMA DeploymentIsAny == DeploySpec => AnySpec
<1>1. /\ Source \in Address /\ Admin \in Address /\ IssuerAddress \in Address
      /\ {ProofContract, IssuerContract, ConfigContract} \subseteq Address
      /\ BackendIssuer \in IssuerId /\ BackendMetadata \in Metadata
      /\ 1 \in Config!SchemaVersions
  BY DeployAssumption, SystemAssumption DEF Config!SchemaVersions
<1>2. /\ Config!initialize(Source, Admin) => Config!ConfigCall(Source)
      /\ Config!approve_schema_version(Source, 1) => Config!ConfigCall(Source)
  BY <1>1 DEF Config!ConfigCall
<1>3. InitializeConfig \/ ApproveSchema => AnyConfigStep \/ UNCHANGED vars
  BY <1>1, <1>2
  DEF InitializeConfig, ApproveSchema, Invoke, Invoke_WithRetry, AnyConfigStep
<1>4. /\ Issuers!initialize(Source, Admin) => Issuers!IssuerCall(Source)
      /\ Issuers!register_issuer(Source, BackendIssuer, IssuerAddress,
                                 BackendMetadata) => Issuers!IssuerCall(Source)
  BY <1>1 DEF Issuers!IssuerCall
<1>5. InitializeIssuers \/ RegisterIssuer => AnyIssuerStep \/ UNCHANGED vars
  BY <1>1, <1>4
  DEF InitializeIssuers, RegisterIssuer, Invoke, Invoke_WithRetry, AnyIssuerStep
<1>6. Proofs!initialize(Source, Admin, IssuerContract, ConfigContract)
        => Proofs!ProofCall(Source)
  BY <1>1 DEF Proofs!ProofCall
<1>7. InitializeProofs => AnyProofStep \/ UNCHANGED vars
  BY <1>1, <1>6 DEF InitializeProofs, Invoke, Invoke_WithRetry, AnyProofStep
<1>8. ScriptStep => [AnyNext]_vars
  BY <1>3, <1>5, <1>7 DEF ScriptStep, Deploy, WriteManifest, AnyNext
<1>9. Bystander => AnyNext
  BY AccountSteps DEF Bystander, AnyNext
<1>10. [DeployNext]_deployVars => [AnyNext]_vars
  BY <1>8, <1>9 DEF DeployNext, deployVars
<1>11. DeployInit => Init
  BY DEF DeployInit
<1>12. QED
  BY <1>10, <1>11, PTL DEF DeploySpec, AnySpec

(***************************************************************************)
(* Each contract, as the system's steps move it, follows its own           *)
(* specification.                                                          *)
(***************************************************************************)

(* Every step of the system is a step or a stutter of protocol-config.     *)
LEMMA ConfigInSystem ==
  /\ Init => Config!Init
  /\ [AnyNext]_vars => [Config!Next]_(Config!configVars)
<1>1. Init => Config!Init
  BY DEF Init
<1>2. AnyConfigStep => Config!Next
  BY DEF AnyConfigStep, Config!Next
<1>3. AnyIssuerStep \/ AnyProofStep \/ Tick \/ ForeignStep \/ UNCHANGED vars
        => UNCHANGED Config!configVars
  BY DEF AnyIssuerStep, AnyProofStep, Tick, ForeignStep, vars, cfgVars,
         Config!configVars
<1>4. QED
  BY <1>1, <1>2, <1>3 DEF AnyNext

(* Every step of the system is a step or a stutter of issuer-registry;     *)
(* the calls of proof-registry leave the clock alone.                      *)
LEMMA IssuersInSystem ==
  /\ Init => Issuers!Init
  /\ [AnyNext]_vars => [Issuers!Next]_(Issuers!registryVars)
<1>1. Init => Issuers!Init
  BY DEF Init
<1>2. AnyIssuerStep => Issuers!Next
  BY DEF AnyIssuerStep, Issuers!Next
<1>3. Tick => Issuers!Next
  BY DEF Tick, Issuers!Next
<1>4. AnyConfigStep \/ ForeignStep \/ UNCHANGED vars
        => UNCHANGED Issuers!registryVars
  BY DEF AnyConfigStep, ForeignStep, vars, irVars, Issuers!registryVars
<1>5. AnyProofStep => UNCHANGED now
  BY DEF AnyProofStep, Proofs!ProofCall, Proofs!initialize,
         Proofs!register_proof, Proofs!revoke_proof, Proofs!admin_revoke_proof
<1>6. AnyProofStep => UNCHANGED Issuers!registryVars
  BY <1>5 DEF AnyProofStep, irVars, Issuers!registryVars
<1>7. QED
  BY <1>1, <1>2, <1>3, <1>4, <1>6 DEF AnyNext

(* What the system's other lemmas use of protocol-config.                  *)
ConfigFacts == Config!TypeOK /\ Config!FailClosed

(* What is proved of protocol-config alone holds in the system.            *)
LEMMA ConfigFactsHold == AnySpec => []ConfigFacts
<1>1. Init => CfgP!Init
  BY ConfigInSystem, ConfigSame
<1>2. [AnyNext]_vars => [CfgP!Next]_(CfgP!configVars)
  BY ConfigInSystem, ConfigSame DEF Config!configVars, CfgP!configVars
<1>3. AnySpec => CfgP!Spec
  BY <1>1, <1>2, PTL DEF AnySpec, CfgP!Spec
<1>4. CfgP!Spec => []CfgP!TypeOK /\ []CfgP!FailClosed
  BY ContractAssumptions, CfgP!ConfigTypeCorrect, CfgP!ConfigFailsClosed
<1>5. CfgP!TypeOK /\ CfgP!FailClosed => ConfigFacts
  BY ConfigSame DEF ConfigFacts
<1>6. QED
  BY <1>3, <1>4, <1>5, PTL

(* What the system's other lemmas use of issuer-registry.                  *)
IssuerFacts ==
  Issuers!TypeOK /\ Issuers!IndexMatchesRecords /\ IssP!IssuersNeedAdmin

(* What is proved of issuer-registry alone holds in the system.            *)
LEMMA IssuerFactsHold == AnySpec => []IssuerFacts
<1>1. Init => IssP!Init
  BY IssuersInSystem, IssuersSame
<1>2. [AnyNext]_vars => [IssP!Next]_(IssP!registryVars)
  BY IssuersInSystem, IssuersSame DEF Issuers!registryVars, IssP!registryVars
<1>3. AnySpec => IssP!Spec
  BY <1>1, <1>2, PTL DEF AnySpec, IssP!Spec
<1>4. IssP!Spec =>
        []IssP!TypeOK /\ []IssP!IndexMatchesRecords /\ []IssP!IssuersNeedAdmin
  BY ContractAssumptions, IssP!TypeCorrect, IssP!IndexCorrect,
     IssP!IssuersHaveAdmin
<1>5. IssP!TypeOK /\ IssP!IndexMatchesRecords /\ IssP!IssuersNeedAdmin
        => IssuerFacts
  BY IssuersSame DEF IssuerFacts
<1>6. QED
  BY <1>3, <1>4, <1>5, PTL

(* The answers of a stranger's contract are answers.                       *)
ForeignFacts == foreign \in ForeignAnswers

(* They are so at all times.                                               *)
LEMMA ForeignTyped == AnySpec => []ForeignFacts
<1>1. Init => ForeignFacts
  BY DEF Init, ForeignFacts, ForeignAnswers
<1>2. ForeignFacts /\ [AnyNext]_vars => ForeignFacts'
  BY DEF AnyNext, AnyConfigStep, AnyIssuerStep, AnyProofStep, Tick, ForeignStep,
         vars, ForeignFacts, ForeignAnswers, Config!SchemaVersions
<1>3. QED
  BY <1>1, <1>2, PTL DEF AnySpec

(* What the contracts that proof-registry asks can be relied on for.       *)
AskedFacts == ConfigFacts /\ ForeignFacts

(* Whoever is asked, the answers are of their types, and 0 is not approved. *)
LEMMA AnswersTyped ==
  ASSUME AskedFacts'
  PROVE  /\ PausedAnswer' \in BOOLEAN
         /\ SchemaAnswer' \in SUBSET (Proofs!SchemaVersions \ {0})
         /\ ActiveAnswer' \in SUBSET Address
<1>1. cfgPaused' \in BOOLEAN
  BY Zenon DEF AskedFacts, ConfigFacts, Config!TypeOK
<1>2. /\ foreign'.paused \in BOOLEAN
      /\ foreign'.approved \in SUBSET (Proofs!SchemaVersions \ {0})
      /\ foreign'.active \in SUBSET Address
  BY AccountAssumption
  DEF AskedFacts, ForeignFacts, ForeignAnswers, Config!SchemaVersions,
      Proofs!SchemaVersions
<1>3. PausedAnswer' \in BOOLEAN
  BY <1>1, <1>2, Zenon DEF PausedAnswer
<1>4. SchemaAnswer' \in SUBSET (Proofs!SchemaVersions \ {0})
  BY <1>2
  DEF SchemaAnswer, ApprovedSchemas, Config!is_schema_version_approved,
      Config!SchemaVersions, Proofs!SchemaVersions
<1>5. ActiveAnswer' \in SUBSET Address
  BY <1>2 DEF ActiveAnswer, ActiveAddresses
<1>6. QED
  BY <1>3, <1>4, <1>5

(* Every step of the system is a step or a stutter of proof-registry:      *)
(* whatever the contracts do that it asks is a step of its environment.    *)
LEMMA ProofsInSystem ==
  /\ Init => Proofs!Init
  /\ AskedFacts' /\ [AnyNext]_vars => [Proofs!Next]_(Proofs!proofVars)
<1>1. ASSUME Init PROVE Proofs!Init
  <2>1. \A v \in Config!SchemaVersions : ~ Config!is_schema_version_approved(v)
    BY <1>1 DEF Init, Config!Init, Config!is_schema_version_approved
  <2>2. \A a \in Address : ~ Issuers!is_active_address(a)
    BY <1>1
    DEF Init, Issuers!Init, Issuers!is_active_address, Issuers!AddressTaken
  <2>3. ApprovedSchemas = {} /\ ActiveAddresses = {}
    BY <2>1, <2>2 DEF ApprovedSchemas, ActiveAddresses
  <2>4. ~ ForeignConfig /\ ~ ForeignIssuers
    BY <1>1, SystemAssumption, AddressAssumption
    DEF Init, ForeignConfig, ForeignIssuers
  <2>5. PausedAnswer = FALSE /\ SchemaAnswer = {} /\ ActiveAnswer = {}
    BY <1>1, <2>3, <2>4
    DEF Init, Config!Init, PausedAnswer, SchemaAnswer, ActiveAnswer
  <2>6. Proofs!UpgradeInit /\ now \in Proofs!Time
    BY <1>1 DEF Init, Config!Init, Config!UpgradeInit, Proofs!UpgradeInit,
                Issuers!Init, Issuers!Time, Proofs!Time
  <2>7. QED
    BY <1>1, <2>5, <2>6 DEF Init, Proofs!Init
<1>2. ASSUME UNCHANGED <<cfgVars, irVars, prVars, foreign>>
      PROVE  UNCHANGED Proofs!environment
  <2>1. ApprovedSchemas' = ApprovedSchemas
    BY <1>2 DEF cfgVars, ApprovedSchemas, Config!is_schema_version_approved
  <2>2. ActiveAddresses' = ActiveAddresses
    BY <1>2
    DEF irVars, ActiveAddresses, Issuers!is_active_address,
        Issuers!AddressTaken, Issuers!is_active_issuer, Issuers!Registered
  <2>3. UNCHANGED <<PausedAnswer, SchemaAnswer, ActiveAnswer>>
    BY <1>2, <2>1, <2>2
    DEF cfgVars, prVars, PausedAnswer, SchemaAnswer, ActiveAnswer,
        ForeignConfig, ForeignIssuers
  <2>4. QED
    BY <2>3 DEF Proofs!environment
<1>3. ASSUME AskedFacts', UNCHANGED <<prVars, now>>
      PROVE  Proofs!EnvironmentStep
  <2>1. /\ PausedAnswer' \in BOOLEAN
        /\ SchemaAnswer' \in SUBSET (Proofs!SchemaVersions \ {0})
        /\ ActiveAnswer' \in SUBSET Address
    BY <1>3, AnswersTyped
  <2>2. QED
    BY <1>3, <2>1, Zenon
    DEF prVars, Proofs!wiring, Proofs!EnvironmentStep, Proofs!AnswersChange
<1>4. AnyIssuerStep => UNCHANGED now
  BY DEF AnyIssuerStep, Issuers!IssuerCall, Issuers!initialize,
         Issuers!register_issuer, Issuers!update_issuer, Issuers!set_status,
         Issuers!suspend_issuer, Issuers!reactivate_issuer,
         Issuers!revoke_issuer, Issuers!rotate_issuer_address
<1>5. AskedFacts' /\ (AnyConfigStep \/ AnyIssuerStep \/ ForeignStep)
        => Proofs!Next
  BY <1>3, <1>4 DEF AnyConfigStep, AnyIssuerStep, ForeignStep, Proofs!Next
<1>6. AnyProofStep => Proofs!Next
  BY DEF AnyProofStep, Proofs!Next
<1>7. Tick => Proofs!Next
  BY <1>2 DEF Tick, Issuers!Tick, prVars, Proofs!wiring, Proofs!Tick, Proofs!Next
<1>8. UNCHANGED vars => UNCHANGED Proofs!proofVars
  BY <1>2 DEF vars, prVars, Proofs!wiring, Proofs!proofVars
<1>9. QED
  BY <1>1, <1>5, <1>6, <1>7, <1>8 DEF AnyNext

(* The contracts that are asked can be relied on that far at all times.    *)
LEMMA AskedFactsHold == AnySpec => []AskedFacts
BY ConfigFactsHold, ForeignTyped, PTL DEF AskedFacts

(* What is proved of proof-registry alone holds in the system.             *)
LEMMA ProofFactsHold == AnySpec => []PrfP!ProofInv
<1>1. Init => PrfP!Init
  BY ProofsInSystem, ProofsSame
<1>2. AskedFacts' /\ [AnyNext]_vars => [PrfP!Next]_(PrfP!proofVars)
  BY ProofsInSystem, ProofsSame
  DEF Proofs!proofVars, Proofs!wiring, Proofs!environment,
      PrfP!proofVars, PrfP!wiring, PrfP!environment
<1>3. AnySpec => PrfP!Spec
  BY <1>1, <1>2, AskedFactsHold, PTL DEF AnySpec, PrfP!Spec
<1>4. PrfP!Spec => []PrfP!ProofInv
  BY ContractAssumptions, PrfP!ProofInvariant
<1>5. QED
  BY <1>3, <1>4, PTL

(***************************************************************************)
(* What holds of the three contracts, whoever calls them.                  *)
(***************************************************************************)

(* Together they implement proof-registry's specification: its environment *)
(* assumption is met.                                                      *)
LEMMA AnyRefines == AnySpec => ProofsSpec
BY ProofsInSystem, AskedFactsHold, PTL DEF AnySpec, ProofsSpec, Proofs!Spec

(* Their variables keep their types.                                       *)
LEMMA AnyTypeCorrect == AnySpec => []TypeOK
<1>1. AskedFacts /\ IssuerFacts /\ PrfP!ProofInv => TypeOK
  BY ProofsSame DEF AskedFacts, ForeignFacts, ConfigFacts, IssuerFacts, PrfP!ProofInv, TypeOK
<1>2. QED
  BY <1>1, AskedFactsHold, IssuerFactsHold, ProofFactsHold, PTL

(* What admits a proof is a successful register_proof of its issuer.       *)
LEMMA AdmittedByRegistration ==
  ASSUME TypeOK, [AnyNext]_vars, NEW p \in ProofId, Admitted(p)
  PROVE  \E k \in Commitment, a \in Address, v \in Proofs!SchemaVersions,
            e \in Proofs!Time : Proofs!register_proof(a, p, k, a, v, e)
<1>1. proofs \in [ProofId -> Proofs!ProofRecord \union {NoProof}]
  BY DEF TypeOK, Proofs!TypeOK
<1>2. proofs'[p] # proofs[p]
  BY DEF Admitted, Proofs!Registered
<1>3. PICK c \in Address : Proofs!ProofCall(c)
  BY <1>2 DEF AnyNext, AnyConfigStep, AnyIssuerStep, AnyProofStep, Tick,
              ForeignStep, vars, prVars
<1>4. ASSUME NEW q \in ProofId, Proofs!Registered(q),
             proofs' = Proofs!RevokedRecord(q)
      PROVE  FALSE
  BY <1>1, <1>2, <1>4 DEF Proofs!RevokedRecord, Admitted
<1>5. ASSUME NEW q \in ProofId, Proofs!revoke_proof(c, q)
      PROVE  FALSE
  BY <1>4, <1>5
  DEF Proofs!revoke_proof, Proofs!RevokeProofResult, Ok, Proofs!Ok
<1>6. ASSUME NEW q \in ProofId, Proofs!admin_revoke_proof(c, q)
      PROVE  FALSE
  BY <1>4, <1>6
  DEF Proofs!admin_revoke_proof, Proofs!AdminRevokeProofResult,
      Proofs!SetRevokedResult, Proofs!Ok
<1>7. ASSUME NEW a \in Address, NEW ir \in Address, NEW pc \in Address,
             Proofs!initialize(c, a, ir, pc)
      PROVE  FALSE
  BY <1>2, <1>7 DEF Proofs!initialize
<1>8. ASSUME NEW q \in ProofId, NEW k \in Commitment, NEW a \in Address,
             NEW v \in Proofs!SchemaVersions, NEW e \in Proofs!Time,
             Proofs!register_proof(c, q, k, a, v, e)
      PROVE  q = p /\ c = a
  <2>1. q = p
    BY <1>1, <1>2, <1>8 DEF Proofs!register_proof
  <2>2. c = a
    BY <1>8
    DEF Proofs!register_proof, Proofs!RegisterProofResult, Proofs!Ok,
        Proofs!AuthAbort
  <2>3. QED
    BY <2>1, <2>2
<1>9. QED
  BY <1>3, <1>5, <1>6, <1>7, <1>8 DEF Proofs!ProofCall

(* What the deployed contracts say of a registration that goes through     *)
(* while they are the ones that are asked.                                 *)
LEMMA AdmittedByDeployed ==
  ASSUME TypeOK, ConfigFacts, IssuerFacts, NEW p \in ProofId,
         NEW k \in Commitment, NEW a \in Address, NEW v \in Proofs!SchemaVersions,
         NEW e \in Proofs!Time, Proofs!register_proof(a, p, k, a, v, e)
  PROVE  /\ protocolConfig = ConfigContract =>
              /\ cfgAdmin # NoAddress /\ ~ cfgPaused
              /\ cfgSchema[v] = "approved"
         /\ issuerRegistry = IssuerContract =>
              /\ addressIssuer[a] \in IssuerId
              /\ Issuers!is_active_issuer(addressIssuer[a])
<1>1. ~ PausedAnswer /\ v \in SchemaAnswer /\ a \in ActiveAnswer
  BY DEF Proofs!register_proof, Proofs!RegisterProofResult, Proofs!Ok,
         Proofs!AuthAbort
<1>2. ASSUME protocolConfig = ConfigContract
      PROVE  /\ cfgAdmin # NoAddress /\ ~ cfgPaused
             /\ cfgSchema[v] = "approved"
  <2>1. ~ ForeignConfig
    BY <1>2 DEF ForeignConfig
  <2>2. ~ cfgPaused /\ v \in ApprovedSchemas
    BY <1>1, <2>1 DEF PausedAnswer, SchemaAnswer
  <2>3. QED
    BY <2>2
    DEF ApprovedSchemas, Config!is_schema_version_approved, ConfigFacts,
        Config!FailClosed
<1>3. ASSUME issuerRegistry = IssuerContract
      PROVE  /\ addressIssuer[a] \in IssuerId
             /\ Issuers!is_active_issuer(addressIssuer[a])
  <2>1. ~ ForeignIssuers
    BY <1>3 DEF ForeignIssuers
  <2>2. a \in ActiveAddresses
    BY <1>1, <2>1 DEF ActiveAnswer
  <2>3. QED
    BY <2>2
    DEF ActiveAddresses, Issuers!is_active_address, Issuers!AddressTaken,
        IssuerFacts, Issuers!TypeOK
<1>4. QED
  BY <1>2, <1>3

(* A proof is admitted only with an expiry ahead; as far as the deployed   *)
(* contracts are asked, into a live, unpaused system, for an approved      *)
(* schema and for the address of an Active issuer.                         *)
LEMMA AnyAdmissionSound == AnySpec => AdmissionIsSound
<1> DEFINE Sound(p) ==
      LET r == proofs'[p] IN
         /\ now < r.expires_at /\ r.schema_version # 0
         /\ protocolConfig = ConfigContract =>
              /\ cfgAdmin # NoAddress /\ ~ cfgPaused
              /\ cfgSchema[r.schema_version] = "approved"
         /\ issuerRegistry = IssuerContract =>
              /\ \E i \in IssuerId :
                   /\ Issuers!is_active_issuer(i)
                   /\ issuers[i].issuer_address = r.issuer_address
              /\ \A i \in IssuerId :
                   /\ Issuers!Registered(i)
                   /\ issuers[i].issuer_address = r.issuer_address
                   => issuers[i].status = "Active"
<1>1. ASSUME TypeOK, ConfigFacts, IssuerFacts, [AnyNext]_vars,
             NEW p \in ProofId, Admitted(p)
      PROVE  Sound(p)
  <2>1. PICK k \in Commitment, a \in Address, v \in Proofs!SchemaVersions,
             e \in Proofs!Time : Proofs!register_proof(a, p, k, a, v, e)
    BY <1>1, AdmittedByRegistration
  <2>2. v # 0 /\ ~ Proofs!AlreadyExpired(e)
    BY <2>1
    DEF Proofs!register_proof, Proofs!RegisterProofResult, Proofs!Ok,
        Proofs!AuthAbort
  <2>3. /\ proofs'[p].schema_version = v /\ proofs'[p].expires_at = e
        /\ proofs'[p].issuer_address = a
    BY <1>1, <2>1 DEF Proofs!register_proof, TypeOK, Proofs!TypeOK
  <2>4. now < e
    BY <1>1, <2>2, SystemAssumption
    DEF Proofs!AlreadyExpired, TypeOK, Proofs!TypeOK, Proofs!Time
  <2>5. /\ protocolConfig = ConfigContract =>
             cfgAdmin # NoAddress /\ ~ cfgPaused /\ cfgSchema[v] = "approved"
        /\ issuerRegistry = IssuerContract =>
             /\ addressIssuer[a] \in IssuerId
             /\ Issuers!is_active_issuer(addressIssuer[a])
    BY <1>1, <2>1, AdmittedByDeployed
  <2>6. \A i \in IssuerId :
          addressIssuer[a] = i
            <=> Issuers!Registered(i) /\ issuers[i].issuer_address = a
    BY <1>1 DEF IssuerFacts, Issuers!IndexMatchesRecords
  <2>7. QED
    BY <2>2, <2>3, <2>4, <2>5, <2>6 DEF Issuers!is_active_issuer
<1>2. TypeOK /\ ConfigFacts /\ IssuerFacts /\ [AnyNext]_vars
        => [\A p \in ProofId : Admitted(p) => Sound(p)]_vars
  BY <1>1
<1>3. QED
  BY <1>2, AnyTypeCorrect, ConfigFactsHold, IssuerFactsHold, PTL
  DEF AnySpec, AdmissionIsSound

(* An administrator, once there, stays or hands over to another one.       *)
LEMMA AdminsStay ==
  ASSUME [AnyNext]_vars
  PROVE  /\ cfgAdmin # NoAddress => cfgAdmin' # NoAddress
         /\ irAdmin # NoAddress => irAdmin' # NoAddress
<1>1. AnyConfigStep => cfgAdmin' = cfgAdmin \/ cfgAdmin' \in Address
  BY DEF AnyConfigStep, Config!ConfigCall, Config!initialize, Config!set_admin,
         Config!pause, Config!unpause, Config!approve_schema_version,
         Config!deprecate_schema_version
<1>2. AnyIssuerStep => irAdmin' = irAdmin \/ irAdmin' \in Address
  BY DEF AnyIssuerStep, Issuers!IssuerCall, Issuers!initialize,
         Issuers!register_issuer, Issuers!update_issuer, Issuers!set_status,
         Issuers!suspend_issuer, Issuers!reactivate_issuer,
         Issuers!revoke_issuer, Issuers!rotate_issuer_address
<1>3. QED
  BY <1>1, <1>2, AddressAssumption
  DEF AnyNext, AnyConfigStep, AnyIssuerStep, AnyProofStep, Tick, ForeignStep,
      vars, cfgVars, irVars

(* The wiring of an initialised proof registry stays.                      *)
LEMMA WiringStays ==
  ASSUME [AnyNext]_vars, prAdmin # NoAddress
  PROVE  UNCHANGED <<issuerRegistry, protocolConfig>>
<1>1. AnyProofStep => UNCHANGED <<issuerRegistry, protocolConfig>>
  BY DEF AnyProofStep, Proofs!ProofCall, Proofs!initialize,
         Proofs!InitializeResult, Proofs!register_proof, Proofs!revoke_proof,
         Proofs!admin_revoke_proof, Proofs!wiring, Proofs!Ok
<1>2. QED
  BY <1>1 DEF AnyNext, AnyConfigStep, AnyIssuerStep, Tick, ForeignStep, vars, prVars

(* No order of deployment steps lets a proof in before proof-registry and  *)
(* those of the other two it is wired to are initialised.                  *)
LEMMA AnyFailsClosed == AnySpec => []DeploymentFailsClosed
<1> DEFINE SomeProof == \E p \in ProofId : Proofs!Registered(p)
           Live == /\ issuerRegistry = IssuerContract => irAdmin # NoAddress
                   /\ protocolConfig = ConfigContract => cfgAdmin # NoAddress
<1>1. Init => (SomeProof => Live)
  BY DEF Init, Proofs!Registered
<1>2. ASSUME PrfP!ProofInv
      PROVE  /\ Proofs!MiswiredStaysEmpty
             /\ \A p \in ProofId : Proofs!Registered(p) => prAdmin # NoAddress
  <2>1. \A p \in ProofId : Proofs!Registered(p) => prAdmin # NoAddress
    BY <1>2, ContractAssumptions, PrfP!ProofsHaveAdmin
    DEF Proofs!Registered, PrfP!Registered
  <2>2. Proofs!MiswiredStaysEmpty
    BY <1>2, ProofsSame DEF PrfP!ProofInv
  <2>3. QED
    BY <2>1, <2>2
<1>3. ASSUME TypeOK, ConfigFacts, IssuerFacts, PrfP!ProofInv,
             SomeProof => Live, [AnyNext]_vars
      PROVE  SomeProof' => Live'
  <2>1. CASE SomeProof
    <3>1. UNCHANGED <<issuerRegistry, protocolConfig>>
      BY <1>2, <1>3, <2>1, WiringStays
    <3>2. QED
      BY <1>3, <2>1, <3>1, AdminsStay
  <2>2. CASE ~ SomeProof
    <3> SUFFICES ASSUME NEW p \in ProofId, Admitted(p)
                 PROVE  Live'
      BY <2>2 DEF Admitted
    <3>1. PICK k \in Commitment, a \in Address, v \in Proofs!SchemaVersions,
               e \in Proofs!Time : Proofs!register_proof(a, p, k, a, v, e)
      BY <1>3, AdmittedByRegistration
    <3>2. UNCHANGED <<issuerRegistry, protocolConfig>>
      BY <3>1 DEF Proofs!register_proof, Proofs!wiring
    <3>3. /\ protocolConfig = ConfigContract => cfgAdmin # NoAddress
          /\ issuerRegistry = IssuerContract =>
               /\ addressIssuer[a] \in IssuerId
               /\ Issuers!is_active_issuer(addressIssuer[a])
      BY <1>3, <3>1, AdmittedByDeployed
    <3>4. issuerRegistry = IssuerContract => irAdmin # NoAddress
      BY <1>3, <3>3
      DEF IssuerFacts, IssP!IssuersNeedAdmin, IssP!Registered,
          Issuers!Registered, Issuers!is_active_issuer
    <3>5. QED
      BY <1>3, <3>2, <3>3, <3>4, AdminsStay
  <2>3. QED
    BY <2>1, <2>2
<1>4. ASSUME SomeProof => Live, PrfP!ProofInv PROVE DeploymentFailsClosed
  BY <1>2, <1>4 DEF Proofs!MiswiredStaysEmpty, DeploymentFailsClosed
<1>5. QED
  BY <1>1, <1>3, <1>4, AnyTypeCorrect, ConfigFactsHold, IssuerFactsHold,
     ProofFactsHold, PTL DEF AnySpec

(***************************************************************************)
(* Theorems about the running system                                       *)
(***************************************************************************)

(* The system implements proof-registry's specification: the contracts     *)
(* that it asks, deployed or a stranger's, meet its environment            *)
(* assumption.                                                             *)
THEOREM ProofsRefined == Spec => ProofsSpec
BY SystemIsAny, AnyRefines

(* The system's type invariant TypeOK.                                     *)
THEOREM SystemTypeCorrect == Spec => []TypeOK
BY SystemIsAny, AnyTypeCorrect

(* A proof is admitted only with an expiry ahead and, as far as the proof  *)
(* registry is wired to the deployed contracts, into a live, unpaused      *)
(* system, for an approved schema and for the address of an Active issuer. *)
THEOREM AdmissionSound == Spec => AdmissionIsSound
BY SystemIsAny, AnyAdmissionSound

(* No order of deployment steps lets a proof in before proof-registry and  *)
(* those of the other two it is wired to are initialised, nor into a       *)
(* registry wired to addresses where nothing answers.                      *)
THEOREM DeploymentClosed == Spec => []DeploymentFailsClosed
BY SystemIsAny, AnyFailsClosed

(***************************************************************************)
(* Theorems about the deployment script                                    *)
(***************************************************************************)

(* While the script of deploy-testnet.ps1 runs, with answers lost and      *)
(* commands repeated, and everybody else calls the contracts between its   *)
(* steps or wires the registry to contracts of strangers, the registry     *)
(* follows its own specification: what is proved of it holds during its    *)
(* deployment.                                                             *)
THEOREM DeploymentUsesRegistry == DeploySpec => ProofsSpec
BY DeploymentIsAny, AnyRefines

(* No proof is admitted before the contracts that vouch for it are live,   *)
(* nor unsoundly after it, while the script is at work.                    *)
THEOREM DeploymentAdmission ==
  DeploySpec => AdmissionIsSound /\ []DeploymentFailsClosed
BY DeploymentIsAny, AnyAdmissionSound, AnyFailsClosed

(***************************************************************************)
(* The manifest.  Each command leaves a fact behind that holds from the    *)
(* next one on: a contract that obeys Source obeys nobody else, and a      *)
(* contract that somebody else initialised first refuses the script's own  *)
(* initialize, after which the script does not get past it.                *)
(***************************************************************************)
FromManifest  == {"manifest", "done"}
FromProofs    == {"init proofs"} \union FromManifest
FromBackend   == {"register issuer"} \union FromProofs
FromIssuers   == {"init issuers"} \union FromBackend
FromSchema    == {"approve schema"} \union FromIssuers

ConfigOwned == step \in FromSchema => Admin = Source /\ cfgAdmin = Source
ConfigOpen  == step \in FromSchema => cfgPaused = FALSE
SchemaReady == step \in FromIssuers => cfgSchema[1] = "approved"
IssuersOwned == step \in FromBackend => irAdmin = Source
BackendReady ==
  step \in FromProofs =>
    /\ is_valid_principal_address(IssuerAddress)
    /\ addressIssuer[IssuerAddress] = BackendIssuer
    /\ Issuers!is_active_issuer(BackendIssuer)
ProofsWired ==
  step \in FromManifest =>
    /\ prAdmin = Source
    /\ issuerRegistry = IssuerContract /\ protocolConfig = ConfigContract

DeployInv ==
  /\ ConfigOwned /\ ConfigOpen /\ SchemaReady
  /\ IssuersOwned /\ BackendReady /\ ProofsWired

(* A contract whose administrator is Source refuses everybody else.        *)
LEMMA OwnedContractsRefuse ==
  ASSUME NEW c \in Account
  PROVE  /\ cfgAdmin = Source => ~ Config!ConfigCall(c)
         /\ irAdmin = Source => ~ Issuers!IssuerCall(c)
         /\ prAdmin = Source /\ Proofs!ProofCall(c)
              => UNCHANGED <<prAdmin, issuerRegistry, protocolConfig>>
<1>1. c # Source /\ Source # NoAddress
  BY DeployAssumption, AddressAssumption
<1>2. cfgAdmin = Source => ~ Config!ConfigCall(c)
  BY <1>1
  DEF Config!ConfigCall, Config!initialize, Config!InitializeResult,
      Config!set_admin, Config!SetAdminResult, Config!pause, Config!unpause,
      Config!SetPausedResult, Config!approve_schema_version,
      Config!deprecate_schema_version, Config!SetSchemaResult, Config!Ok,
      Config!AuthAbort
<1>3. irAdmin = Source => ~ Issuers!IssuerCall(c)
  BY <1>1
  DEF Issuers!IssuerCall, Issuers!initialize, Issuers!InitializeResult,
      Issuers!register_issuer, Issuers!RegisterIssuerResult,
      Issuers!update_issuer, Issuers!UpdateIssuerResult,
      Issuers!suspend_issuer, Issuers!reactivate_issuer, Issuers!revoke_issuer,
      Issuers!set_status, Issuers!SetStatusResult,
      Issuers!rotate_issuer_address, Issuers!RotateIssuerResult, Issuers!Ok,
      Issuers!AuthAbort
<1>4. prAdmin = Source /\ Proofs!ProofCall(c)
        => UNCHANGED <<prAdmin, issuerRegistry, protocolConfig>>
  BY <1>1
  DEF Proofs!ProofCall, Proofs!initialize, Proofs!InitializeResult,
      Proofs!register_proof, Proofs!revoke_proof, Proofs!admin_revoke_proof,
      Proofs!wiring, Proofs!Ok
<1>5. QED
  BY <1>2, <1>3, <1>4

(* Bystanders undo nothing of what the script has achieved.                *)
LEMMA BystanderKeepsDeployment ==
  ASSUME DeployInv, Bystander
  PROVE  DeployInv'
<1>1. UNCHANGED step
  BY DEF Bystander, scriptVars
<1>2. ASSUME UNCHANGED cfgVars
      PROVE  ConfigOwned' /\ ConfigOpen' /\ SchemaReady'
  BY <1>1, <1>2 DEF DeployInv, ConfigOwned, ConfigOpen, SchemaReady, cfgVars
<1>3. ASSUME UNCHANGED irVars
      PROVE  IssuersOwned' /\ BackendReady'
  BY <1>1, <1>3
  DEF DeployInv, IssuersOwned, BackendReady, irVars, Issuers!is_active_issuer,
      Issuers!Registered
<1>4. ASSUME UNCHANGED prVars
      PROVE  ProofsWired'
  BY <1>1, <1>4 DEF DeployInv, ProofsWired, prVars
<1>5. CASE ConfigStep
  <2>1. step \notin FromSchema
    BY <1>5, OwnedContractsRefuse DEF ConfigStep, DeployInv, ConfigOwned
  <2>2. ConfigOwned' /\ ConfigOpen' /\ SchemaReady'
    BY <1>1, <2>1 DEF ConfigOwned, ConfigOpen, SchemaReady, FromSchema
  <2>3. QED
    BY <1>3, <1>4, <1>5, <2>2 DEF ConfigStep, DeployInv
<1>6. CASE IssuerStep
  <2>1. step \notin FromBackend
    BY <1>6, OwnedContractsRefuse DEF IssuerStep, DeployInv, IssuersOwned
  <2>2. IssuersOwned' /\ BackendReady'
    BY <1>1, <2>1 DEF IssuersOwned, BackendReady, FromBackend
  <2>3. QED
    BY <1>2, <1>4, <1>6, <2>2 DEF IssuerStep, DeployInv
<1>7. CASE ProofStep
  <2>1. ProofsWired'
    BY <1>1, <1>7, OwnedContractsRefuse DEF ProofStep, DeployInv, ProofsWired
  <2>2. QED
    BY <1>2, <1>3, <1>7, <2>1 DEF ProofStep, DeployInv
<1>8. CASE Tick \/ ForeignStep
  BY <1>2, <1>3, <1>4, <1>8 DEF Tick, ForeignStep, DeployInv
<1>9. QED
  BY <1>5, <1>6, <1>7, <1>8 DEF Bystander

(* Each step of the script leaves its fact behind and keeps the others.    *)
LEMMA ScriptKeepsDeployment ==
  ASSUME TypeOK, DeployInv, ScriptStep
  PROVE  DeployInv'
<1> USE DEF FromSchema, FromIssuers, FromBackend, FromProofs, FromManifest
<1>1. ASSUME step' \notin FromSchema
      PROVE  DeployInv'
  BY <1>1 DEF DeployInv, ConfigOwned, ConfigOpen, SchemaReady, IssuersOwned,
              BackendReady, ProofsWired
<1>2. ASSUME UNCHANGED vars, UNCHANGED step \/ step' = "failed"
      PROVE  DeployInv'
  BY <1>2
  DEF DeployInv, ConfigOwned, ConfigOpen, SchemaReady, IssuersOwned,
      BackendReady, ProofsWired, vars, cfgVars, irVars, prVars,
      Issuers!is_active_issuer, Issuers!Registered
<1>3. ASSUME NEW here \in {"deploy config", "deploy issuers", "deploy proofs"},
             NEW contract,
             NEW next \in {"deploy issuers", "deploy proofs", "init config"},
             Deploy(here, contract, next)
      PROVE  DeployInv'
  BY <1>1, <1>3 DEF Deploy, Again, Advance
<1>4. CASE InitializeConfig
  <2>1. CASE UNCHANGED vars /\ (UNCHANGED step \/ step' = "failed")
    BY <1>2, <2>1
  <2>2. CASE Config!initialize(Source, Admin)
    <3>1. Admin = Source /\ cfgAdmin' = Source /\ cfgPaused' = FALSE
      BY <2>2 DEF Config!initialize, Config!InitializeResult, Config!Ok,
                  Config!AuthAbort
    <3>2. step' \in {"init config", "approve schema", "failed"}
      BY <1>4 DEF InitializeConfig, Invoke, Invoke_WithRetry, Again, Advance
    <3>3. QED
      BY <3>1, <3>2 DEF DeployInv, ConfigOwned, ConfigOpen, SchemaReady,
                        IssuersOwned, BackendReady, ProofsWired
  <2>3. QED
    BY <1>4, <2>1, <2>2 DEF InitializeConfig, Invoke, Invoke_WithRetry, Again, Advance
<1>5. CASE ApproveSchema
  <2>1. CASE UNCHANGED vars /\ (UNCHANGED step \/ step' = "failed")
    BY <1>2, <2>1
  <2>2. CASE Config!approve_schema_version(Source, 1)
    <3>1. UNCHANGED <<cfgAdmin, cfgPaused>> /\ cfgSchema'[1] = "approved"
      <4>1. cfgSchema \in [Config!SchemaVersions -> {"absent", "approved", "deprecated"}]
        BY DEF TypeOK, Config!TypeOK
      <4>2. 1 \in Config!SchemaVersions
        BY DeployAssumption, SystemAssumption DEF Config!SchemaVersions
      <4>3. QED
        BY <2>2, <4>1, <4>2 DEF Config!approve_schema_version
    <3>2. step = "approve schema" /\ step' \in {"approve schema", "init issuers", "failed"}
      BY <1>5 DEF ApproveSchema, Invoke, Invoke_WithRetry, Again, Advance
    <3>3. QED
      BY <3>1, <3>2 DEF DeployInv, ConfigOwned, ConfigOpen, SchemaReady,
                        IssuersOwned, BackendReady, ProofsWired
  <2>3. QED
    BY <1>5, <2>1, <2>2 DEF ApproveSchema, Invoke, Invoke_WithRetry, Again, Advance
<1>6. CASE InitializeIssuers
  <2>1. CASE UNCHANGED vars /\ (UNCHANGED step \/ step' = "failed")
    BY <1>2, <2>1
  <2>2. CASE UNCHANGED cfgVars /\ Issuers!initialize(Source, Admin)
    <3>1. irAdmin' = Source
      BY <2>2 DEF Issuers!initialize, Issuers!InitializeResult, Issuers!Ok,
                  Issuers!AuthAbort
    <3>2. step = "init issuers" /\ step' \in {"init issuers", "register issuer", "failed"}
      BY <1>6 DEF InitializeIssuers, Invoke, Invoke_WithRetry, Again, Advance
    <3>3. QED
      BY <2>2, <3>1, <3>2
      DEF cfgVars, DeployInv, ConfigOwned, ConfigOpen, SchemaReady,
          IssuersOwned, BackendReady, ProofsWired
  <2>3. QED
    BY <1>6, <2>1, <2>2 DEF InitializeIssuers, Invoke, Invoke_WithRetry, Again, Advance
<1>7. CASE RegisterIssuer
  <2>1. CASE UNCHANGED vars /\ (UNCHANGED step \/ step' = "failed")
    BY <1>2, <2>1
  <2>2. CASE /\ UNCHANGED cfgVars
             /\ Issuers!register_issuer(Source, BackendIssuer, IssuerAddress,
                                        BackendMetadata)
    <3>1. /\ is_valid_principal_address(IssuerAddress)
          /\ UNCHANGED irAdmin
      BY <2>2 DEF Issuers!register_issuer, Issuers!RegisterIssuerResult,
                  Issuers!Ok, Issuers!is_valid_principal_address,
                  is_valid_principal_address
    <3>2. /\ addressIssuer'[IssuerAddress] = BackendIssuer
          /\ issuers'[BackendIssuer]
               = Issuers!NewIssuer(IssuerAddress, BackendMetadata)
      BY <2>2, DeployAssumption
      DEF TypeOK, Issuers!TypeOK, Issuers!register_issuer
    <3>3. /\ Issuers!NewIssuer(IssuerAddress, BackendMetadata)
               \in Issuers!IssuerRecord
          /\ Issuers!NewIssuer(IssuerAddress, BackendMetadata).status = "Active"
      BY DeployAssumption
      DEF TypeOK, Issuers!TypeOK, Issuers!NewIssuer, Issuers!IssuerRecord,
          Issuers!IssuerStatus
    <3>4. Issuers!is_active_issuer(BackendIssuer)'
      BY <3>2, <3>3, RecordAssumption
      DEF Issuers!is_active_issuer, Issuers!Registered
    <3>5. /\ step = "register issuer"
          /\ step' \in {"register issuer", "init proofs", "failed"}
      BY <1>7 DEF RegisterIssuer, Invoke, Invoke_WithRetry, Again, Advance
    <3>6. QED
      BY <2>2, <3>1, <3>2, <3>4, <3>5
      DEF cfgVars, DeployInv, ConfigOwned, ConfigOpen, SchemaReady,
          IssuersOwned, BackendReady, ProofsWired
  <2>3. QED
    BY <1>7, <2>1, <2>2 DEF RegisterIssuer, Invoke, Invoke_WithRetry, Again, Advance
<1>8. CASE InitializeProofs
  <2>1. CASE UNCHANGED vars /\ (UNCHANGED step \/ step' = "failed")
    BY <1>2, <2>1
  <2>2. CASE /\ UNCHANGED <<cfgVars, irVars>>
             /\ Proofs!initialize(Source, Admin, IssuerContract, ConfigContract)
    <3>1. /\ prAdmin' = Source
          /\ issuerRegistry' = IssuerContract /\ protocolConfig' = ConfigContract
      BY <2>2 DEF Proofs!initialize, Proofs!InitializeResult, Proofs!Ok,
                  Proofs!AuthAbort
    <3>2. step = "init proofs" /\ step' \in {"init proofs", "manifest", "failed"}
      BY <1>8 DEF InitializeProofs, Invoke, Invoke_WithRetry, Again, Advance
    <3>3. QED
      BY <2>2, <3>1, <3>2
      DEF cfgVars, irVars, DeployInv, ConfigOwned, ConfigOpen, SchemaReady,
          IssuersOwned, BackendReady, ProofsWired, Issuers!is_active_issuer,
          Issuers!Registered
  <2>3. QED
    BY <1>8, <2>1, <2>2 DEF InitializeProofs, Invoke, Invoke_WithRetry, Again, Advance
<1>9. CASE WriteManifest
  BY <1>9
  DEF WriteManifest, Advance, vars, cfgVars, irVars, prVars, DeployInv,
      ConfigOwned, ConfigOpen, SchemaReady, IssuersOwned, BackendReady,
      ProofsWired, Issuers!is_active_issuer, Issuers!Registered
<1>10. QED
  BY <1>3, <1>4, <1>5, <1>6, <1>7, <1>8, <1>9 DEF ScriptStep

(* What the script has achieved at its last step is what the manifest      *)
(* promises.                                                               *)
LEMMA AchievedIsOperational ==
  ASSUME TypeOK, DeployInv
  PROVE  ManifestIsOperational
<1> SUFFICES ASSUME step \in FromManifest
             PROVE  /\ cfgAdmin = Admin /\ irAdmin = Admin /\ prAdmin = Admin
                    /\ issuerRegistry = IssuerContract
                    /\ protocolConfig = ConfigContract
                    /\ \A p \in ProofId, e \in Proofs!Time :
                         ~ Proofs!Registered(p) /\ e > now =>
                           Proofs!RegisterProofResult(IssuerAddress, p,
                                                      IssuerAddress, 1, e) = Ok
  BY DEF ManifestIsOperational, FromManifest
<1>1. /\ Admin = Source /\ cfgAdmin = Source /\ cfgPaused = FALSE
      /\ cfgSchema[1] = "approved" /\ irAdmin = Source
      /\ is_valid_principal_address(IssuerAddress)
      /\ addressIssuer[IssuerAddress] = BackendIssuer
      /\ Issuers!is_active_issuer(BackendIssuer)
      /\ prAdmin = Source
      /\ issuerRegistry = IssuerContract /\ protocolConfig = ConfigContract
  BY DEF DeployInv, ConfigOwned, ConfigOpen, SchemaReady, IssuersOwned,
         BackendReady, ProofsWired, FromSchema, FromIssuers, FromBackend,
         FromProofs, FromManifest
<1>2. ~ PausedAnswer /\ 1 \in SchemaAnswer
  BY <1>1, DeployAssumption, SystemAssumption
  DEF PausedAnswer, SchemaAnswer, ForeignConfig, ApprovedSchemas,
      Config!is_schema_version_approved, Config!SchemaVersions
<1>3. IssuerAddress \in ActiveAnswer
  BY <1>1, DeployAssumption, SystemAssumption
  DEF ActiveAnswer, ForeignIssuers, ActiveAddresses, Issuers!is_active_address,
      Issuers!AddressTaken
<1>4. /\ NoAddress \notin {protocolConfig, issuerRegistry}
      /\ IssuerAddress \notin {ProofContract, protocolConfig, issuerRegistry}
  BY <1>1, DeployAssumption, SystemAssumption, AddressAssumption
<1>5. ASSUME NEW p \in ProofId, NEW e \in Proofs!Time,
             ~ Proofs!Registered(p), e > now
      PROVE  Proofs!RegisterProofResult(IssuerAddress, p, IssuerAddress, 1, e) = Ok
  <2>1. ~ Proofs!AlreadyExpired(e)
    BY <1>5, SystemAssumption
    DEF Proofs!AlreadyExpired, TypeOK, Proofs!TypeOK, Proofs!Time
  <2>2. Proofs!is_valid_principal_address(IssuerAddress)
    BY <1>1 DEF Proofs!is_valid_principal_address, is_valid_principal_address
  <2>3. QED
    BY <1>1, <1>2, <1>3, <1>4, <1>5, <2>1, <2>2, SystemAssumption
    DEF Proofs!RegisterProofResult, Proofs!ConfigUnreachable,
        Proofs!IssuersUnreachable, Proofs!Duplicate, Proofs!Ok, Ok
<1>6. QED
  BY <1>1, <1>5

(* Whoever called the contracts between two commands of the script, and    *)
(* whatever answers were lost, the manifest it writes names a system that  *)
(* obeys Admin and in which the backend issuer can register proofs.        *)
THEOREM ManifestOperational == DeploySpec => []ManifestIsOperational
<1>1. DeployInit => DeployInv
  BY DEF DeployInit, ScriptInit, DeployInv, ConfigOwned, ConfigOpen,
         SchemaReady, IssuersOwned, BackendReady, ProofsWired, FromSchema,
         FromIssuers, FromBackend, FromProofs, FromManifest
<1>2. TypeOK /\ DeployInv /\ [DeployNext]_deployVars => DeployInv'
  <2>1. ASSUME DeployInv, UNCHANGED deployVars
        PROVE  DeployInv'
    BY <2>1
    DEF deployVars, scriptVars, vars, cfgVars, irVars, prVars, DeployInv,
        ConfigOwned, ConfigOpen, SchemaReady, IssuersOwned, BackendReady,
        ProofsWired, Issuers!is_active_issuer, Issuers!Registered
  <2>2. QED
    BY <2>1, ScriptKeepsDeployment, BystanderKeepsDeployment DEF DeployNext
<1>3. QED
  BY <1>1, <1>2, DeploymentIsAny, AnyTypeCorrect, AchievedIsOperational, PTL
  DEF DeploySpec
==============================================================================
