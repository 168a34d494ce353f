------------------------ MODULE ProtocolConfigProofs ------------------------
(***************************************************************************)
(* Theorems about protocol-config.                                         *)
(***************************************************************************)
EXTENDS ProtocolConfig, UpgradeGovernanceProofs

(* An upgrade call of this contract is an upgrade step that leaves the     *)
(* configuration alone.                                                    *)
LEMMA UpgradeCallStep ==
  ASSUME NEW caller, UpgradeCall(caller)
  PROVE  /\ \E h \in WasmHash : UpgradeStep(caller, h)
         /\ UNCHANGED <<paused, schema, configVersion>>
BY DEF UpgradeCall, approve_upgrade, revoke_upgrade, upgrade_contract,
       UpgradeStep, settings

(* The one write that initialize makes to the upgrade state.               *)
LEMMA FirstVersionTyped ==
  ASSUME upgrade \in UpgradeState
  PROVE  FirstVersion \in UpgradeState
BY UpgradeAssumption DEF FirstVersion, UpgradeState, ContractVersions

(***************************************************************************)
(* What a configuration call does to the counter                           *)
(***************************************************************************)

(* The calls other than initialize, and the counter under each of them.    *)
LEMMA BumpAdvances ==
  ASSUME configVersion \in 0 .. MaxU32, ~ BumpOverflows, bump_config_version
  PROVE  /\ configVersion' = configVersion + 1
         /\ configVersion' \in 0 .. MaxU32
BY ConfigAssumption DEF BumpOverflows, bump_config_version

(* One step of the contract, seen from its configuration: a first          *)
(* initialisation, a counted change by the administrator that leaves the   *)
(* upgrade state alone, or no change of the configuration at all.          *)
FirstConfig ==
  /\ admin = NoAddress /\ admin' \in Address
  /\ paused' = FALSE /\ UNCHANGED schema
  /\ configVersion' = 1 /\ upgrade' = FirstVersion

CountedChange ==
  /\ admin # NoAddress
  /\ configVersion' = configVersion + 1 /\ configVersion' \in 0 .. MaxU32
  /\ UNCHANGED upgrade
  /\ \/ admin' \in Address /\ UNCHANGED <<paused, schema>>
     \/ UNCHANGED admin /\ paused' \in BOOLEAN /\ UNCHANGED schema
     \/ /\ UNCHANGED <<admin, paused>>
        /\ \E v \in SchemaVersions \ {0}, s \in {"approved", "deprecated"} :
             schema' = [schema EXCEPT ![v] = s]

OtherStep ==
  /\ UNCHANGED <<paused, schema, configVersion>>
  /\ \/ UNCHANGED <<admin, upgrade>>
     \/ \E caller \in Address, h \in WasmHash : UpgradeStep(caller, h)

(* Every step is of one of the three kinds.                                *)
LEMMA StepKinds ==
  ASSUME TypeOK, [Next]_configVars
  PROVE  FirstConfig \/ CountedChange \/ OtherStep
<1> USE DEF TypeOK, Ok, AuthAbort
<1>1. ASSUME NEW caller \in Address, NEW a \in Address, initialize(caller, a)
      PROVE  FirstConfig
  BY <1>1 DEF initialize, InitializeResult, FirstConfig
<1>2. ASSUME NEW caller \in Address, NEW a \in Address, set_admin(caller, a)
      PROVE  CountedChange
  BY <1>2, BumpAdvances DEF set_admin, SetAdminResult, CountedChange
<1>3. ASSUME NEW caller \in Address, pause(caller) \/ unpause(caller)
      PROVE  CountedChange
  BY <1>3, BumpAdvances DEF pause, unpause, SetPausedResult, CountedChange
<1>4. ASSUME NEW caller \in Address, NEW v \in SchemaVersions,
             \/ approve_schema_version(caller, v)
             \/ deprecate_schema_version(caller, v)
      PROVE  CountedChange
  <2>1. admin # NoAddress /\ v # 0 /\ ~ BumpOverflows /\ bump_config_version
    BY <1>4
    DEF approve_schema_version, deprecate_schema_version, SetSchemaResult
  <2>2. /\ UNCHANGED <<admin, paused, upgrade>>
        /\ \E s \in {"approved", "deprecated"} : schema' = [schema EXCEPT ![v] = s]
    BY <1>4 DEF approve_schema_version, deprecate_schema_version
  <2>3. QED
    BY <2>1, <2>2, BumpAdvances DEF CountedChange
<1>5. ASSUME NEW caller \in Address, UpgradeCall(caller)
      PROVE  OtherStep
  BY <1>5, UpgradeCallStep DEF OtherStep
<1>6. CASE UNCHANGED configVars
  BY <1>6 DEF configVars, OtherStep
<1>7. QED
  BY <1>1, <1>2, <1>3, <1>4, <1>5, <1>6 DEF Next, ConfigCall

(***************************************************************************)
(* Invariants                                                              *)
(***************************************************************************)

(* The type invariant and FailClosed, which is inductive only with it.     *)
LEMMA ConfigPreserved ==
  ASSUME TypeOK, FailClosed, [Next]_configVars
  PROVE  TypeOK' /\ FailClosed'
<1>1. CASE FirstConfig
  <2>1. TypeOK'
    <3>1. paused' \in BOOLEAN
      BY <1>1, Zenon DEF FirstConfig
    <3>2. configVersion' \in 0 .. MaxU32
      BY <1>1, ConfigAssumption DEF FirstConfig
    <3>3. QED
      BY <1>1, <3>1, <3>2, FirstVersionTyped DEF FirstConfig, TypeOK
  <2>2. upgrade'.version = 1 /\ upgrade'.allowed = upgrade.allowed
    BY <1>1 DEF FirstConfig, FirstVersion, TypeOK, UpgradeState
  <2>3. QED
    <3>1. admin' # NoAddress /\ configVersion' > 0 /\ upgrade'.version > 0
      BY <1>1, <2>2, AddressAssumption DEF FirstConfig
    <3>2. schema'[0] = "absent"
      BY <1>1 DEF FirstConfig, FailClosed
    <3>3. QED
      BY <2>1, <3>1, <3>2 DEF FailClosed
<1>2. CASE CountedChange
  <2>1. admin' # NoAddress /\ admin' \in Address
    BY <1>2, AddressAssumption DEF CountedChange, TypeOK
  <2>2. /\ schema' \in [SchemaVersions -> {"absent", "approved", "deprecated"}]
        /\ schema'[0] = schema[0]
    <3>1. CASE UNCHANGED schema
      BY <3>1 DEF TypeOK
    <3>2. CASE \E v \in SchemaVersions \ {0}, s \in {"approved", "deprecated"} :
                 schema' = [schema EXCEPT ![v] = s]
      BY <3>2, ConfigAssumption DEF TypeOK, SchemaVersions
    <3>3. QED
      BY <1>2, <3>1, <3>2 DEF CountedChange
  <2>3. TypeOK'
    BY <1>2, <2>1, <2>2 DEF CountedChange, TypeOK
  <2>4. configVersion' > 0
    BY <1>2, ConfigAssumption DEF CountedChange, TypeOK
  <2>5. QED
    BY <1>2, <2>1, <2>2, <2>3, <2>4 DEF CountedChange, FailClosed
<1>3. CASE OtherStep
  <2>1. CASE UNCHANGED <<admin, upgrade>>
    BY <1>3, <2>1
    DEF OtherStep, TypeOK, FailClosed, is_schema_version_approved,
        is_upgrade_allowed
  <2>2. ASSUME NEW caller \in Address, NEW h \in WasmHash, UpgradeStep(caller, h)
        PROVE  TypeOK' /\ FailClosed'
    <3>1. upgrade' \in UpgradeState /\ admin' = admin
      BY <2>2, UpgradeStepType DEF TypeOK
    <3>2. admin # NoAddress
      BY <2>2
      DEF UpgradeStep, ApproveUpgrade, ApproveUpgradeResult, RevokeUpgrade,
          RevokeUpgradeResult, UpgradeContract, UpgradeContractResult, Ok
    <3>3. upgrade'.version >= upgrade.version
      <4>1. upgrade'.version # upgrade.version => upgrade'.version > upgrade.version
        BY <2>2, <3>2, UpgradeStepSpends DEF TypeOK, SpendsApproval
      <4>2. upgrade'.version \in Nat /\ upgrade.version \in Nat
        BY <3>1, UpgradeAssumption DEF TypeOK, UpgradeState, ContractVersions
      <4>3. QED
        BY <4>1, <4>2
    <3>4. upgrade'.version > 0
      BY <3>1, <3>2, <3>3, UpgradeAssumption
      DEF FailClosed, TypeOK, UpgradeState, ContractVersions
    <3>5. QED
      BY <1>3, <3>1, <3>2, <3>4 DEF OtherStep, TypeOK, FailClosed
  <2>3. QED
    BY <1>3, <2>1, <2>2 DEF OtherStep
<1>4. QED
  BY <1>1, <1>2, <1>3, StepKinds

(* Both hold initially.                                                    *)
LEMMA ConfigInitially ==
  ASSUME Init
  PROVE  TypeOK /\ FailClosed
<1>1. TypeOK
  <2>1. paused \in BOOLEAN
    BY Zenon DEF Init
  <2>2. upgrade \in UpgradeState /\ configVersion \in 0 .. MaxU32
    BY UpgradeAssumption, ConfigAssumption
    DEF Init, UpgradeInit, UpgradeState, ContractVersions
  <2>3. schema \in [SchemaVersions -> {"absent", "approved", "deprecated"}]
    BY DEF Init
  <2>4. QED
    BY <2>1, <2>2, <2>3 DEF Init, UpgradeInit, TypeOK
<1>2. /\ \A v \in SchemaVersions : ~ is_schema_version_approved(v)
      /\ schema[0] = "absent"
  BY ConfigAssumption DEF Init, is_schema_version_approved, SchemaVersions
<1>3. \A h \in WasmHash : ~ is_upgrade_allowed(h)
  BY DEF Init, UpgradeInit, is_upgrade_allowed
<1>4. FailClosed
  BY <1>2, <1>3 DEF Init, UpgradeInit, FailClosed
<1>5. QED
  BY <1>1, <1>4

(* The type invariant TypeOK holds of the contract's storage after every   *)
(* sequence of calls.                                                      *)
THEOREM ConfigTypeCorrect == Spec => []TypeOK
<1>1. Init => TypeOK /\ FailClosed
  BY ConfigInitially
<1>2. TypeOK /\ FailClosed /\ [Next]_configVars => TypeOK' /\ FailClosed'
  BY ConfigPreserved
<1>3. QED
  BY <1>1, <1>2, PTL DEF Spec

(* The contract is closed before initialize and keeps its counters after   *)
(* it: FailClosed in every reachable state.                                *)
THEOREM ConfigFailsClosed == Spec => []FailClosed
<1>1. Init => TypeOK /\ FailClosed
  BY ConfigInitially
<1>2. TypeOK /\ FailClosed /\ [Next]_configVars => TypeOK' /\ FailClosed'
  BY ConfigPreserved
<1>3. QED
  BY <1>1, <1>2, PTL DEF Spec

(***************************************************************************)
(* Action properties                                                       *)
(***************************************************************************)

(* Every change of the configuration advances the counter by one and       *)
(* nothing else does, the overflow at u32::MAX included.                   *)
THEOREM EveryChangeCounted == Spec => CountsEveryChange
<1>1. TypeOK /\ FailClosed /\ [Next]_configVars
        => [/\ <<admin, settings>>' # <<admin, settings>>
                 => configVersion' = configVersion + 1
            /\ configVersion' \in {configVersion, configVersion + 1}]_configVars
  <2> SUFFICES ASSUME TypeOK, FailClosed, [Next]_configVars
               PROVE  /\ <<admin, settings>>' # <<admin, settings>>
                           => configVersion' = configVersion + 1
                      /\ configVersion' \in {configVersion, configVersion + 1}
    OBVIOUS
  <2>1. CASE FirstConfig
    BY <2>1 DEF FirstConfig, FailClosed
  <2>2. CASE CountedChange
    BY <2>2 DEF CountedChange
  <2>3. CASE OtherStep
    <3>1. UNCHANGED <<admin, paused, schema, configVersion>>
      BY <2>3, UpgradeStepType DEF OtherStep, TypeOK
    <3>2. QED
      BY <3>1 DEF settings
  <2>4. QED
    BY <2>1, <2>2, <2>3, StepKinds
<1>2. QED
  BY <1>1, ConfigTypeCorrect, ConfigFailsClosed, PTL DEF Spec, CountsEveryChange

(* A handover of the administration leaves the pause, the schemas and the  *)
(* pending upgrades as they were.                                          *)
THEOREM HandoverIsolated == Spec => HandoverMovesOnlyAuthority
<1>1. TypeOK /\ [Next]_configVars
        => [admin # NoAddress /\ admin' # admin
              => UNCHANGED <<settings, upgrade>> /\ admin' # NoAddress]_configVars
  <2> SUFFICES ASSUME TypeOK, [Next]_configVars, admin # NoAddress, admin' # admin
               PROVE  UNCHANGED <<settings, upgrade>> /\ admin' # NoAddress
    OBVIOUS
  <2>1. CASE FirstConfig
    BY <2>1 DEF FirstConfig
  <2>2. CASE CountedChange
    BY <2>2, AddressAssumption DEF CountedChange, settings
  <2>3. CASE OtherStep
    BY <2>3, UpgradeStepType DEF OtherStep, TypeOK
  <2>4. QED
    BY <2>1, <2>2, <2>3, StepKinds
<1>2. QED
  BY <1>1, ConfigTypeCorrect, PTL DEF Spec, HandoverMovesOnlyAuthority

(* Upgrades of protocol-config spend approvals and only raise its version. *)
THEOREM ConfigUpgradesGoverned == Spec => UpgradesSpendApprovals
<1>1. TypeOK /\ [Next]_configVars => [SpendsApproval]_<<admin, upgrade>>
  <2> SUFFICES ASSUME TypeOK, [Next]_configVars, ~ UNCHANGED <<admin, upgrade>>
               PROVE  SpendsApproval
    OBVIOUS
  <2>1. CASE FirstConfig
    BY <2>1 DEF FirstConfig, FirstVersion, SpendsApproval, TypeOK, UpgradeState
  <2>2. CASE CountedChange
    BY <2>2 DEF CountedChange, SpendsApproval
  <2>3. CASE OtherStep
    BY <2>3, UpgradeStepSpends DEF OtherStep, TypeOK
  <2>4. QED
    BY <2>1, <2>2, <2>3, StepKinds
<1>2. QED
  BY <1>1, ConfigTypeCorrect, PTL DEF Spec, UpgradesSpendApprovals
=============================================================================
