--------------------------- MODULE ProtocolConfig ---------------------------
(***************************************************************************)
(* contracts/protocol-config: the administrator, the pause switch, the     *)
(* schema versions that may be used for new proofs, and the counter that   *)
(* every configuration change advances.                                    *)
(***************************************************************************)
EXTENDS UpgradeGovernance

CONSTANTS
  MaxU32,      \* u32::MAX of the config version, scaled down
  MaxSchema    \* the largest schema version that callers name

ASSUME ConfigAssumption == MaxU32 \in Nat \ {0} /\ MaxSchema \in Nat

VARIABLES
  paused,          \* DataKey::Paused, FALSE when absent
  schema,          \* DataKey::SchemaVersion(v)
  configVersion    \* DataKey::ConfigVersion, 0 when absent

settings == <<paused, schema>>
configVars == <<admin, paused, schema, configVersion, upgrade>>

SchemaVersions == 0 .. MaxSchema

Init ==
  /\ UpgradeInit
  /\ paused = FALSE
  /\ schema = [v \in SchemaVersions |-> "absent"]
  /\ configVersion = 0

is_paused == paused

(* Fault: what nobody decided about counts as approved. *)
ApprovedByDefault(v) == v # 0 /\ schema[v] # "deprecated"

is_schema_version_approved(v) == v # 0 /\ schema[v] = "approved"

(* u32 addition, and the test of checked_add: when it fails the invocation *)
(* panics and is rolled back, the write that preceded the bump included.   *)
(* Fault: a plain + instead of checked_add. *)
UncheckedAdd == FALSE
BumpOverflows == configVersion = MaxU32

bump_config_version ==
  configVersion' = IF configVersion = MaxU32 THEN 0 ELSE configVersion + 1

(***************************************************************************)
(* Entry points.  Among them, marked "Fault", are deliberately wrong       *)
(* variants of the definition that follows: each must break a property.    *)
(***************************************************************************)
InitializeResult(caller, a) ==
  IF admin # NoAddress THEN "AlreadyInitialized"
  ELSE IF ~ is_valid_principal_address(a) THEN "InvalidInput"
  ELSE IF caller # a THEN AuthAbort
  ELSE Ok

initialize(caller, a) ==
  /\ InitializeResult(caller, a) = Ok
  /\ admin' = a
  /\ paused' = FALSE
  /\ configVersion' = 1
  /\ upgrade' = FirstVersion
  /\ UNCHANGED schema

SetAdminResult(caller, a) ==
  IF admin = NoAddress THEN "NotInitialized"
  ELSE IF ~ is_valid_principal_address(a) THEN "InvalidInput"
  ELSE IF caller # admin THEN AuthAbort
  ELSE IF BumpOverflows THEN "panic: config version overflow"
  ELSE Ok

(* Fault: the handover clears the pause. *)
RotateAndReopen(caller, a) ==
  /\ SetAdminResult(caller, a) = Ok
  /\ admin' = a
  /\ paused' = FALSE
  /\ bump_config_version
  /\ UNCHANGED <<schema, upgrade>>

set_admin(caller, a) ==
  /\ SetAdminResult(caller, a) = Ok
  /\ admin' = a
  /\ bump_config_version
  /\ UNCHANGED <<paused, schema, upgrade>>

SetPausedResult(caller) ==
  IF admin = NoAddress THEN "NotInitialized"
  ELSE IF caller # admin THEN AuthAbort
  ELSE IF BumpOverflows THEN "panic: config version overflow"
  ELSE Ok

(* Fault: the pause forgets to advance the counter. *)
UncountedPause(caller) ==
  /\ SetPausedResult(caller) = Ok
  /\ paused' = TRUE
  /\ UNCHANGED <<admin, schema, configVersion, upgrade>>

pause(caller) ==
  /\ SetPausedResult(caller) = Ok
  /\ paused' = TRUE
  /\ bump_config_version
  /\ UNCHANGED <<admin, schema, upgrade>>

unpause(caller) ==
  /\ SetPausedResult(caller) = Ok
  /\ paused' = FALSE
  /\ bump_config_version
  /\ UNCHANGED <<admin, schema, upgrade>>

(* Fault: the administrator is neither looked up nor asked to authorise. *)
UnguardedSchemaResult(caller, v) ==
  IF v = 0 THEN "InvalidInput" ELSE IF BumpOverflows THEN "panic" ELSE Ok

SetSchemaResult(caller, v) ==
  IF admin = NoAddress THEN "NotInitialized"
  ELSE IF caller # admin THEN AuthAbort
  ELSE IF v = 0 THEN "InvalidInput"
  ELSE IF BumpOverflows THEN "panic: config version overflow"
  ELSE Ok

approve_schema_version(caller, v) ==
  /\ SetSchemaResult(caller, v) = Ok
  /\ schema' = [schema EXCEPT ![v] = "approved"]
  /\ bump_config_version
  /\ UNCHANGED <<admin, paused, upgrade>>

deprecate_schema_version(caller, v) ==
  /\ SetSchemaResult(caller, v) = Ok
  /\ schema' = [schema EXCEPT ![v] = "deprecated"]
  /\ bump_config_version
  /\ UNCHANGED <<admin, paused, upgrade>>

approve_upgrade(caller, h, v) ==
  ApproveUpgrade(caller, h, v) /\ UNCHANGED <<settings, configVersion>>

revoke_upgrade(caller, h) ==
  RevokeUpgrade(caller, h) /\ UNCHANGED <<settings, configVersion>>

upgrade_contract(caller, h) ==
  UpgradeContract(caller, h) /\ UNCHANGED <<settings, configVersion>>

ConfigCall(caller) ==
  \/ \E a \in Address : initialize(caller, a) \/ set_admin(caller, a)
  \/ pause(caller) \/ unpause(caller)
  \/ \E v \in SchemaVersions :
       approve_schema_version(caller, v) \/ deprecate_schema_version(caller, v)

UpgradeCall(caller) ==
  \E h \in WasmHash :
    \/ \E v \in ContractVersions : approve_upgrade(caller, h, v)
    \/ revoke_upgrade(caller, h)
    \/ upgrade_contract(caller, h)

Next == \E caller \in Address : ConfigCall(caller) \/ UpgradeCall(caller)

Spec == Init /\ [][Next]_configVars

(***************************************************************************)
(* Properties                                                              *)
(***************************************************************************)

(* Type invariant of the contract's storage.                               *)
TypeOK ==
  /\ admin \in Address \union {NoAddress}
  /\ upgrade \in UpgradeState
  /\ paused \in BOOLEAN
  /\ schema \in [SchemaVersions -> {"absent", "approved", "deprecated"}]
  /\ configVersion \in 0 .. MaxU32

(* Before initialize the contract answers "closed" to every read: nothing  *)
(* is approved, paused, versioned or allowlisted.  Schema version 0 is     *)
(* never stored, and a live contract never loses its counters.             *)
FailClosed ==
  /\ admin = NoAddress =>
       /\ ~ paused /\ configVersion = 0 /\ upgrade.version = 0
       /\ \A v \in SchemaVersions : ~ is_schema_version_approved(v)
       /\ \A h \in WasmHash : ~ is_upgrade_allowed(h)
  /\ admin # NoAddress => configVersion > 0 /\ upgrade.version > 0
  /\ schema[0] = "absent"

(* Every change of the administrator, the pause flag or a schema advances  *)
(* the config version by exactly one, and nothing else moves it: in        *)
(* particular it never wraps, so at u32::MAX the configuration is frozen.  *)
CountsEveryChange ==
  [][/\ <<admin, settings>>' # <<admin, settings>>
          => configVersion' = configVersion + 1
     /\ configVersion' \in {configVersion, configVersion + 1}]_configVars

(* set_admin moves authority and nothing else: an incident pause, the      *)
(* schema withdrawals and the pending upgrades outlive a handover.         *)
HandoverMovesOnlyAuthority ==
  [][admin # NoAddress /\ admin' # admin
       => UNCHANGED <<settings, upgrade>> /\ admin' # NoAddress]_configVars
=============================================================================
