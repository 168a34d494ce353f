-------------------------- MODULE UpgradeGovernance --------------------------
(***************************************************************************)
(* The upgrade path that protocol-config, issuer-registry and              *)
(* proof-registry carry with the same text: an admin allowlists a WASM     *)
(* hash with the contract version it must install, may withdraw it, and    *)
(* applies it.  Each contract module EXTENDS this one and adds its state.  *)
(***************************************************************************)
EXTENDS Shared, Naturals

CONSTANTS
  WasmHash,             \* WASM hashes that upgrades name
  UploadedWasm,         \* those whose code has been uploaded to the ledger
  DeployedWasm,         \* the code the contract was deployed with
  MaxContractVersion    \* u32::MAX, scaled down

ASSUME UpgradeAssumption ==
  /\ UploadedWasm \subseteq WasmHash
  /\ DeployedWasm \notin WasmHash
  /\ MaxContractVersion \in Nat \ {0}

VARIABLES
  admin,     \* DataKey::Admin, NoAddress before initialize
  upgrade    \* DataKey::ContractVersion, DataKey::AllowedWasm(_), the WASM

ContractVersions == 0 .. MaxContractVersion

(* 0 stands for "no entry", of the version and of an allowlist key alike:  *)
(* get_contract_version defaults to 0 and no approval of 0 is accepted.    *)
UpgradeState ==
  [version : ContractVersions,
   allowed : [WasmHash -> ContractVersions],
   wasm    : WasmHash \union {DeployedWasm}]

UpgradeInit ==
  /\ admin = NoAddress
  /\ upgrade = [version |-> 0, allowed |-> [h \in WasmHash |-> 0],
                wasm |-> DeployedWasm]

FirstVersion == [upgrade EXCEPT !.version = 1]

is_upgrade_allowed(h) == upgrade.allowed[h] # 0
NotAdvancing(v) == v <= upgrade.version

(***************************************************************************)
(* approve_upgrade, revoke_upgrade, upgrade_contract                       *)
(***************************************************************************)
ApproveUpgradeResult(caller, h, v) ==
  IF admin = NoAddress THEN "panic: contract not initialized"
  ELSE IF caller # admin THEN AuthAbort
  ELSE IF NotAdvancing(v) THEN "panic: not greater than current version"
  ELSE Ok

ApproveUpgrade(caller, h, v) ==
  /\ ApproveUpgradeResult(caller, h, v) = Ok
  /\ upgrade' = [upgrade EXCEPT !.allowed[h] = v]
  /\ UNCHANGED admin

RevokeUpgradeResult(caller) ==
  IF admin = NoAddress THEN "panic: contract not initialized"
  ELSE IF caller # admin THEN AuthAbort
  ELSE Ok

RevokeUpgrade(caller, h) ==
  /\ RevokeUpgradeResult(caller) = Ok
  /\ upgrade' = [upgrade EXCEPT !.allowed[h] = 0]
  /\ UNCHANGED admin

UpgradeContractResult(caller, h) ==
  IF admin = NoAddress THEN "panic: contract not initialized"
  ELSE IF caller # admin THEN AuthAbort
  ELSE IF ~ is_upgrade_allowed(h) THEN "panic: wasm hash not on allowlist"
  ELSE IF NotAdvancing(upgrade.allowed[h]) THEN "panic: version not advanced"
  ELSE IF h \notin UploadedWasm THEN "trap: no such wasm"
  ELSE Ok

(* Fault: the approved version is taken for an increment. *)
InstalledByIncrement(h) ==
  [version |-> upgrade.version + upgrade.allowed[h],
   allowed |-> [upgrade.allowed EXCEPT ![h] = 0],
   wasm    |-> h]

(* Fault: the approval is left on the allowlist. *)
InstalledUnspent(h) ==
  [version |-> upgrade.allowed[h], allowed |-> upgrade.allowed, wasm |-> h]

Installed(h) ==
  [version |-> upgrade.allowed[h],
   allowed |-> [upgrade.allowed EXCEPT ![h] = 0],
   wasm    |-> h]

UpgradeContract(caller, h) ==
  /\ UpgradeContractResult(caller, h) = Ok
  /\ upgrade' = Installed(h)
  /\ UNCHANGED admin

(* The code changes only together with a rise of the contract version, to  *)
(* uploaded code, at the version of an approval that was pending for that  *)
(* very hash, and the approval is spent by it: no replay, no downgrade.    *)
SpendsApproval ==
  /\ upgrade'.wasm # upgrade.wasm => upgrade'.version # upgrade.version
  /\ admin # NoAddress /\ upgrade'.version # upgrade.version =>
       LET h == upgrade'.wasm IN
         /\ upgrade'.version > upgrade.version
         /\ h \in UploadedWasm
         /\ upgrade.allowed[h] = upgrade'.version
         /\ upgrade'.allowed[h] = 0

(* Every step of a contract keeps to the rule above.                       *)
UpgradesSpendApprovals == [][SpendsApproval]_<<admin, upgrade>>
==============================================================================
