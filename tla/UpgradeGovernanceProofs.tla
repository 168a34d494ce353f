---------------------- MODULE UpgradeGovernanceProofs ----------------------
(***************************************************************************)
(* Facts about the upgrade calls that the proofs of all three contracts    *)
(* use.                                                                    *)
(***************************************************************************)
EXTENDS UpgradeGovernance, TLAPS

(* One of the upgrade calls, of any caller, on one hash.                   *)
UpgradeStep(caller, h) ==
  \/ \E v \in ContractVersions : ApproveUpgrade(caller, h, v)
  \/ RevokeUpgrade(caller, h)
  \/ UpgradeContract(caller, h)

(* The upgrade calls keep the shape of the upgrade state and leave the     *)
(* administrator alone.                                                    *)
LEMMA UpgradeStepType ==
  ASSUME upgrade \in UpgradeState, NEW caller, NEW h \in WasmHash,
         UpgradeStep(caller, h)
  PROVE  upgrade' \in UpgradeState /\ admin' = admin
<1>1. CASE \E v \in ContractVersions : ApproveUpgrade(caller, h, v)
  BY <1>1 DEF ApproveUpgrade, UpgradeState
<1>2. CASE RevokeUpgrade(caller, h)
  BY <1>2, UpgradeAssumption DEF RevokeUpgrade, UpgradeState, ContractVersions
<1>3. CASE UpgradeContract(caller, h)
  BY <1>3, UpgradeAssumption
  DEF UpgradeContract, Installed, UpgradeState, ContractVersions
<1>4. QED
  BY <1>1, <1>2, <1>3 DEF UpgradeStep

(* Every upgrade call spends an approval as UpgradesSpendApprovals says.   *)
LEMMA UpgradeStepSpends ==
  ASSUME upgrade \in UpgradeState, NEW caller, NEW h \in WasmHash,
         UpgradeStep(caller, h)
  PROVE  SpendsApproval
<1>1. CASE \E v \in ContractVersions : ApproveUpgrade(caller, h, v)
  BY <1>1 DEF ApproveUpgrade, UpgradeState, SpendsApproval
<1>2. CASE RevokeUpgrade(caller, h)
  BY <1>2 DEF RevokeUpgrade, UpgradeState, SpendsApproval
<1>3. CASE UpgradeContract(caller, h)
  <2>1. /\ is_upgrade_allowed(h) /\ ~ NotAdvancing(upgrade.allowed[h])
        /\ h \in UploadedWasm
    BY <1>3 DEF UpgradeContract, UpgradeContractResult, Ok, AuthAbort
  <2>2. upgrade.allowed[h] > upgrade.version
    BY <2>1, UpgradeAssumption DEF NotAdvancing, UpgradeState, ContractVersions
  <2>3. upgrade' = Installed(h)
    BY <1>3 DEF UpgradeContract
  <2>4. /\ upgrade'.wasm = h /\ upgrade'.version = upgrade.allowed[h]
        /\ upgrade'.allowed[h] = 0
    BY <2>3 DEF Installed, UpgradeState
  <2>5. upgrade'.version # upgrade.version
    BY <2>2, <2>4, UpgradeAssumption DEF UpgradeState, ContractVersions
  <2>6. QED
    BY <2>1, <2>2, <2>4, <2>5 DEF SpendsApproval
<1>4. QED
  BY <1>1, <1>2, <1>3 DEF UpgradeStep
=============================================================================
