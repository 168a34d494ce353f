---------------------------- MODULE UpgradeEvents ----------------------------
(***************************************************************************)
(* The events of the upgrade calls, the same in all three contracts.  The  *)
(* acting address is left out of the payloads: it is always the admin.     *)
(***************************************************************************)
EXTENDS UpgradeGovernance, EventStream

UpgradeAllowlisted(h, v) ==
  [topic |-> "UpgradeAllowlisted", wasm_hash |-> h, new_contract_version |-> v]

UpgradeRevoked(h) == [topic |-> "UpgradeRevoked", wasm_hash |-> h]

ContractUpgraded(h) ==
  [topic |-> "ContractUpgraded", wasm_hash |-> h,
   old_contract_version |-> upgrade.version,
   new_contract_version |-> upgrade.allowed[h]]

UpgradeTopics == {"UpgradeAllowlisted", "UpgradeRevoked", "ContractUpgraded"}

NoUpgrades ==
  [version |-> 0, allowed |-> [h \in WasmHash |-> 0], wasm |-> DeployedWasm]

(* How an indexer follows the allowlist and the code.                      *)
FollowUpgrade(u, e) ==
  CASE e.topic = "UpgradeAllowlisted" ->
         [u EXCEPT !.allowed[e.wasm_hash] = e.new_contract_version]
    [] e.topic = "UpgradeRevoked" ->
         [u EXCEPT !.allowed[e.wasm_hash] = 0]
    [] e.topic = "ContractUpgraded" ->
         [version |-> e.new_contract_version,
          allowed |-> [u.allowed EXCEPT ![e.wasm_hash] = 0],
          wasm    |-> e.wasm_hash]

(* The version a contract is born with is announced by no event.           *)
KnowsUpgrades(u) ==
  /\ u.allowed = upgrade.allowed
  /\ u.wasm = upgrade.wasm
  /\ u.wasm # DeployedWasm => u.version = upgrade.version
===============================================================================
