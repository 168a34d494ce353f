-------------------------- MODULE ConfigClientProofs --------------------------
(***************************************************************************)
(* Theorems about two clients of protocol-config that run beside every     *)
(* other caller: the monitor that polls it and the script that upgrades    *)
(* it.                                                                     *)
(***************************************************************************)
EXTENDS ConfigMonitor, UpgradeScript, ProtocolConfigProofs

(***************************************************************************)
(* The monitor                                                             *)
(***************************************************************************)

(* EqualVersionsEqualConfig is not inductive by itself: a version the      *)
(* monitor has seen must not lie ahead of the contract's, or a later       *)
(* change could meet it.                                                   *)
MonitorInv ==
  /\ seen.version \in Nat
  /\ seen.version <= configVersion
  /\ EqualVersionsEqualConfig

(* A monitor whose last seen version is the current one knows the current  *)
(* configuration, whatever calls and handovers came between its polls.     *)
THEOREM MonitorNeverFooled == MonitorSpec => []EqualVersionsEqualConfig
<1>1. MonitorInit => TypeOK /\ FailClosed /\ MonitorInv
  <2> SUFFICES ASSUME MonitorInit PROVE TypeOK /\ FailClosed /\ MonitorInv
    OBVIOUS
  <2>1. TypeOK /\ FailClosed
    BY ConfigInitially DEF MonitorInit
  <2>2. MonitorInv
    BY <2>1 DEF MonitorInit, Init, MonitorInv, EqualVersionsEqualConfig
  <2>3. QED
    BY <2>1, <2>2
<1>2. ASSUME TypeOK, FailClosed, MonitorInv, [MonitorNext]_monitorVars
      PROVE  TypeOK' /\ FailClosed' /\ MonitorInv'
  <2>1. configVersion \in Nat
    BY <1>2, ConfigAssumption DEF TypeOK
  <2>2. CASE Next /\ UNCHANGED seen
    <3>1. TypeOK' /\ FailClosed'
      BY <1>2, <2>2, ConfigPreserved
    <3>2. \/ configVersion' = configVersion + 1
          \/ UNCHANGED <<admin, paused, schema, configVersion>>
      <4>1. CASE FirstConfig
        BY <1>2, <4>1 DEF FirstConfig, FailClosed
      <4>2. CASE CountedChange
        BY <4>2 DEF CountedChange
      <4>3. CASE OtherStep
        BY <1>2, <4>3, UpgradeStepType DEF OtherStep, TypeOK
      <4>4. QED
        BY <1>2, <2>2, <4>1, <4>2, <4>3, StepKinds
    <3>3. MonitorInv'
      BY <1>2, <2>1, <2>2, <3>2 DEF MonitorInv, EqualVersionsEqualConfig
    <3>4. QED
      BY <3>1, <3>3
  <2>3. CASE Poll /\ UNCHANGED configVars
    <3>1. TypeOK' /\ FailClosed'
      BY <1>2, <2>3, ConfigPreserved
    <3>2. MonitorInv'
      BY <2>1, <2>3 DEF Poll, configVars, MonitorInv, EqualVersionsEqualConfig
    <3>3. QED
      BY <3>1, <3>2
  <2>4. CASE UNCHANGED monitorVars
    <3>1. UNCHANGED <<configVars, seen>>
      BY <2>4 DEF monitorVars
    <3>2. TypeOK' /\ FailClosed'
      BY <1>2, <3>1, ConfigPreserved
    <3>3. MonitorInv'
      BY <1>2, <3>1 DEF configVars, MonitorInv, EqualVersionsEqualConfig
    <3>4. QED
      BY <3>2, <3>3
  <2>5. QED
    BY <1>2, <2>2, <2>3, <2>4 DEF MonitorNext
<1>3. MonitorInv => EqualVersionsEqualConfig
  BY DEF MonitorInv
<1>4. QED
  BY <1>1, <1>2, <1>3, PTL DEF MonitorSpec

(***************************************************************************)
(* The upgrade script                                                      *)
(***************************************************************************)

(* Three states of the upgrade entries: as the run found them, with the    *)
(* run's approval, and upgraded.                                           *)
Was == before.upgrade
WithApproval == [Was EXCEPT !.allowed[BuiltWasm] = job.NewVersion]
Upgraded ==
  [version |-> job.NewVersion,
   allowed |-> [Was.allowed EXCEPT ![BuiltWasm] = 0],
   wasm    |-> BuiltWasm]

ScriptTypeOK ==
  /\ job \in Job
  /\ before \in [paused : BOOLEAN, upgrade : UpgradeState]

(* The pause is part of the run only if the run was asked for it.          *)
PausesOnRequest == step \in {"pause", "unpause"} => job.PauseProtocol

(* How far the run has got with nobody else at work; where an answer may   *)
(* have been lost, the transaction may already have taken effect.          *)
UndisturbedProgress ==
  interfered = "none" =>
    /\ step = "upload"  => upgrade = Was
    /\ step = "approve" => upgrade \in {Was, WithApproval}
    /\ step = "pause"   => upgrade = WithApproval
    /\ step = "apply"   => upgrade \in {WithApproval, Upgraded}
    /\ step \in {"unpause", "verify"} => upgrade = Upgraded
    /\ step = "failed"  => upgrade \in {Was, WithApproval, Upgraded}
    /\ paused # before.paused => job.PauseProtocol
    /\ step = "apply" /\ job.PauseProtocol => paused

(* What is left of that when others approve, revoke and apply upgrades to  *)
(* other hashes: the approval is pending, or the contract has reached the  *)
(* version of the job, with the job's code as long as it is at it.         *)
Pending == upgrade.allowed[BuiltWasm] = job.NewVersion

Reached ==
  /\ upgrade.version >= job.NewVersion
  /\ upgrade.version = job.NewVersion => upgrade.wasm = BuiltWasm

OwnApprovalProgress ==
  interfered # "own approval" =>
    /\ step \in {"pause", "apply", "unpause", "verify"} => admin # NoAddress
    /\ step = "pause" => Pending
    /\ step = "apply" => Pending \/ Reached
    /\ step \in {"unpause", "verify"} => Reached

ScriptInv ==
  /\ TypeOK /\ FailClosed
  /\ ScriptTypeOK
  /\ PausesOnRequest
  /\ UndisturbedProgress
  /\ OwnApprovalProgress

(* The job's parameters are ones that callers use.                         *)
LEMMA JobTyped ==
  ASSUME ScriptTypeOK
  PROVE  /\ job.NewVersion \in ContractVersions
         /\ Operator \in Address /\ BuiltWasm \in WasmHash
         /\ BuiltWasm \in UploadedWasm
         /\ Was \in UpgradeState
<1>1. job.NewVersion \in ContractVersions
  <2>1. CASE job = Rehearsal
    <3>1. job.NewVersion = 0
      BY <2>1 DEF Rehearsal
    <3>2. QED
      BY <3>1, UpgradeAssumption DEF ContractVersions
  <2>2. CASE job \in [NewVersion : ContractVersions, PauseProtocol : BOOLEAN,
                     DryRun : {FALSE}]
    BY <2>2
  <2>3. QED
    BY <2>1, <2>2 DEF ScriptTypeOK, Job
<1>2. Was \in UpgradeState
  BY DEF ScriptTypeOK, Was
<1>3. QED
  BY <1>1, <1>2, ScriptAssumption, UpgradeAssumption

(* Every transaction of the script is a call of protocol-config.           *)
LEMMA ScriptStepIsConfigStep ==
  ASSUME ScriptTypeOK, [UpgradeScriptNext]_allVars
  PROVE  [Next]_configVars
<1>1. CASE Approve
  <2>1. approve_upgrade(Operator, BuiltWasm, job.NewVersion) => Next
    BY JobTyped DEF Next, UpgradeCall
  <2>2. QED
    BY <1>1, <2>1 DEF Approve, Invoke, Invoke_WithRetry
<1>2. CASE Pause
  <2>1. pause(Operator) => Next
    BY JobTyped DEF Next, ConfigCall
  <2>2. QED
    BY <1>2, <2>1 DEF Pause, Invoke, Invoke_WithRetry
<1>3. CASE Apply
  <2>1. upgrade_contract(Operator, BuiltWasm) => Next
    BY JobTyped DEF Next, UpgradeCall
  <2>2. QED
    BY <1>3, <2>1 DEF Apply, Invoke, Invoke_WithRetry
<1>4. CASE Unpause
  <2>1. unpause(Operator) => Next
    BY JobTyped DEF Next, ConfigCall
  <2>2. QED
    BY <1>4, <2>1 DEF Unpause, Invoke, Invoke_WithRetry
<1>5. CASE Start \/ UploadWasm \/ Verify \/ WriteManifest
  BY <1>5 DEF Start, UploadWasm, Verify, WriteManifest, Invoke, Invoke_WithRetry
<1>6. CASE OthersStep
  BY <1>6 DEF OthersStep
<1>7. CASE UNCHANGED allVars
  BY <1>7 DEF allVars
<1>8. QED
  BY <1>1, <1>2, <1>3, <1>4, <1>5, <1>6, <1>7 DEF UpgradeScriptNext, ScriptStep

(* The approval is idempotent, and applying it completes the upgrade.      *)
LEMMA ScriptStates ==
  ASSUME ScriptTypeOK
  PROVE  /\ WithApproval \in UpgradeState
         /\ WithApproval.allowed[BuiltWasm] = job.NewVersion
         /\ [WithApproval EXCEPT !.allowed[BuiltWasm] = job.NewVersion] = WithApproval
         /\ [version |-> WithApproval.allowed[BuiltWasm],
             allowed |-> [WithApproval.allowed EXCEPT ![BuiltWasm] = 0],
             wasm    |-> BuiltWasm] = Upgraded
         /\ Upgraded.allowed[BuiltWasm] = 0
<1>1. /\ Was \in UpgradeState /\ BuiltWasm \in WasmHash
      /\ job.NewVersion \in ContractVersions
  BY JobTyped
<1>2. WithApproval =
        [version |-> Was.version,
         allowed |-> [Was.allowed EXCEPT ![BuiltWasm] = job.NewVersion],
         wasm    |-> Was.wasm]
  BY <1>1 DEF WithApproval, UpgradeState
<1>3. [WithApproval.allowed EXCEPT ![BuiltWasm] = job.NewVersion] = WithApproval.allowed
  BY <1>1, <1>2 DEF UpgradeState
<1>4. [WithApproval.allowed EXCEPT ![BuiltWasm] = 0] = [Was.allowed EXCEPT ![BuiltWasm] = 0]
  BY <1>1, <1>2 DEF UpgradeState
<1>5. WithApproval \in UpgradeState /\ WithApproval.allowed[BuiltWasm] = job.NewVersion
  BY <1>1, <1>2 DEF UpgradeState
<1>6. [WithApproval EXCEPT !.allowed[BuiltWasm] = job.NewVersion] = WithApproval
  BY <1>1, <1>2, <1>3, <1>5 DEF UpgradeState
<1>7. Upgraded.allowed[BuiltWasm] = 0
  BY <1>1 DEF Upgraded, UpgradeState
<1>8. QED
  BY <1>4, <1>5, <1>6, <1>7 DEF Upgraded

(* A step of a live contract keeps an administrator and obeys the rules    *)
(* for upgrades.                                                           *)
LEMMA LiveStep ==
  ASSUME TypeOK, [Next]_configVars, admin # NoAddress
  PROVE  admin' # NoAddress /\ (UNCHANGED upgrade \/ SpendsApproval)
<1>1. CASE FirstConfig
  BY <1>1 DEF FirstConfig
<1>2. CASE CountedChange
  BY <1>2, AddressAssumption DEF CountedChange
<1>3. CASE OtherStep
  BY <1>3, UpgradeStepType, UpgradeStepSpends DEF OtherStep, TypeOK
<1>4. QED
  BY <1>1, <1>2, <1>3, StepKinds

(* The version reached is never undone, and no other code gets to it.      *)
LEMMA ReachedStays ==
  ASSUME TypeOK, TypeOK', ScriptTypeOK, [Next]_configVars, admin # NoAddress,
         Reached, UNCHANGED job
  PROVE  Reached'
<1>1. CASE UNCHANGED upgrade
  BY <1>1 DEF Reached
<1>2. CASE SpendsApproval
  <2>1. upgrade.version \in Nat /\ upgrade'.version \in Nat /\ job.NewVersion \in Nat
    BY JobTyped, UpgradeAssumption DEF TypeOK, UpgradeState, ContractVersions
  <2>2. CASE upgrade'.version = upgrade.version
    BY <1>2, <2>2 DEF SpendsApproval, Reached
  <2>3. CASE upgrade'.version # upgrade.version
    <3>1. upgrade'.version > upgrade.version
      BY <1>2, <2>3 DEF SpendsApproval
    <3>2. QED
      BY <2>1, <3>1 DEF Reached
  <2>4. QED
    BY <2>2, <2>3
<1>3. QED
  BY <1>1, <1>2, LiveStep

(* Applying the pending approval reaches the version of the job.           *)
LEMMA InstalledReaches ==
  ASSUME ScriptTypeOK, Pending, upgrade' = Installed(BuiltWasm), UNCHANGED job
  PROVE  Reached'
<1>1. upgrade'.version = job.NewVersion /\ upgrade'.wasm = BuiltWasm
  BY DEF Pending, Installed
<1>2. job.NewVersion \in Nat
  BY JobTyped, UpgradeAssumption DEF ContractVersions
<1>3. QED
  BY <1>1, <1>2 DEF Reached

(* What each transaction of the script may do: to the state, and to the    *)
(* script's position.                                                      *)
LEMMA ApproveOutcomes ==
  ASSUME ScriptInv, Approve
  PROVE  /\ step = "approve" /\ UNCHANGED <<jobVars, paused>>
         /\ \/ /\ admin # NoAddress /\ UNCHANGED admin
               /\ upgrade' = [upgrade EXCEPT !.allowed[BuiltWasm] = job.NewVersion]
               /\ step' \in {AfterApproval, "approve", "failed"}
            \/ UNCHANGED <<admin, upgrade>> /\ step' \in {"approve", "failed"}
BY DEF Approve, Invoke, Invoke_WithRetry, Advance, Again, approve_upgrade,
       ApproveUpgrade, ApproveUpgradeResult, Ok, AuthAbort, configVars, settings

(* The pause.                                                              *)
LEMMA PauseOutcomes ==
  ASSUME ScriptInv, Pause
  PROVE  /\ step = "pause" /\ UNCHANGED <<jobVars, admin, upgrade>>
         /\ \/ paused' = TRUE /\ step' \in {"apply", "pause", "failed"}
            \/ UNCHANGED paused /\ step' \in {"pause", "failed"}
BY DEF Pause, Invoke, Invoke_WithRetry, Advance, Again, pause, configVars

(* The upgrade itself.                                                     *)
LEMMA ApplyOutcomes ==
  ASSUME ScriptInv, Apply
  PROVE  /\ step = "apply" /\ UNCHANGED <<jobVars, admin, paused>>
         /\ \/ /\ is_upgrade_allowed(BuiltWasm) /\ upgrade' = Installed(BuiltWasm)
               /\ step' \in {AfterApply, "apply", "failed"}
            \/ UNCHANGED upgrade /\ step' \in {"apply", "failed"}
BY DEF Apply, Invoke, Invoke_WithRetry, Advance, Again, upgrade_contract,
       UpgradeContract, UpgradeContractResult, Ok, AuthAbort, configVars, settings

(* Lifting the pause.                                                      *)
LEMMA UnpauseOutcomes ==
  ASSUME ScriptInv, Unpause
  PROVE  /\ step = "unpause" /\ UNCHANGED <<jobVars, admin, upgrade>>
         /\ step' \in {"verify", "unpause", "failed"}
BY DEF Unpause, Invoke, Invoke_WithRetry, Advance, Again, unpause, configVars

(* Reading the version back.                                               *)
LEMMA VerifyOutcomes ==
  ASSUME ScriptInv, Verify
  PROVE  /\ step = "verify" /\ UNCHANGED <<jobVars, configVars>>
         /\ step' \in {"manifest", "verify", "failed"}
         /\ step' = "manifest" => upgrade.version = job.NewVersion
BY DEF Verify, Invoke, Invoke_WithRetry, Advance, Again

(* Uploading the code.                                                     *)
LEMMA UploadOutcomes ==
  ASSUME ScriptInv, UploadWasm
  PROVE  /\ step = "upload" /\ UNCHANGED <<jobVars, configVars>>
         /\ step' \in {"done", "approve", "upload", "failed"}
BY DEF UploadWasm, Invoke, Invoke_WithRetry, Advance, Again

(* Every step preserves the invariant.                                     *)
LEMMA ScriptInvPreserved ==
  ASSUME ScriptInv, [UpgradeScriptNext]_allVars
  PROVE  ScriptInv'
<1>1. [Next]_configVars
  BY ScriptStepIsConfigStep DEF ScriptInv
<1>2. TypeOK' /\ FailClosed'
  BY <1>1, ConfigPreserved DEF ScriptInv
<1> DEFINE Progress ==
      PausesOnRequest /\ UndisturbedProgress /\ OwnApprovalProgress
<1>3. ASSUME UNCHANGED jobVars, Progress'
      PROVE  ScriptInv'
  BY <1>2, <1>3 DEF ScriptInv, ScriptTypeOK, jobVars
<1>4. /\ WithApproval.allowed[BuiltWasm] = job.NewVersion
      /\ [WithApproval EXCEPT !.allowed[BuiltWasm] = job.NewVersion] = WithApproval
      /\ Upgraded.allowed[BuiltWasm] = 0
      /\ [Was EXCEPT !.allowed[BuiltWasm] = job.NewVersion] = WithApproval
      /\ BuiltWasm \in WasmHash /\ job.NewVersion \in Nat
      /\ upgrade \in UpgradeState
  BY ScriptStates, JobTyped, UpgradeAssumption
  DEF ScriptInv, TypeOK, WithApproval, ContractVersions
<1>5. UNCHANGED jobVars =>
        /\ Was' = Was /\ WithApproval' = WithApproval /\ Upgraded' = Upgraded
        /\ UNCHANGED <<job, before, interfered>>
  BY DEF jobVars, Was, WithApproval, Upgraded
<1> HIDE DEF Progress
<1>6. CASE Start
  <2>1. /\ step' = "upload" /\ job' \in Job /\ before' = Now /\ interfered' = "none"
        /\ UNCHANGED configVars
    BY <1>6 DEF Start, Advance
  <2>2. before' \in [paused : BOOLEAN, upgrade : UpgradeState]
    BY <2>1 DEF Now, ScriptInv, TypeOK
  <2>3. UndisturbedProgress'
    BY <2>1 DEF UndisturbedProgress, Was, Now, configVars
  <2>4. PausesOnRequest' /\ OwnApprovalProgress'
    BY <2>1 DEF PausesOnRequest, OwnApprovalProgress
  <2>5. QED
    BY <1>2, <2>1, <2>2, <2>3, <2>4 DEF ScriptInv, ScriptTypeOK
<1>7. CASE UploadWasm
  <2>1. UndisturbedProgress'
    BY <1>5, <1>7, UploadOutcomes DEF UndisturbedProgress, ScriptInv, configVars
  <2>2. PausesOnRequest' /\ OwnApprovalProgress'
    BY <1>5, <1>7, UploadOutcomes DEF PausesOnRequest, OwnApprovalProgress
  <2>3. QED
    BY <1>3, <1>7, <2>1, <2>2, UploadOutcomes DEF Progress
<1>8. CASE Approve
  <2>1. AfterApproval \in {"pause", "apply"}
        /\ (job.PauseProtocol <=> AfterApproval = "pause")
    BY DEF AfterApproval
  <2>2. UndisturbedProgress'
    BY <1>4, <1>5, <1>8, <2>1, ApproveOutcomes DEF UndisturbedProgress, ScriptInv
  <2>3. PausesOnRequest'
    BY <1>5, <1>8, <2>1, ApproveOutcomes DEF PausesOnRequest
  <2>4. OwnApprovalProgress'
    <3>1. upgrade' = [upgrade EXCEPT !.allowed[BuiltWasm] = job.NewVersion]
            => upgrade'.allowed[BuiltWasm] = job.NewVersion
      BY <1>4 DEF UpgradeState
    <3>2. QED
      BY <1>5, <1>8, <2>1, <3>1, ApproveOutcomes DEF OwnApprovalProgress, Pending
  <2>5. QED
    BY <1>3, <1>8, <2>2, <2>3, <2>4, ApproveOutcomes DEF Progress
<1>9. CASE Pause
  <2>1. job.PauseProtocol
    BY <1>9, PauseOutcomes DEF ScriptInv, PausesOnRequest
  <2>2. UndisturbedProgress'
    BY <1>5, <1>9, <2>1, PauseOutcomes DEF UndisturbedProgress, ScriptInv
  <2>3. PausesOnRequest' /\ OwnApprovalProgress'
    BY <1>5, <1>9, <2>1, PauseOutcomes
    DEF PausesOnRequest, OwnApprovalProgress, ScriptInv, Pending
  <2>4. QED
    BY <1>3, <1>9, <2>2, <2>3, PauseOutcomes DEF Progress
<1>10. CASE Apply
  <2>1. /\ AfterApply \in {"unpause", "verify"}
        /\ job.PauseProtocol <=> AfterApply = "unpause"
    BY DEF AfterApply
  <2>2. UndisturbedProgress'
    <3>1. /\ upgrade = WithApproval => Installed(BuiltWasm) = Upgraded
          /\ upgrade = Upgraded => ~ is_upgrade_allowed(BuiltWasm)
      BY <1>4, ScriptStates DEF Installed, is_upgrade_allowed, ScriptInv
    <3>2. QED
      BY <1>5, <1>10, <2>1, <3>1, ApplyOutcomes DEF UndisturbedProgress, ScriptInv
  <2>3. PausesOnRequest'
    BY <1>5, <1>10, <2>1, ApplyOutcomes DEF PausesOnRequest
  <2>4. OwnApprovalProgress'
    <3> SUFFICES ASSUME interfered # "own approval"
                 PROVE  OwnApprovalProgress'
      BY <1>5, <1>10, ApplyOutcomes DEF OwnApprovalProgress
    <3>1. admin # NoAddress /\ UNCHANGED admin /\ (Pending \/ Reached)
      BY <1>10, ApplyOutcomes DEF ScriptInv, OwnApprovalProgress
    <3>2. UNCHANGED upgrade => UNCHANGED <<Pending, Reached>>
      BY <1>5, <1>10, ApplyOutcomes DEF Pending, Reached
    <3>3. Pending /\ upgrade' = Installed(BuiltWasm) => Reached'
      BY <1>5, <1>10, InstalledReaches, ApplyOutcomes DEF ScriptInv
    <3>4. Reached => Reached'
      BY <1>1, <1>2, <1>5, <1>10, <3>1, ReachedStays, ApplyOutcomes DEF ScriptInv
    <3>5. QED
      BY <1>5, <1>10, <2>1, <3>1, <3>2, <3>3, <3>4, ApplyOutcomes
      DEF OwnApprovalProgress
  <2>5. QED
    BY <1>3, <1>10, <2>2, <2>3, <2>4, ApplyOutcomes DEF Progress
<1>11. CASE Unpause
  <2>1. job.PauseProtocol
    BY <1>11, UnpauseOutcomes DEF ScriptInv, PausesOnRequest
  <2>2. UndisturbedProgress'
    BY <1>5, <1>11, <2>1, UnpauseOutcomes DEF UndisturbedProgress, ScriptInv
  <2>3. PausesOnRequest' /\ OwnApprovalProgress'
    BY <1>5, <1>11, <2>1, UnpauseOutcomes
    DEF PausesOnRequest, OwnApprovalProgress, ScriptInv, Reached
  <2>4. QED
    BY <1>3, <1>11, <2>2, <2>3, UnpauseOutcomes DEF Progress
<1>12. CASE Verify
  <2>1. UndisturbedProgress'
    BY <1>5, <1>12, VerifyOutcomes DEF UndisturbedProgress, ScriptInv, configVars
  <2>2. PausesOnRequest' /\ OwnApprovalProgress'
    BY <1>5, <1>12, VerifyOutcomes
    DEF PausesOnRequest, OwnApprovalProgress, ScriptInv, Reached, configVars
  <2>3. QED
    BY <1>3, <1>12, <2>1, <2>2, VerifyOutcomes DEF Progress
<1>13. CASE WriteManifest
  <2>1. step' = "done" /\ UNCHANGED <<configVars, jobVars>>
    BY <1>13 DEF WriteManifest, Advance
  <2>2. Progress'
    BY <1>5, <2>1
    DEF Progress, PausesOnRequest, UndisturbedProgress, OwnApprovalProgress,
        ScriptInv, configVars
  <2>3. QED
    BY <1>3, <2>1, <2>2
<1>14. CASE OthersStep
  <2>1. /\ before' = Now' /\ interfered' # "none" /\ UNCHANGED <<step, job>>
        /\ interfered' # "own approval" =>
             /\ interfered # "own approval"
             /\ upgrade'.allowed[BuiltWasm] = upgrade.allowed[BuiltWasm]
    BY <1>14 DEF OthersStep, scriptVars
  <2>2. ScriptTypeOK'
    BY <1>2, <2>1 DEF ScriptInv, ScriptTypeOK, Now, TypeOK
  <2>3. UndisturbedProgress' /\ PausesOnRequest'
    BY <2>1 DEF UndisturbedProgress, PausesOnRequest, ScriptInv
  <2>4. OwnApprovalProgress'
    <3> SUFFICES ASSUME interfered' # "own approval",
                        step \in {"pause", "apply", "unpause", "verify"}
                 PROVE  OwnApprovalProgress'
      BY <2>1 DEF OwnApprovalProgress
    <3>1. admin # NoAddress /\ admin' # NoAddress
      BY <1>1, <2>1, LiveStep DEF ScriptInv, OwnApprovalProgress
    <3>2. Pending => Pending'
      BY <2>1 DEF Pending
    <3>3. Reached => Reached'
      BY <1>1, <1>2, <2>1, <3>1, ReachedStays DEF ScriptInv
    <3>4. QED
      BY <2>1, <3>1, <3>2, <3>3 DEF ScriptInv, OwnApprovalProgress
  <2>5. QED
    BY <1>2, <2>2, <2>3, <2>4 DEF ScriptInv
<1>15. CASE UNCHANGED allVars
  <2>1. UNCHANGED <<configVars, step, jobVars>>
    BY <1>15 DEF allVars, scriptVars
  <2>2. Progress'
    BY <1>5, <2>1
    DEF Progress, PausesOnRequest, UndisturbedProgress, OwnApprovalProgress,
        ScriptInv, configVars, Pending, Reached
  <2>3. QED
    BY <1>3, <2>1, <2>2
<1>16. QED
  BY <1>6, <1>7, <1>8, <1>9, <1>10, <1>11, <1>12, <1>13, <1>14, <1>15
  DEF UpgradeScriptNext, ScriptStep

(* The invariant holds in every reachable state.                           *)
LEMMA ScriptInvariant == UpgradeScriptSpec => []ScriptInv
<1>1. UpgradeScriptInit => ScriptInv
  <2> SUFFICES ASSUME UpgradeScriptInit PROVE ScriptInv
    OBVIOUS
  <2>1. TypeOK /\ FailClosed
    BY ConfigInitially DEF UpgradeScriptInit
  <2>2. ScriptTypeOK
    BY <2>1 DEF UpgradeScriptInit, ScriptTypeOK, Job, Now, TypeOK
  <2>3. step = "idle" /\ paused = before.paused
    BY DEF UpgradeScriptInit, ScriptInit, Now
  <2>4. QED
    BY <2>1, <2>2, <2>3
    DEF ScriptInv, PausesOnRequest, UndisturbedProgress, OwnApprovalProgress
<1>2. ScriptInv /\ [UpgradeScriptNext]_allVars => ScriptInv'
  BY ScriptInvPreserved
<1>3. QED
  BY <1>1, <1>2, PTL DEF UpgradeScriptSpec

(* The script, its retries included, does nothing to the contract that     *)
(* the contract's specification does not allow.                            *)
THEOREM ScriptUsesContract == UpgradeScriptSpec => Spec
<1>1. UpgradeScriptInit => Init
  BY DEF UpgradeScriptInit
<1>2. ScriptInv /\ [UpgradeScriptNext]_allVars => [Next]_configVars
  BY ScriptStepIsConfigStep DEF ScriptInv
<1>3. QED
  BY <1>1, <1>2, ScriptInvariant, PTL DEF UpgradeScriptSpec, Spec

(* A failed run leaves nothing, its approval or the complete upgrade, and  *)
(* a pause only if asked for one (FailureIsContained).                     *)
THEOREM FailureContained == UpgradeScriptSpec => []FailureIsContained
<1>1. ScriptInv => FailureIsContained
  BY DEF ScriptInv, UndisturbedProgress, FailureIsContained, Was, WithApproval,
         Upgraded
<1>2. QED
  BY <1>1, ScriptInvariant, PTL

(* When the script turns to its manifest the contract runs the script's    *)
(* code at the version that the manifest names (ManifestIsTrue).           *)
THEOREM ManifestTrue == UpgradeScriptSpec => ManifestIsTrue
<1>1. ScriptInv /\ [UpgradeScriptNext]_allVars =>
        [step # "manifest" /\ step' = "manifest" /\ interfered # "own approval" =>
           upgrade.version = job.NewVersion /\ upgrade.wasm = BuiltWasm]_allVars
  <2> SUFFICES ASSUME ScriptInv, [UpgradeScriptNext]_allVars, step # "manifest",
                      step' = "manifest", interfered # "own approval"
               PROVE  upgrade.version = job.NewVersion /\ upgrade.wasm = BuiltWasm
    OBVIOUS
  <2>1. ~ (Start \/ WriteManifest \/ OthersStep) /\ ~ UNCHANGED allVars
    BY DEF Start, WriteManifest, OthersStep, Advance, allVars, scriptVars
  <2>2. ~ (UploadWasm \/ Pause \/ Unpause \/ Approve \/ Apply)
    BY UploadOutcomes, PauseOutcomes, UnpauseOutcomes, ApproveOutcomes,
       ApplyOutcomes DEF AfterApproval, AfterApply
  <2>3. Verify
    BY <2>1, <2>2 DEF UpgradeScriptNext, ScriptStep
  <2>4. QED
    BY <2>3, VerifyOutcomes DEF ScriptInv, OwnApprovalProgress, Reached
<1>2. QED
  BY <1>1, ScriptInvariant, PTL DEF UpgradeScriptSpec, ManifestIsTrue

(* With -PauseProtocol the code is swapped inside the pause                *)
(* (SwapsUnderPause).                                                      *)
THEOREM SwapUnderPause == UpgradeScriptSpec => SwapsUnderPause
<1>1. ScriptInv =>
        [job.PauseProtocol /\ interfered = "none" /\ step = "apply"
           /\ upgrade'.wasm # upgrade.wasm => paused]_allVars
  BY DEF ScriptInv, UndisturbedProgress
<1>2. QED
  BY <1>1, ScriptInvariant, PTL DEF UpgradeScriptSpec, SwapsUnderPause
===============================================================================
