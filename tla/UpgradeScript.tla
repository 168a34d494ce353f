---------------------------- MODULE UpgradeScript ----------------------------
(***************************************************************************)
(* scripts/upgrade-contract.ps1 upgrading protocol-config, with every      *)
(* other caller of that contract at work beside it.  (For the two          *)
(* registries the upgrade calls are the same and the pause concerns a      *)
(* different contract, so there is less to interfere.)                     *)
(***************************************************************************)
EXTENDS ProtocolConfig, ScriptRetry

CONSTANTS
  Operator,    \* the key behind -Source
  BuiltWasm    \* the hash of the WASM that step 1 builds

ASSUME ScriptAssumption == Operator \in Address /\ BuiltWasm \in UploadedWasm

VARIABLES
  job,          \* the parameters of the run
  before,       \* history: the contract's state when the run started,
                \* or since somebody else changed it
  interfered    \* history: what somebody else has changed of it since

jobVars == <<job, before, interfered>>
allVars == <<configVars, scriptVars, jobVars>>

Rehearsal == [NewVersion |-> 0, PauseProtocol |-> FALSE, DryRun |-> TRUE]

(* A rehearsal stops before it looks at the other parameters.              *)
Job ==
  [NewVersion : ContractVersions, PauseProtocol : BOOLEAN, DryRun : {FALSE}]
    \union {Rehearsal}

Now == [paused |-> paused, upgrade |-> upgrade]

UpgradeScriptInit ==
  /\ Init
  /\ ScriptInit("idle")
  /\ job = Rehearsal
  /\ before = Now
  /\ interfered = "none"

(* An operator starts the script, in any state the contract may have got   *)
(* into; one left behind by an earlier run of the script is among them.    *)
Start ==
  /\ step = "idle"
  /\ Advance("upload")
  /\ job' \in Job
  /\ before' = Now
  /\ interfered' = "none"
  /\ UNCHANGED configVars

Invoke(result, Takes, next) ==
  /\ Invoke_WithRetry(result, Takes, UNCHANGED configVars, next)
  /\ UNCHANGED jobVars

(* Step 2; uploading the same code twice has no further effect. *)
UploadWasm ==
  /\ step = "upload"
  /\ Invoke(Ok, UNCHANGED configVars, IF job.DryRun THEN "done" ELSE "approve")

(* Fault: the pause is skipped. *)
AfterApprovalUnpaused == "apply"

AfterApproval == IF job.PauseProtocol THEN "pause" ELSE "apply"

Approve ==
  /\ step = "approve"
  /\ Invoke(ApproveUpgradeResult(Operator, BuiltWasm, job.NewVersion),
            approve_upgrade(Operator, BuiltWasm, job.NewVersion), AfterApproval)

Pause ==
  /\ step = "pause"
  /\ Invoke(SetPausedResult(Operator), pause(Operator), "apply")

(* Fault: the script goes on to the manifest. *)
UnverifiedAfterApply == IF job.PauseProtocol THEN "unpause" ELSE "manifest"

AfterApply == IF job.PauseProtocol THEN "unpause" ELSE "verify"

Apply ==
  /\ step = "apply"
  /\ Invoke(UpgradeContractResult(Operator, BuiltWasm),
            upgrade_contract(Operator, BuiltWasm), AfterApply)

Unpause ==
  /\ step = "unpause"
  /\ Invoke(SetPausedResult(Operator), unpause(Operator), "verify")

Verify ==
  /\ step = "verify"
  /\ Invoke(Ok, UNCHANGED configVars,
            IF upgrade.version = job.NewVersion THEN "manifest" ELSE "failed")

WriteManifest ==
  step = "manifest" /\ Advance("done") /\ UNCHANGED <<configVars, jobVars>>

ScriptStep ==
  \/ UploadWasm
  \/ Approve
  \/ Pause
  \/ Apply
  \/ Unpause
  \/ Verify
  \/ WriteManifest

(* Everybody else, other holders of the operator's key included. *)
OthersStep ==
  /\ Next
  /\ \/ /\ upgrade'.allowed[BuiltWasm] # upgrade.allowed[BuiltWasm]
        /\ interfered' = "own approval"
     \/ /\ upgrade'.allowed[BuiltWasm] = upgrade.allowed[BuiltWasm]
        /\ interfered' = IF interfered = "none" THEN "elsewhere" ELSE interfered
  /\ before' = Now'
  /\ UNCHANGED <<scriptVars, job>>

UpgradeScriptNext == Start \/ ScriptStep \/ OthersStep

(* The shell goes on with the script as long as it has a next command.     *)
UpgradeScriptSpec ==
  /\ UpgradeScriptInit
  /\ [][UpgradeScriptNext]_allVars
  /\ WF_allVars(ScriptStep)

(***************************************************************************)
(* Properties                                                              *)
(***************************************************************************)

(* The manifest is true: when the script gets to writing it, the contract  *)
(* runs the code the script built at the version the manifest names.  The  *)
(* script compares versions only; that the code is its own follows from    *)
(* the contract's rules, whatever approvals and upgrades of other hashes,  *)
(* pauses and handovers came in between.  Only meddling with the approval  *)
(* of the script's own hash can put another upgrade's version in place.    *)
ManifestIsTrue ==
  [][step # "manifest" /\ step' = "manifest" /\ interfered # "own approval" =>
       upgrade.version = job.NewVersion /\ upgrade.wasm = BuiltWasm]_allVars

(* A run that fails, with nobody else at work, leaves one of three things  *)
(* behind, however its answers were lost: nothing, its approval, or the    *)
(* complete upgrade; and it leaves the protocol paused only if it had been *)
(* asked to pause it.  Paused and upgraded is among these states: after a  *)
(* lost answer of the apply step the script throws and does not unpause.   *)
FailureIsContained ==
  step = "failed" /\ interfered = "none" =>
    /\ LET was == before.upgrade IN
         upgrade \in
           {was,
            [was EXCEPT !.allowed[BuiltWasm] = job.NewVersion],
            [version |-> job.NewVersion,
             allowed |-> [was.allowed EXCEPT ![BuiltWasm] = 0],
             wasm    |-> BuiltWasm]}
    /\ paused # before.paused => job.PauseProtocol

(* With -PauseProtocol the code is swapped inside the pause, also when the *)
(* pause or the swap had to be sent more than once.                        *)
SwapsUnderPause ==
  [][job.PauseProtocol /\ interfered = "none" /\ step = "apply"
       /\ upgrade'.wasm # upgrade.wasm => paused]_allVars

(* The script comes to an end: retries are bounded.                        *)
ScriptEnds == step = "upload" ~> Ended
===============================================================================
