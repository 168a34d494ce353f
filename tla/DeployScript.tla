---------------------------- MODULE DeployScript ----------------------------
(***************************************************************************)
(* scripts/deploy-testnet.ps1 on a ledger where anybody may call the       *)
(* contracts as soon as they are deployed.  The three contracts here are   *)
(* the instances whose identifiers the script captures.  An instance whose *)
(* deploy answer was lost is not among them: the retry deploys another,    *)
(* and the lost one is named by nothing the script writes.                 *)
(***************************************************************************)
EXTENDS EarnProof, ScriptRetry

CONSTANTS
  Source,           \* -Source, whose key signs every transaction
  Admin,            \* -Admin
  IssuerAddress,    \* -IssuerAddress
  BackendIssuer,    \* the hash of "earnproof-backend:$IssuerAddress"
  BackendMetadata

(* The parameters are given before the contracts have addresses.           *)
ASSUME DeployAssumption ==
  /\ Source \in Address \ Account
  /\ {Admin, IssuerAddress} \subseteq Address
  /\ IssuerAddress \notin {ProofContract, IssuerContract, ConfigContract}
  /\ BackendIssuer \in IssuerId
  /\ BackendMetadata \in Metadata
  /\ MaxSchema >= 1

VARIABLE deployed   \* the contracts that exist

deployVars == <<vars, scriptVars, deployed>>

DeployInit == Init /\ ScriptInit("deploy config") /\ deployed = {}

Deploy(here, contract, next) ==
  /\ step = here
  /\ \/ deployed' = deployed \union {contract} /\ Advance(next)
     \/ UNCHANGED deployed /\ (Again \/ Advance("failed"))
  /\ UNCHANGED vars

Invoke(here, result, Takes, next) ==
  /\ step = here
  /\ Invoke_WithRetry(result, Takes, UNCHANGED vars, next)
  /\ UNCHANGED deployed

InitializeConfig ==
  Invoke("init config", Config!InitializeResult(Source, Admin),
         UNCHANGED <<irVars, prVars, now, foreign>> /\ Config!initialize(Source, Admin),
         "approve schema")

ApproveSchema ==
  Invoke("approve schema", Config!SetSchemaResult(Source, 1),
         UNCHANGED <<irVars, prVars, now, foreign>>
           /\ Config!approve_schema_version(Source, 1),
         "init issuers")

InitializeIssuers ==
  Invoke("init issuers", Issuers!InitializeResult(Source, Admin),
         UNCHANGED <<cfgVars, prVars, foreign>> /\ Issuers!initialize(Source, Admin),
         "register issuer")

RegisterIssuer ==
  Invoke("register issuer",
         Issuers!RegisterIssuerResult(Source, BackendIssuer, IssuerAddress),
         UNCHANGED <<cfgVars, prVars, foreign>>
           /\ Issuers!register_issuer(Source, BackendIssuer, IssuerAddress,
                                      BackendMetadata),
         "init proofs")

(* Fault: the two dependencies change places. *)
InitializeProofsSwapped ==
  Invoke("init proofs",
         Proofs!InitializeResult(Source, Admin, ConfigContract, IssuerContract),
         UNCHANGED <<cfgVars, irVars, foreign>>
           /\ Proofs!initialize(Source, Admin, ConfigContract, IssuerContract),
         "manifest")

InitializeProofs ==
  Invoke("init proofs",
         Proofs!InitializeResult(Source, Admin, IssuerContract, ConfigContract),
         UNCHANGED <<cfgVars, irVars, foreign>>
           /\ Proofs!initialize(Source, Admin, IssuerContract, ConfigContract),
         "manifest")

WriteManifest ==
  step = "manifest" /\ Advance("done") /\ UNCHANGED <<vars, deployed>>

ScriptStep ==
  \/ Deploy("deploy config", ConfigContract, "deploy issuers")
  \/ Deploy("deploy issuers", IssuerContract, "deploy proofs")
  \/ Deploy("deploy proofs", ProofContract, "init config")
  \/ InitializeConfig
  \/ ApproveSchema
  \/ InitializeIssuers
  \/ RegisterIssuer
  \/ InitializeProofs
  \/ WriteManifest

(* The other accounts call what has been deployed, initialize with any     *)
(* arguments included, in any order; ledgers close.                        *)
Bystander ==
  /\ \/ ConfigContract \in deployed /\ ConfigStep
     \/ IssuerContract \in deployed /\ IssuerStep
     \/ ProofContract \in deployed /\ ProofStep
     \/ Tick
     \/ ForeignStep
  /\ UNCHANGED <<scriptVars, deployed>>

DeployNext == ScriptStep \/ Bystander

DeploySpec == DeployInit /\ [][DeployNext]_deployVars

(***************************************************************************)
(* Properties                                                              *)
(***************************************************************************)

(* The manifest names a working system: whoever tried to initialise or use *)
(* a contract between two steps, and whatever answers were lost, when the  *)
(* script writes its manifest all three contracts obey Admin, the proof    *)
(* registry asks the two the manifest names and no stranger's, and the     *)
(* backend issuer can register any new proof that has not expired.         *)
ManifestIsOperational ==
  step \in {"manifest", "done"} =>
    /\ cfgAdmin = Admin /\ irAdmin = Admin /\ prAdmin = Admin
    /\ issuerRegistry = IssuerContract /\ protocolConfig = ConfigContract
    /\ \A p \in ProofId, e \in Proofs!Time :
         ~ Proofs!Registered(p) /\ e > now =>
           Proofs!RegisterProofResult(IssuerAddress, p, IssuerAddress, 1, e) = Ok
=============================================================================
