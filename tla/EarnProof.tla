------------------------------ MODULE EarnProof ------------------------------
(***************************************************************************)
(* The deployed system: the three contracts on one ledger.  Transactions   *)
(* to the contracts interleave in every order, including their three       *)
(* initialize calls; register_proof reads the other two contracts within   *)
(* its own transaction.  It reads the contracts at the addresses it was    *)
(* initialised with, which need not be the deployed ones: foreign is what  *)
(* the contracts of strangers answer.  The upgrade calls write nothing     *)
(* that another contract reads; they are checked contract by contract, not *)
(* here.                                                                   *)
(***************************************************************************)
EXTENDS Shared, Naturals

CONSTANTS
  WasmHash, UploadedWasm, DeployedWasm, MaxContractVersion,
  MaxU32, MaxSchema, MaxTime,
  IssuerId, Metadata, NoIssuer, NoRecord,
  ProofId, Commitment, NoProof,
  ProofContract, IssuerContract, ConfigContract,
  IssuerServers, ConfigServers,
  Account    \* the addresses that can authorise an invocation

(* What the contracts' own modules assume of these constants.              *)
ASSUME SystemAssumption ==
  /\ UploadedWasm \subseteq WasmHash /\ DeployedWasm \notin WasmHash
  /\ {MaxU32, MaxContractVersion} \subseteq Nat \ {0}
  /\ {MaxSchema, MaxTime} \subseteq Nat
  /\ NoIssuer \notin IssuerId
  /\ {ProofContract, IssuerContract, ConfigContract} \subseteq Address
  /\ ProofContract # IssuerContract
  /\ ProofContract # ConfigContract
  /\ IssuerContract # ConfigContract
  /\ IssuerContract \in IssuerServers
  /\ IssuerServers \subseteq Address \ {ProofContract, ConfigContract}
  /\ ConfigContract \in ConfigServers
  /\ ConfigServers \subseteq Address \ {ProofContract, IssuerContract}

(* None of the three contracts ever calls another one as an administrator  *)
(* or issuer, so their own addresses authorise nothing.                    *)
ASSUME AccountAssumption ==
  /\ Account \subseteq Address \ InvalidPrincipals
  /\ Account \intersect {ProofContract, IssuerContract, ConfigContract} = {}

VARIABLES
  cfgAdmin, cfgPaused, cfgSchema, cfgVersion, cfgUpgrade,
  irAdmin, issuers, addressIssuer, irUpgrade,
  prAdmin, issuerRegistry, protocolConfig, proofs, prUpgrade,
  now,
  foreign     \* the answers of a stranger's contract

cfgVars == <<cfgAdmin, cfgPaused, cfgSchema, cfgVersion, cfgUpgrade>>
irVars  == <<irAdmin, issuers, addressIssuer, irUpgrade>>
prVars  == <<prAdmin, issuerRegistry, protocolConfig, proofs, prUpgrade>>
vars    == <<cfgVars, irVars, prVars, now, foreign>>

Config == INSTANCE ProtocolConfig WITH
  admin <- cfgAdmin, paused <- cfgPaused, schema <- cfgSchema,
  configVersion <- cfgVersion, upgrade <- cfgUpgrade

Issuers == INSTANCE IssuerRegistry WITH admin <- irAdmin, upgrade <- irUpgrade

(* What register_proof's cross-contract calls return in this state.        *)
ApprovedSchemas ==
  {v \in Config!SchemaVersions : Config!is_schema_version_approved(v)}
ActiveAddresses == {a \in Address : Issuers!is_active_address(a)}

(* A stranger's contract may answer anything.  Its answers about schema    *)
(* version 0, which register_proof refuses before it asks, and about       *)
(* addresses that cannot sign make no difference and are left out.         *)
ForeignAnswers ==
  [paused : BOOLEAN, approved : SUBSET (Config!SchemaVersions \ {0}),
   active : SUBSET Account]

ForeignConfig == protocolConfig \in ConfigServers \ {ConfigContract}
ForeignIssuers == issuerRegistry \in IssuerServers \ {IssuerContract}

PausedAnswer == IF ForeignConfig THEN foreign.paused ELSE cfgPaused
SchemaAnswer == IF ForeignConfig THEN foreign.approved ELSE ApprovedSchemas
ActiveAnswer == IF ForeignIssuers THEN foreign.active ELSE ActiveAddresses

Proofs == INSTANCE ProofRegistry WITH
  admin <- prAdmin, upgrade <- prUpgrade, Candidates <- Address,
  paused <- PausedAnswer, approved <- SchemaAnswer, active <- ActiveAnswer

ASSUME RecordAssumption ==
  NoRecord \notin Issuers!IssuerRecord /\ NoProof \notin Proofs!ProofRecord

Init ==
  /\ Config!Init
  /\ Issuers!Init
  /\ prAdmin = NoAddress
  /\ issuerRegistry = NoAddress
  /\ protocolConfig = NoAddress
  /\ proofs = [p \in ProofId |-> NoProof]
  /\ prUpgrade = cfgUpgrade
  /\ foreign = [paused |-> FALSE, approved |-> {}, active |-> {}]

ConfigStep ==
  /\ UNCHANGED <<irVars, prVars, now, foreign>>
  /\ \E caller \in Account : Config!ConfigCall(caller)

IssuerStep ==
  /\ UNCHANGED <<cfgVars, prVars, foreign>>
  /\ \E caller \in Account : Issuers!IssuerCall(caller)

ProofStep ==
  /\ UNCHANGED <<cfgVars, irVars, foreign>>
  /\ \E caller \in Account : Proofs!ProofCall(caller)

Tick ==
  /\ UNCHANGED <<cfgVars, irVars, prVars, foreign>>
  /\ Issuers!Tick

(* A stranger's contract changes its answers; nobody notices before the    *)
(* proof registry is wired to it.                                          *)
ForeignStep ==
  /\ ForeignConfig \/ ForeignIssuers
  /\ foreign' \in ForeignAnswers
  /\ UNCHANGED <<cfgVars, irVars, prVars, now>>

Next == ConfigStep \/ IssuerStep \/ ProofStep \/ Tick \/ ForeignStep

Spec == Init /\ [][Next]_vars

(***************************************************************************)
(* Properties                                                              *)
(***************************************************************************)

(* Type invariant: each contract's own.                                    *)
TypeOK ==
  /\ Config!TypeOK /\ Issuers!TypeOK /\ Proofs!TypeOK
  /\ foreign \in ForeignAnswers

Admitted(p) == ~ Proofs!Registered(p) /\ Proofs!Registered(p)'

(* A proof enters the ledger only with an expiry that lies ahead, and the  *)
(* deployed contracts vouch for it as far as the registry is wired to      *)
(* them.  protocol-config, in the very transaction, is live and unpaused   *)
(* and has the proof's schema version approved.  In issuer-registry the    *)
(* signing address belongs to the record of an issuer that is Active - not *)
(* merely to some index entry - and to no suspended or revoked issuer.     *)
AdmissionIsSound ==
  [][\A p \in ProofId : Admitted(p) =>
       LET r == proofs'[p] IN
         /\ now < r.expires_at /\ r.schema_version # 0
         /\ protocolConfig = ConfigContract =>
              /\ cfgAdmin # NoAddress /\ ~ cfgPaused
              /\ cfgSchema[r.schema_version] = "approved"
         /\ issuerRegistry = IssuerContract =>
              /\ \E i \in IssuerId :
                   /\ Issuers!is_active_issuer(i)
                   /\ issuers[i].issuer_address = r.issuer_address
              /\ \A i \in IssuerId :
                   /\ Issuers!Registered(i)
                   /\ issuers[i].issuer_address = r.issuer_address
                   => issuers[i].status = "Active"]_vars

(* As long as proof-registry, or a deployed contract it is wired to,       *)
(* awaits its initialize call, and also if it is wired to addresses where  *)
(* nothing answers, the two swapped included, there are no proofs: every   *)
(* order of deployment steps fails closed.  What does let proofs in        *)
(* without the other two contracts is a wiring to contracts of strangers   *)
(* that answer for them.                                                   *)
DeploymentFailsClosed ==
  (\E p \in ProofId : Proofs!Registered(p)) =>
    /\ prAdmin # NoAddress
    /\ issuerRegistry \in IssuerServers /\ protocolConfig \in ConfigServers
    /\ issuerRegistry = IssuerContract => irAdmin # NoAddress
    /\ protocolConfig = ConfigContract => cfgAdmin # NoAddress

(* The contracts that proof-registry reads, deployed or a stranger's, keep *)
(* to what its own specification assumes of them: until it is wired        *)
(* nothing is approved or active, schema version 0 never is, and whatever  *)
(* they do shows in their answers only.                                    *)
ProofsSpec == Proofs!Spec
==============================================================================
