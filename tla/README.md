# EarnProof contracts in TLA+

A verification project for the three Soroban contracts of this repository
(`contracts/protocol-config`, `contracts/issuer-registry`,
`contracts/proof-registry`), the shared package they use and the scripts that
deploy and upgrade them: TLA+ modules translated from the source, TLC runs over
small instances, and TLAPS proofs of every safety property of these runs for
every size of the parameters.

## 1. The system

| Component | State | Operations | Interacts with |
|---|---|---|---|
| protocol-config | administrator, pause flag, schema versions (approved or deprecated), config version | initialize, set_admin, pause, unpause, approve_schema_version, deprecate_schema_version, reads | read by proof-registry and by off-chain monitors |
| issuer-registry | issuer records by identifier hash, reverse index address → identifier | initialize, register, update, suspend, reactivate, revoke, rotate address, reads | read by proof-registry |
| proof-registry | proof records, the addresses of the two other contracts | initialize, register_proof, revoke_proof, admin_revoke_proof, reads | calls `is_paused`, `is_schema_version_approved` and `is_active_address` inside register_proof |
| upgrade governance (in each contract) | contract version, allowlist of WASM hashes, installed code | approve_upgrade, revoke_upgrade, upgrade_contract | host: `update_current_contract_wasm` |
| shared package | address rule, status enumerations, error catalogue with its retry classes, inventory of storage keys | pure functions and tables | all contracts and clients |
| storage TTL | a remaining life per entry | extended by most writes and some reads | host archival |
| contract events | a stream of topics and data | published by config, issuer and upgrade calls | off-chain indexers |
| upgrade and deployment scripts | progress through their steps | build, upload, invoke, with retries | all contracts over RPC |
| TypeScript bindings | none of its own | one method per entry point, time limits | all contracts over RPC |

Soroban executes one invocation at a time and rolls everything back when it
returns an error, panics or traps. There are no threads; what is hard is
elsewhere:

- **interleavings of transactions** by several administrators, issuers and a
  clock, over three contracts that are initialised separately, in any order, and wired
  by addresses that nobody checks;
- **two copies of one fact**: the issuer records and the reverse index; the
  config counter and the configuration it stands for;
- **long histories**: a revocation, an expiry or a rejection that is called
  final must stay so after every later call of anybody;
- **authority that is copied**: a proof stores the address that signed it, and
  addresses can be rotated away and taken by someone else;
- **edges**: the config counter at `u32::MAX`, expiry equal to the ledger time;
- **clients**: retries after rejections and lost answers, scripts that stop
  halfway while other administrators are at work;
- **entries that run out**: every read and write decides whether it extends the
  entries it touches;
- **events**: a copy of the state that is rebuilt elsewhere, from a stream that
  is replayed or has gaps.

What makes each component correct is stated as the properties of section 4;
`PROJECT.json` lists, under `hazards`, the line where each can go wrong.

## 2. Modules

| Module | Models | Kind |
|---|---|---|
| `Shared` | `packages/shared`: address rule, statuses, the `Retry::Never` class | definitions |
| `UpgradeGovernance` | the three upgrade calls, identical in the three contracts | component, extended by the contracts |
| `ProtocolConfig` | protocol-config | component |
| `ConfigMonitor` | protocol-config and a monitor that polls it | composition |
| `IssuerRegistry` | issuer-registry | component |
| `ProofRegistry` | proof-registry over an environment that changes freely | component |
| `EarnProof` | the three contracts on one ledger, and what strangers' contracts answer where the proof registry is wired to them | composition by INSTANCE |
| `Provenance` | `EarnProof` with a history variable: who issued which proof | history |
| `StorageTtl` | the lifetime of one ledger entry: extension, archival, restoration | component |
| `IssuerTtl`, `ProofTtl`, `ConfigTtl` | each contract with what its writes and reads do to the lifetime of its entries | composition |
| `IndexUpkeep` | `IssuerTtl` and an operator who keeps an index entry live by polling `is_active_address` | composition |
| `StorageNamespaces` | `storage_namespaces.rs`: the reviewed inventory of keys | definitions |
| `StorageLifetimes` | any one of the three contracts with its lifetimes, and the keys it holds | composition |
| `ErrorCatalog` | the error enums and `error_catalog.rs` | definitions |
| `RetryClient` | a backend that registers a proof by the rules of the catalogue, over `ProofRegistry` | composition |
| `EventStream` | a contract's events on the way to an indexer that may crash, replay or miss some | component, external |
| `UpgradeEvents`, `IssuerEvents`, `ConfigEvents` | the events of the calls, and the indexer's fold | composition |
| `EventIndexers` | issuer-registry or protocol-config with its indexer | composition |
| `ScriptRetry` | `Invoke-WithRetry` of the scripts | component |
| `UpgradeScript` | `scripts/upgrade-contract.ps1` over `ProtocolConfig` | composition |
| `ConfigClients` | `ConfigMonitor` or `UpgradeScript`, one of the two in a behaviour | composition |
| `DeployScript` | `scripts/deploy-testnet.ps1` over `EarnProof` | composition |
| `UpgradeGovernanceProofs`, `ProtocolConfigProofs`, `IssuerRegistryProofs`, `ProofRegistryProofs` | theorems about each contract | proofs |
| `EarnProofProofs` | theorems about the composition and the deployment script | proofs |
| `ConfigClientProofs` | theorems about the monitor and the upgrade script | proofs |
| `RegistryUseProofs` | theorems about the retrying client, and about the lifetime of entries in all three contracts | proofs |
| `EventIndexersProofs` | theorems about the two indexers | proofs |
| `MCIssuers`, `MCProofs`, `MCDeployment` | instances for TLC | model checking |

### Conventions

An entry point `f` is a pair of definitions. `fResult(...)` is the value the call
returns in the current state, as a cascade of the code's checks in the code's
order: `Ok`, the name of the error, a panic, or `HostAuthError` when
`require_auth` aborts. The action `f(...)` is enabled when the result is `Ok` and
makes the writes. A rejected call changes nothing and is a stuttering step; this
is what Soroban's rollback gives, and it is why the order of two writes within
one invocation does not show. Keeping the rejections as values lets properties
speak about them (`FinalRejectionsAreFinal`, `RevocationStaysOpen`).

Every entry point asks for at most one address's authorisation, so an invocation
carries one authorising address, `caller`.

Storage maps become functions with a "no entry" value (`NoRecord`, `NoProof`,
`NoIssuer`, `NoAddress`; version 0 for the upgrade allowlist, which never stores
0 because an approval has to exceed the current version). Hashes, addresses and
metadata are model values. The ledger time `now` advances by `Tick`; several
invocations may share one ledger time, as on the network.

`ProofRegistry` is written against three variables `paused`, `approved`, `active`
that stand for what the contracts at its two stored addresses answer. On its own
they change freely (`EnvironmentStep`), and initialize, which decides who is asked,
changes them as well. The code calls whatever is at a stored address:
`ConfigServers` and `IssuerServers` are the addresses at which some contract
answers the functions of the interface, the deployed contract among them, but also
a second instance, a mock or a look-alike. At any other address, an account or a
contract without the function, the call traps (`ConfigUnreachable`,
`IssuersUnreachable`); the deployed three do not have each other's functions, so a
swapped wiring traps too. They are assumed to be at distinct addresses.

`EarnProof` says whose answers these are. Wired to the deployed contracts, the
composed register_proof reads their state, in the same atomic step; wired to a
stranger's contract it reads `foreign`, which `ForeignStep` changes at will. A
registry that is initialised with look-alikes, as in
`tests/cross-contract/src/races.rs:177`, admits whatever they vouch for; the
properties say what the deployed contracts guarantee where they are the ones that
are asked.

Definitions marked *Fault* are wrong variants of the definition that follows,
one or more per property: putting one in the place of the right one must make
TLC report the property (`mutants` in `PROJECT.json`).

## 3. Correspondence with the code

`map` in `PROJECT.json` gives the source lines of every definition. Some points
that are easy to miss:

- `pause`, `unpause`, `set_admin` and the schema calls write first and bump the
  config version last; when `checked_add` fails the panic rolls the write back,
  so `BumpOverflows` is a guard of the whole call. At `u32::MAX` the
  configuration is frozen, emergency pause included.
- protocol-config answers reads before initialize: not paused, nothing approved.
- `set_status` accepts `Revoked` on a revoked issuer again and refreshes
  `updated_at`; `rotate_issuer_address` removes the index entry of the old
  address, which is then free for any other issuer.
- `register_proof` reports a paused protocol and an inactive issuer as
  `InvalidSchemaVersion`; the duplicate test comes last.
- `set_revoked` looks at neither the pause nor the issuer registry.
- `upgrade_contract` removes the approval, installs the code, then raises the
  version; if the hash was never uploaded the host traps and all is rolled back.

The modules around the contracts conjoin an action of the contract's module with
what the same invocation does beside its writes, so a call and its extension or
its event are one step, as they are in the code:

- `register_issuer_ttl` is `register_issuer` and `Touch(loads, extends, removes)`.
  A TTL depends on the calls that touch its own entry only, so the model watches
  one entry, chosen at the start among all there may be. `Extended` is
  `extend_ttl(50_000, 500_000)`: it acts when at most the threshold is left.
  Reads are actions here, because they extend: `get_issuer` the record,
  `get_issuer_by_address` the index entry and not the record, `is_active_address`
  the record and not the index entry. In the registries `initialize`,
  `approve_upgrade` and `upgrade_contract` extend the instance and no other call
  does; in protocol-config every call that bumps the version does.
- The host archives an entry whose TTL is used up and restores it, with its
  value, when an invocation loads it. So archival changes what a call costs and
  never what it returns, and the properties of the contracts hold with it.
- `IssuerEvents!PublishingCall` is each call with its `.publish`. initialize of
  issuer-registry and all proof calls are silent; the upgrade calls of
  proof-registry publish as those of the other two do. An event carries the fields of
  its struct except the acting administrator (`approved_by`, `revoked_by`,
  `upgraded_by`).
- The backend of `RetryClient` is described by docs/backend-integration.md; its
  classification of an answer is `decide` of tests/error-catalog, which reads
  `ERROR_CATALOG`. It polls the reads the documentation names for a code and
  submits again when they are favourable.
- Every command of a script goes through `Invoke_WithRetry`: the transaction
  takes effect and the answer arrives; or it takes effect and the answer is
  lost; or nothing happens and the error is retryable; or the error is final.
  After the last attempt, or on a final error, the script throws. The build and
  the formatting of the manifest are left out; the steps in between are in the
  script's order. A deploy whose answer is lost creates an instance that nothing
  refers to, and the retry another one.

## 4. Runs

| Run | Instance | What it shows |
|---|---|---|
| `config` | 2 valid addresses and the zero address, schema versions 0–1, counter up to 3, 3 hashes of which 2 uploaded, contract versions up to 3; a monitor, or the upgrade script started in any state with 2 attempts per command | `FailClosed`: nothing is open before initialize. `CountsEveryChange`: each change moves the counter by one, it never wraps. `EqualVersionsEqualConfig`: a polling monitor is never fooled by an equal version. `HandoverMovesOnlyAuthority`. `UpgradesSpendApprovals`: no replay and no downgrade. Of the script: `ManifestIsTrue`, `SwapsUnderPause`, `FailureIsContained`, `ScriptEnds` |
| `issuers` | 2 issuers, 3 valid addresses and the zero address, 2 metadata hashes, time 0–2 | `IndexMatchesRecords`, `RevocationIsTerminal`, `ChangesAreStamped`, `FinalRejectionsAreFinal` |
| `proofs` | 2 proofs (symmetric), one issuer address, three contract addresses, a stranger's contract with both interfaces, the zero address, every wiring, free answers, time 0–2, contract versions up to 2 | `MiswiredStaysEmpty`, `TimestampsConsistent`, `ProofsAreImmutable`, `InvalidityIsFinal`, `RevocationStaysOpen`, `HopelessCallsStayHopeless` |
| `deployment` | the script's account, a bystander whose address is also the backend issuer's, a stranger's contract with both interfaces, 2 issuers, 1 proof, every order of initialisation and every wiring by the bystander, 2 attempts per command | `AdmissionIsSound`: what holds of the records of the deployed contracts when a proof is stored through them. `DeploymentFailsClosed`: no proof gets in before proof-registry and the deployed contracts it is wired to are live, nor through a wiring where nothing answers. `ManifestIsOperational`: a manifest is written only for a system wired to the contracts it names, in which the backend can register proofs. `ProofsSpec`: whoever is asked behaves as proof-registry's own specification assumes |
| `storage` | each of the three contracts, one hash, threshold 2, target 7, new entries with 1 ledger to live | `TouchesKeepAlive`: a touch buys the threshold and one ledger, whatever happened before. `RestoredInFull`: an archived proof comes back with the full TTL by whichever call |
| `client` | one request of an issuer or of the registry's own address, schema 0–1, every expiry, a foreign commitment for the same identifier | `DroppedIsHopeless`: what the client gives up would never have succeeded. `LostAnswersAreRecovered`: a submission whose answer was lost is recognised when it is repeated. `QueueDrains`: once the operators have opened everything for good, the request is settled. `EveryProofEnds`: a proof nobody revokes ends by the passing of time |
| `events` | 2 issuers and 2 addresses (symmetric), config counter up to 4, one hash with versions up to 2, backlog of 3 events | `IndexerRebuildsState`: records, routes and allowlist are rebuilt exactly, replays after crashes included. `GapsAreVisible`: an indexer that may miss events and has received as many as the config version counts has the right picture. `NoFalseAlarms`: the numbers differ only if it missed one |
| `issuer_retry` | as `issuers` | violated, see section 7 |
| `provenance_resolve`, `provenance_revoke` | two accounts acting as administrators and issuers, 2 issuers, 1 proof, no strangers' contracts | violated, see section 7 |
| `inventory` | as `storage` | violated, see section 7 |
| `index_upkeep` | issuer-registry with one issuer and two addresses, threshold 1, target 3, a poll after every ledger | violated, see section 7 |

### Bounds

`MaxU32`, `MaxContractVersion` and `MaxTime` are the integer widths scaled down:
the overflow of the config counter happens in the model after a few changes, and
every comparison of times (before, equal, after an expiry) with three instants.
`MaxSchema` limits the schema versions that callers name; 0, which the code
rejects, is among them. In the `issuers` run three addresses for two issuers let
an issuer leave an address and another take it. In the `proofs` run the stranger's
contract `x` makes four kinds of wiring: to the deployed contracts, to `x` in the
place of one of them, swapped, and to an account. `Candidates` limits which
addresses are called active; one of them is the issuer contract's own address,
which register_proof has to refuse. The constraint `AdminBound` leaves out
registries whose administrator is one of the contracts, which never sign.
`Account` limits who signs in the composed model, for the same reason. Three
constraints of the `deployment` run cut what the other runs explore. After
`AddressBound` the configuration is not handed to, and no issuer registered at, an
address that cannot sign. `StrangerBound` stops the deployed configuration at its
first approved schema where the registry asks a stranger's contract instead.
`SecondIssuerBound` has a second issuer only next to the backend's, where the
registry asks the deployed contracts, or is not wired yet, and the configuration has
just been opened. That is enough for the case it is there for, an address that one
issuer leaves and another takes; without the backend's issuer the other one would
only repeat its states, because whoever can register it is the issuer registry's
administrator and can register the backend's as well.
The upgrade calls are left out of `EarnProof`: they write only the upgrade state,
which no other contract and no other call reads.
`StorageLifetimes` has them, because they write a key of their own and extend the
instance.

In `index_upkeep` the operator polls after every ledger (`Cadence` 1), far more often
than any cadence the documentation asks for; with an index entry that
`is_active_address` did extend, the property would hold there.

The TTL constants are 50,000 and 500,000 scaled to 2 and 7. What matters is kept:
the target is more than twice the threshold, so that a touch can fall above it
and be a no-op, and a new entry (4,095 ledgers, docs/storage-ttl.md) starts below
the threshold. `Horizon` stops the count of
idle ledgers above everything the properties compare it with. In this run time
stamps and ledgers are separate: `StampTime` and `MaxTime` bound the stamps of
issuer records and of proofs alone.

`MaxBacklog` is the number of events an indexer may apply again after a crash;
three are enough for an address to be given up, taken and given up again, or for
an approval to be granted, withdrawn and granted. `MaxRetries` is 5 in the
scripts and 2 here: one lost attempt before the last, and the last. `Requesters`
limits who the client's request may name as issuer: an account and one address
the contract refuses.

In the `deployment` run the system may stop when the script has ended and the bounds are reached, so
deadlock is not checked there.

### Fairness

- `ClientSpec`: ledgers keep closing whether or not anybody calls a contract (weak
  fairness of `Tick`), and the backend goes on working, that is, an answer to a
  submission arrives eventually and a favourable poll is acted on. Nothing is
  assumed of administrators; what `QueueDrains` needs of them is its hypothesis.
  `EveryProofEnds` is stated for expiries below `MaxTime`, the last instant a
  bounded behaviour reaches.
- `UpgradeScriptSpec`, and `ClientsSpec` of the run: weak fairness of the script's next step, the shell running
  on. Callers beside the script need not act.

## 5. Proofs

TLAPS checks all of these for every choice of the constants that satisfies the
`ASSUME`s of the modules: the "no entry" values are not entries, the contract
addresses differ, bounds are natural numbers. Three assumptions say more:

- `TtlAssumption`: the threshold is below the target of an extension, and a new
  or restored entry has at most the target;
- `DeployAssumption`: the deployment script's own account and the backend's address
  are fixed before the contracts have addresses, so the latter is none of theirs; no
  other caller signs with the script's account;
- `ProofsRestoredInFull` has a hypothesis of its own, that the host's minimal TTL is
  at most the threshold (4,095 and 50,000 on the network). Above it a restored entry
  would not be extended at all.

The inductive invariants below were also checked with TLC, as invariants of the
instances of section 4; the one of the config indexer has a quantifier over histories
and was only proved.

### The contracts

| Module | Theorem | States | Argument |
|---|---|---|---|
| `UpgradeGovernanceProofs` | lemmas `UpgradeStepType`, `UpgradeStepSpends` | the upgrade calls keep the upgrade state typed and move the code only by spending an approval | by the three calls; cited by the three contracts |
| `ProtocolConfigProofs` | `ConfigTypeCorrect`, `ConfigFailsClosed` | `[]TypeOK`, `[]FailClosed` | `TypeOK /\ FailClosed` is inductive; `StepKinds` sorts every step into first configuration, counted change, or other |
| | `EveryChangeCounted`, `HandoverIsolated`, `ConfigUpgradesGoverned` | the action properties | from the same invariant: `configVersion > 0` on a live contract is what makes initialize count as a change |
| `IssuerRegistryProofs` | `TypeCorrect`, `IndexCorrect` | `[]TypeOK`, `[]IndexMatchesRecords` | rotation is the hard case: four writes keep index and records a bijection because the new address was free |
| | `ActiveAddressCorrect` | `is_active_address(a)` exactly when an Active record holds `a` | from the index |
| | `RevocationTerminal`, `StampedChanges`, `RejectionsFinal`, `IssuerUpgradesGoverned` | the action properties | from `TypeOK /\ IndexMatchesRecords /\ StampsInPast`; the last conjunct (no record is stamped in the future) is needed for time stamps to grow |
| `ProofRegistryProofs` | `ProofTypeCorrect`, `MiswiredEmpty`, `TimestampsCorrect`, `RevocationOpen` | the invariants | `ProofInv` adds `WiredTogether`: without an administrator there are no dependency addresses, hence no proofs, so initialize cannot rewire a registry that holds proofs |
| | `WiringFinal`, `ProofsImmutable`, `InvalidityFinal`, `HopelessStaysHopeless`, `ProofUpgradesGoverned` | the action properties | `ProofRules`, what a step may do to proofs, wiring and clock |

### The composition and the deployment

All in `EarnProofProofs`. The lemmas are about `AnySpec`, in which every address may
call, contracts and script account included; `Spec` (the accounts call) and
`DeploySpec` (the script calls too) both imply it, so each theorem is proved once and
stated for both.

| Theorem | States | Argument |
|---|---|---|
| `ProofsRefined`; `DeploymentUsesRegistry` | the system, and the system under deployment, implement proof-registry's specification | a step of another contract, of a stranger's included, is a step of proof-registry's environment. What has to be shown is that the answers stay within what that environment may answer: nothing approved or active before anybody is asked, schema version 0 never (a stranger's answer about it is left out: `register_proof` refuses version 0 before it asks); `TypeOK` and `FailClosed` of the config are used |
| `SystemTypeCorrect`, `AdmissionSound`, `DeploymentClosed`; `DeploymentAdmission` | `[]TypeOK`, `AdmissionIsSound`, `[]DeploymentFailsClosed` | the contracts' theorems carried over: `FailClosed` turns an approved schema of the deployed config into a live config, `IndexMatchesRecords` turns the index entry into the issuer's record, `IssuersNeedAdmin` turns an issuer into an initialised registry; `MiswiredStaysEmpty` excludes the wirings where nothing answers |
| `ManifestOperational` | `DeploySpec => []ManifestIsOperational` | `DeployInv` says for each position of the script what it has achieved for good: who owns the config, that it is open and has the schema, that the backend issuer is registered and Active, how the proof registry is wired. Where an answer may be lost, the effect is left open until the position after it. `OwnedContractsRefuse` shows that nobody else can undo a step: every call that could is refused for want of the script's account |

The proof modules are instantiated in `EarnProofProofs` at the system's variables;
the lemmas `ConfigSame`, `IssuersSame` and `ProofsSame` show that these instances
and those of `EarnProof` are the same formulas.

### The clients

| Module | Theorem | States | Argument |
|---|---|---|---|
| `ConfigClientProofs` | `MonitorNeverFooled` | `MonitorSpec => []EqualVersionsEqualConfig` | `MonitorInv` adds that the monitor's version is never ahead of the counter; without it an equal version could be met again |
| | `ScriptUsesContract` | `UpgradeScriptSpec => Spec` | each attempt of the script is a call or nothing |
| | `FailureContained`, `SwapUnderPause` | `[]FailureIsContained`, `SwapsUnderPause` | `UndisturbedProgress`: with nobody else at work the upgrade state is, by position, the one before, with the approval, or upgraded; where an answer may be lost it is one of two |
| | `ManifestTrue` | `ManifestIsTrue` | `OwnApprovalProgress`: as long as nobody touches the approval of the script's hash, either that approval is pending for the job's version or the contract has reached that version, with the job's code for as long as it is at exactly that version; versions only rise, so no later upgrade leads back to it |
| `RegistryUseProofs` | `ClientUsesRegistry` | `ClientSpec => Spec` | each submission, answered or not, is a call or nothing |
| | `DroppedHopeless` | `[]DroppedIsHopeless` | the catalogue is evaluated (`OperatorEntries`: 304 and 305 are the ones to wait for); every other refusal has a cause that stays, listed in `Incurable`, by `ProofRules` |
| | `LostAnswersRecovered` | `[]LostAnswersAreRecovered` | `EffectStays`: what an applied submission stored is there under its own commitment and issuer |

### The lifetime of entries

In `RegistryUseProofs`, for all three contracts and every threshold, target and
minimal TTL:

| Theorem | States | Argument |
|---|---|---|
| `LifetimesGuaranteed` | `[]TouchesKeepAlive` | `LifetimeInv`: TTL and ledgers since the last touch add up to more than the threshold. A touch that finds the TTL above the threshold does nothing and keeps this; one that extends restores it |
| `ProofsRestoredInFull` | `RestoredInFull`, if the minimal TTL is at most the threshold | every call that loads a proof extends it in the same invocation |
| `LifetimesAreTransparent` | the contract with its lifetimes implements its own specification | |

### Events

In `EventIndexersProofs`, for any backlog and any number of crashes and gaps:

| Theorem | States | Argument |
|---|---|---|
| `IndexersOnlyWatch` | the contract with its indexer implements its own specification | |
| `StateRebuilt` | `[]IndexerRebuildsState` | see below |
| `GapsVisible`, `AlarmsTrue` | `[]GapsAreVisible`, `[]NoFalseAlarms` | `History`: the settings after each pending event, up to the contract's own. The view counts no more events than there were up to its position; where it counted all of them it has the settings of that position. Once one is missed it stays behind for ever, since every later event raises both numbers. `FailClosed` is used for initialize, whose event names the administrator only |

The replay is the difficult part of `StateRebuilt`: after a crash the view is newer
than the events it is given, and during the replay it is the contract's state of no
moment at all (a route given up and taken again may be back at its first holder while
the record is at its last). The state is therefore looked at location by location,
the fields of the records, the routes, the approvals and the code. `FollowWrites`
says which locations an event writes and with what, whatever the view was before;
`CallsMirrored` that a call changes the contract as following its event changes a
view. The invariant then has three parts. `LastWord`: the last pending event to write
a location carries what the contract holds there. `Repairable`: the view is right
wherever no event to come writes. `Introduced`: the registration of an issuer comes
before its other events, so that no event finds its record missing. With nothing to
come, `Repairable` is exactness.

### What is not proved

The bounds of the models (`MaxTime`, `MaxU32`, `MaxSchema`, `MaxContractVersion`,
`MaxRetries`, `MaxBacklog`) are arbitrary numbers in the proofs, so the theorems hold
for the code's widths. Those of `EarnProof` are about the composition without upgrade
calls; the contracts' own theorems include them.

Only model-checked are the liveness properties `EveryProofEnds`, `QueueDrains` and
`ScriptEnds`, which need fairness and are out of this prover's reach. The properties
of section 7 are false. Every other property of the runs is a theorem.

## 6. Not modelled

- **The bodies of hashes and addresses**: validity of an address is membership in
  `InvalidPrincipals`; the XDR and strkey parsing behind it is not modelled.
- **Code installed by an upgrade**: after `upgrade_contract` the model goes on with
  the present code. What a later version does is not known.
- **Causes, messages and HTTP statuses** of the error catalogue, value types and
  owners of the inventory: text that no code acts on.
- **An indexer for proofs**: proof-registry publishes nothing about them.
- **The other scripts** (smoke test, manifest verification, reference and binding
  generation, measurements): they read files or drive a test network.
- **The TypeScript bindings**: generated wrappers without state of their own.
- **Tests and fuzz targets**. The fuzz targets call no contract; they decode
  bytes into records.

## 7. Where the documentation and the code differ

- `issuer_retry`: the error catalogue classes 202
  `IssuerAddressAlreadyRegistered` as *never* retryable; a rotation frees the
  address and the identical call succeeds. All other *never* codes of the issuer
  registry are final (`FinalRejectionsAreFinal`, also proved).
- `provenance_resolve`: docs/contract-upgrades.md says that proofs continue to
  resolve after an address rotation; the code removes the address from the index
  that resolves them.
- `provenance_revoke`: docs/threat-model.md says that an issuer cannot revoke the
  proofs of others; an issuer that was registered at an address another one left
  can revoke the proofs signed there.
- `inventory`: `storage_namespaces.rs` calls itself one entry per `DataKey` variant;
  `AllowedWasm`, which approve_upgrade stores in all three contracts, has none. The
  tests that compare the table with the storage never approve an upgrade.
- `index_upkeep`: docs/storage-ttl.md (lines 70 and 162) has operators keep issuer
  records and their index entries live through `is_active_address`, since it extends
  both. It extends the record only: polled after every ledger, the index entry is
  archived at the end of its first life.

Other passages of the documentation that the code does not bear out have no run of
their own. The property that comes closest states what does hold, with the
exception written into it or the weaker bound in its place:

- `DeploymentFailsClosed` and `MiswiredStaysEmpty` leave out wirings to contracts
  that answer. docs/deployment.md:225 says that with an incorrect address "proof
  operations will fail"; with a look-alike they succeed, which docs/threat-model.md
  (lines 102, 155 and 196) lists as a risk that the check of the manifest has to
  catch. `ManifestIsOperational` shows that the deployment script's own manifest
  never names such a registry.
- `TouchesKeepAlive` promises the threshold (50,000 ledgers) and one ledger after a
  touch. docs/storage-ttl.md:153 asks to touch an entry at least once per 450,000
  ledgers to keep it live; a touch just before the threshold does nothing, and the
  next one at that cadence comes too late.
- `QueueDrains` leaves out schema version 0: 304 is published as settled by an
  operator's action, and for version 0 it never is.
- `DroppedIsHopeless` leaves out 301 from a registry that has not been initialised:
  it is published as the caller's mistake, and the identical request succeeds
  later.
- The catalogue claims an entry for every variant; 61, 207 and 306, the address
  errors, have none, so `retry_for` classes them *never*, as every unknown code.
- docs/events.md:61 says that proof-registry emits no events; its upgrade calls
  emit three.
- `FailureIsContained` admits a failed script with the upgrade in place and the
  protocol paused: when the answer of the apply step is lost, the retry finds the
  approval spent and the script throws before its unpause step, which `-PauseProtocol`
  announces.
- `ManifestIsTrue` leaves out that somebody changes the approval of the script's own
  hash while it runs: the script compares version numbers only.

## 8. State of the plan

Built: the three contracts with their lifetimes, events and upgrade governance, the
composition, the shared tables, a client and the two scripts that change contract
state; proofs of all safety properties that the runs check. Still worth doing:

1. The positive side of section 7, as theorems: under which conditions on rotations
   a proof keeps resolving to its issuer and can be revoked by it alone.
2. The composition with upgrade calls, as a refinement of the one without.
