---------------------------- MODULE EventIndexers ----------------------------
(***************************************************************************)
(* One contract with its events and its indexer: issuer-registry or        *)
(* protocol-config.  The streams of two contracts do not meet, so one at a *)
(* time is enough.  proof-registry publishes nothing but the upgrade       *)
(* events, which are the same in all three contracts.  admin, upgrade and  *)
(* the stream are those of the contract at hand.                           *)
(***************************************************************************)
EXTENDS IssuerEvents, TLC

CONSTANTS MaxU32, MaxSchema

(* What protocol-config's own module assumes of these two.                 *)
ASSUME IndexerAssumption == MaxU32 \in Nat \ {0} /\ MaxSchema \in Nat

VARIABLES contract, paused, schema, configVersion, missed

indexerVars == <<eventVars, contract, paused, schema, configVersion, missed>>

Config == INSTANCE ConfigEvents

IndexerInit ==
  /\ Init /\ Config!Init
  /\ missed = FALSE
  /\ \/ contract = "issuer-registry" /\ StreamInit(EmptyView)
     \/ contract = "protocol-config" /\ StreamInit(Config!EmptyView)

IndexerNext ==
  /\ \/ /\ contract = "issuer-registry"
        /\ EventsNext
        /\ UNCHANGED <<paused, schema, configVersion, missed>>
     \/ /\ contract = "protocol-config"
        /\ Config!EventsNext
        /\ UNCHANGED <<issuers, addressIssuer, now>>
  /\ UNCHANGED contract

IndexerSpec == IndexerInit /\ [][IndexerNext]_indexerVars

(* Addresses and issuers are interchangeable.                              *)
Symmetry == Permutations(Address) \union Permutations(IssuerId)

(* Events suffice: an indexer that is up with issuer-registry has every    *)
(* record, time stamps included, the route of every address and the        *)
(* upgrade allowlist exactly as the contract has them, however             *)
(* registrations and rotations handed addresses from issuer to issuer and  *)
(* however often it crashed and applied a stretch of events a second time  *)
(* to a newer view.                                                        *)
IndexerRebuildsState == contract = "issuer-registry" => ViewIsExact

(* The config version exposes lost events: when the indexer is up with     *)
(* protocol-config and has received as many configuration events as the    *)
(* version counts, its picture of administrator, pause and schemas is      *)
(* exact, at the limit of the counter as well.                             *)
GapsAreVisible ==
  contract = "protocol-config" /\ view.received = configVersion
    => Config!ViewIsExact

(* And it raises no false alarm: with no configuration event missed the    *)
(* two numbers are equal once the indexer is up with the contract.         *)
NoFalseAlarms ==
  contract = "protocol-config" /\ CaughtUp /\ ~ missed
    => view.received = configVersion
==============================================================================
