---------------------------- MODULE IssuerEvents ----------------------------
(***************************************************************************)
(* issuer-registry and the events it publishes, read by an indexer that    *)
(* may crash and replay.  initialize is silent.                            *)
(***************************************************************************)
EXTENDS IssuerRegistry, UpgradeEvents

eventVars == <<registryVars, streamVars>>

IssuerRegistered(i, a, m) ==
  [topic |-> "IssuerRegistered", issuer_id_hash |-> i, issuer_address |-> a,
   metadata_hash |-> m, created_at |-> now]

IssuerMetadataUpdated(i, m) ==
  [topic |-> "IssuerMetadataUpdated", issuer_id_hash |-> i,
   metadata_hash |-> m, updated_at |-> now]

StatusEvent(i, status) ==
  [topic |-> CASE status = "Active"    -> "IssuerReactivated"
               [] status = "Suspended" -> "IssuerSuspended"
               [] status = "Revoked"   -> "IssuerRevoked",
   issuer_id_hash |-> i, updated_at |-> now]

(* Fault: the old address is read after it has been overwritten. *)
RotatedFromNew(i, a) ==
  [topic |-> "IssuerAddressRotated", issuer_id_hash |-> i,
   old_address |-> a, new_address |-> a, updated_at |-> now]

IssuerAddressRotated(i, a) ==
  [topic |-> "IssuerAddressRotated", issuer_id_hash |-> i,
   old_address |-> issuers[i].issuer_address, new_address |-> a,
   updated_at |-> now]

PublishingCall(caller) ==
  \/ \E i \in IssuerId, a \in Address, m \in Metadata :
       register_issuer(caller, i, a, m) /\ Publish(IssuerRegistered(i, a, m))
  \/ \E i \in IssuerId, m \in Metadata :
       update_issuer(caller, i, m) /\ Publish(IssuerMetadataUpdated(i, m))
  \/ \E i \in IssuerId, s \in IssuerStatus :
       set_status(caller, i, s) /\ Publish(StatusEvent(i, s))
  \/ \E i \in IssuerId, a \in Address :
       rotate_issuer_address(caller, i, a) /\ Publish(IssuerAddressRotated(i, a))
  \/ \E h \in WasmHash, v \in ContractVersions :
       approve_upgrade(caller, h, v) /\ Publish(UpgradeAllowlisted(h, v))
  \/ \E h \in WasmHash :
       \/ revoke_upgrade(caller, h) /\ Publish(UpgradeRevoked(h))
       \/ upgrade_contract(caller, h) /\ Publish(ContractUpgraded(h))

SilentCall(caller) == \E a \in Address : initialize(caller, a) /\ Silent

(* The indexer: records by identifier and the route from address to        *)
(* issuer, which needs both addresses of a rotation.                       *)
EmptyView ==
  [records |-> [i \in IssuerId |-> NoRecord],
   route   |-> [a \in Address |-> NoIssuer],
   upgrade |-> NoUpgrades]

FollowIssuer(v, e) ==
  LET i == e.issuer_id_hash IN
  CASE e.topic = "IssuerRegistered" ->
         [v EXCEPT !.records[i] =
                     [issuer_address |-> e.issuer_address,
                      metadata_hash |-> e.metadata_hash, status |-> "Active",
                      created_at |-> e.created_at, updated_at |-> e.created_at],
                   !.route[e.issuer_address] = i]
    [] e.topic = "IssuerMetadataUpdated" ->
         [v EXCEPT !.records[i].metadata_hash = e.metadata_hash,
                   !.records[i].updated_at = e.updated_at]
    [] e.topic = "IssuerReactivated" ->
         [v EXCEPT !.records[i].status = "Active",
                   !.records[i].updated_at = e.updated_at]
    [] e.topic = "IssuerSuspended" ->
         [v EXCEPT !.records[i].status = "Suspended",
                   !.records[i].updated_at = e.updated_at]
    [] e.topic = "IssuerRevoked" ->
         [v EXCEPT !.records[i].status = "Revoked",
                   !.records[i].updated_at = e.updated_at]
    [] e.topic = "IssuerAddressRotated" ->
         [v EXCEPT !.records[i].issuer_address = e.new_address,
                   !.records[i].updated_at = e.updated_at,
                   !.route[e.old_address] = NoIssuer,
                   !.route[e.new_address] = i]

Follow(v, e) ==
  IF e.topic \in UpgradeTopics
  THEN [v EXCEPT !.upgrade = FollowUpgrade(v.upgrade, e)]
  ELSE FollowIssuer(v, e)

EventsNext ==
  \/ \E caller \in Address : PublishingCall(caller) \/ SilentCall(caller)
  \/ Tick /\ Silent
  \/ /\ Behind
     /\ Deliver(Follow(view, NextEvent))
     /\ UNCHANGED registryVars
  \/ (SavePosition \/ Restart) /\ UNCHANGED registryVars

ViewIsExact ==
  CaughtUp => /\ view.records = issuers
              /\ view.route = addressIssuer
              /\ KnowsUpgrades(view.upgrade)
=============================================================================
