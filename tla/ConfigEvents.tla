---------------------------- MODULE ConfigEvents ----------------------------
(***************************************************************************)
(* protocol-config and the events it publishes, read by an indexer that    *)
(* may miss some and that checks itself against get_config_version: every  *)
(* call that counts up the config version publishes one of the six         *)
(* configuration events.                                                   *)
(***************************************************************************)
EXTENDS ProtocolConfig, UpgradeEvents

VARIABLE missed   \* history: the indexer has missed a configuration event

eventVars == <<configVars, streamVars, missed>>

(* Fault: the event names the administrator who leaves. *)
FormerAdmin(a)      == [topic |-> "AdminChanged", admin |-> admin]

Initialized(a)      == [topic |-> "Initialized", admin |-> a]
AdminChanged(a)     == [topic |-> "AdminChanged", admin |-> a]
Paused              == [topic |-> "Paused", paused |-> TRUE]
Unpaused            == [topic |-> "Unpaused", paused |-> FALSE]
SchemaApproved(v)   == [topic |-> "SchemaApproved", version |-> v]
SchemaDeprecated(v) == [topic |-> "SchemaDeprecated", version |-> v]

(* Fault: the handover is not announced. *)
SilentHandover(caller, a) == set_admin(caller, a) /\ Silent

set_admin_event(caller, a) ==
  set_admin(caller, a) /\ Publish(AdminChanged(a))

Call(caller) ==
  \/ \E a \in Address :
       \/ initialize(caller, a) /\ Publish(Initialized(a))
       \/ set_admin_event(caller, a)
  \/ pause(caller) /\ Publish(Paused)
  \/ unpause(caller) /\ Publish(Unpaused)
  \/ \E v \in SchemaVersions :
       \/ approve_schema_version(caller, v) /\ Publish(SchemaApproved(v))
       \/ deprecate_schema_version(caller, v) /\ Publish(SchemaDeprecated(v))
  \/ \E h \in WasmHash, v \in ContractVersions :
       approve_upgrade(caller, h, v) /\ Publish(UpgradeAllowlisted(h, v))
  \/ \E h \in WasmHash :
       \/ revoke_upgrade(caller, h) /\ Publish(UpgradeRevoked(h))
       \/ upgrade_contract(caller, h) /\ Publish(ContractUpgraded(h))

EmptyView ==
  [admin |-> NoAddress, paused |-> FALSE,
   approved |-> {}, received |-> 0, upgrade |-> NoUpgrades]

FollowConfig(w, e) ==
  LET v == [w EXCEPT !.received = @ + 1] IN
  CASE e.topic \in {"Initialized", "AdminChanged"} -> [v EXCEPT !.admin = e.admin]
    [] e.topic \in {"Paused", "Unpaused"} -> [v EXCEPT !.paused = e.paused]
    [] e.topic = "SchemaApproved" ->
         [v EXCEPT !.approved = @ \union {e.version}]
    [] e.topic = "SchemaDeprecated" ->
         [v EXCEPT !.approved = @ \ {e.version}]

Follow(v, e) ==
  IF e.topic \in UpgradeTopics
  THEN [v EXCEPT !.upgrade = FollowUpgrade(v.upgrade, e)]
  ELSE FollowConfig(v, e)

EventsNext ==
  \/ (\E caller \in Address : Call(caller)) /\ UNCHANGED missed
  \/ /\ Behind
     /\ Deliver(Follow(view, NextEvent))
     /\ UNCHANGED <<configVars, missed>>
  \/ /\ Miss
     /\ missed' = (missed \/ NextEvent.topic \notin UpgradeTopics)
     /\ UNCHANGED configVars
  \/ SavePosition /\ UNCHANGED <<configVars, missed>>

ViewIsExact ==
  CaughtUp =>
    /\ view.admin = admin
    /\ view.paused = is_paused
    /\ \A v \in SchemaVersions :
         v \in view.approved <=> is_schema_version_approved(v)
=============================================================================
