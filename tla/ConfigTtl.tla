------------------------------- MODULE ConfigTtl -------------------------------
(***************************************************************************)
(* protocol-config with the lifetime of its entries: the calls of          *)
(* ProtocolConfig together with what each does to the TTL of the instance  *)
(* and of a schema flag, and the read-only calls.                          *)
(***************************************************************************)
EXTENDS ProtocolConfig, StorageTtl

Instance         == <<"Instance">>
SchemaVersion(v) == <<"SchemaVersion", v>>

TtlVars == <<configVars, entryVars>>

Initial ==
  /\ Init
  /\ DeployedInit(Instance) \/ \E v \in SchemaVersions : TtlInit(SchemaVersion(v))

(* Every one of these ends in bump_config_version, which extends the       *)
(* instance; initialize extends it by itself.                              *)
instance_ttl(caller) ==
  /\ \/ \E a \in Address : initialize(caller, a) \/ set_admin(caller, a)
     \/ pause(caller) \/ unpause(caller)
  /\ Touch({}, {Instance}, {})

schema_ttl(caller, v) ==
  /\ approve_schema_version(caller, v) \/ deprecate_schema_version(caller, v)
  /\ Touch({}, {Instance, SchemaVersion(v)}, {})

upgrade_ttl(caller, h) ==
  /\ \/ \E v \in ContractVersions : approve_upgrade(caller, h, v)
     \/ upgrade_contract(caller, h)
  /\ Touch({}, {Instance}, {})

revoke_upgrade_ttl(caller, h) ==
  revoke_upgrade(caller, h) /\ Touch({Instance}, {}, {})

Write(caller) ==
  \/ instance_ttl(caller)
  \/ \E v \in SchemaVersions : schema_ttl(caller, v)
  \/ \E h \in WasmHash : upgrade_ttl(caller, h) \/ revoke_upgrade_ttl(caller, h)

(* get_admin, is_paused, get_config_version, the reads of the upgrade      *)
(* state, and is_schema_version_approved of version 0.                     *)
ReadInstance == Touch({Instance}, {}, {}) /\ UNCHANGED configVars

(* is_schema_version_approved: a flag that is there is extended, whether   *)
(* it says approved or deprecated.                                         *)
ReadSchema(v) ==
  /\ v # 0
  /\ Touch({Instance}, IF schema[v] = "absent" THEN {} ELSE {SchemaVersion(v)}, {})
  /\ UNCHANGED configVars

LedgerCloses == LedgerPasses /\ UNCHANGED configVars

TtlNext ==
  \/ \E caller \in Address : Write(caller)
  \/ ReadInstance
  \/ \E v \in SchemaVersions : ReadSchema(v)
  \/ LedgerCloses
================================================================================
