------------------------------ MODULE IssuerTtl ------------------------------
(***************************************************************************)
(* issuer-registry with the lifetime of its entries: the calls of          *)
(* IssuerRegistry together with what each does to the TTL of the instance, *)
(* of an issuer record and of a reverse-index entry, and the read-only     *)
(* calls, which change nothing else.                                       *)
(***************************************************************************)
EXTENDS IssuerRegistry, StorageTtl

Instance         == <<"Instance">>
Issuer(i)        == <<"Issuer", i>>
AddressIssuer(a) == <<"AddressIssuer", a>>

TtlVars == <<registryVars, entryVars>>

Initial ==
  /\ Init
  /\ \/ DeployedInit(Instance)
     \/ \E i \in IssuerId : TtlInit(Issuer(i))
     \/ \E a \in Address : TtlInit(AddressIssuer(a))

(* Every invocation loads the instance, to find the code and the admin.    *)
initialize_ttl(caller, a) ==
  initialize(caller, a) /\ Touch({}, {Instance}, {})

register_issuer_ttl(caller, i, a, m) ==
  /\ register_issuer(caller, i, a, m)
  /\ Touch({Instance}, {Issuer(i), AddressIssuer(a)}, {})

update_issuer_ttl(caller, i, m) ==
  update_issuer(caller, i, m) /\ Touch({Instance}, {Issuer(i)}, {})

set_status_ttl(caller, i, status) ==
  set_status(caller, i, status) /\ Touch({Instance}, {Issuer(i)}, {})

rotate_issuer_address_ttl(caller, i, a) ==
  /\ rotate_issuer_address(caller, i, a)
  /\ Touch({Instance}, {Issuer(i), AddressIssuer(a)},
           {AddressIssuer(issuers[i].issuer_address)})

approve_upgrade_ttl(caller, h, v) ==
  approve_upgrade(caller, h, v) /\ Touch({}, {Instance}, {})

revoke_upgrade_ttl(caller, h) ==
  revoke_upgrade(caller, h) /\ Touch({Instance}, {}, {})

upgrade_contract_ttl(caller, h) ==
  upgrade_contract(caller, h) /\ Touch({}, {Instance}, {})

Write(caller) ==
  \/ \E a \in Address : initialize_ttl(caller, a)
  \/ \E i \in IssuerId, a \in Address, m \in Metadata :
       register_issuer_ttl(caller, i, a, m)
  \/ \E i \in IssuerId, m \in Metadata : update_issuer_ttl(caller, i, m)
  \/ \E i \in IssuerId, s \in IssuerStatus : set_status_ttl(caller, i, s)
  \/ \E i \in IssuerId, a \in Address : rotate_issuer_address_ttl(caller, i, a)
  \/ \E h \in WasmHash, v \in ContractVersions : approve_upgrade_ttl(caller, h, v)
  \/ \E h \in WasmHash : revoke_upgrade_ttl(caller, h) \/ upgrade_contract_ttl(caller, h)

(* The reads.  get_admin, get_contract_version and is_upgrade_allowed load *)
(* the instance only; so do the others when they find no entry.            *)
ReadInstance == Touch({Instance}, {}, {}) /\ UNCHANGED registryVars

(* get_issuer and is_active_issuer *)
ReadIssuer(i) ==
  /\ Registered(i)
  /\ Touch({Instance}, {Issuer(i)}, {})
  /\ UNCHANGED registryVars

(* is_active_address: the index entry is loaded, the record extended. *)
ReadActiveAddress(a) ==
  /\ AddressTaken(a)
  /\ Touch({Instance, AddressIssuer(a)}, {Issuer(addressIssuer[a])}, {})
  /\ UNCHANGED registryVars

(* get_issuer_by_address: the record is loaded, the index entry extended. *)
ReadIssuerByAddress(a) ==
  /\ GetIssuerByAddressResult(a) = Ok
  /\ Touch({Instance, Issuer(addressIssuer[a])}, {AddressIssuer(a)}, {})
  /\ UNCHANGED registryVars

Read ==
  \/ ReadInstance
  \/ \E i \in IssuerId : ReadIssuer(i)
  \/ \E a \in Address : ReadActiveAddress(a) \/ ReadIssuerByAddress(a)

(* A ledger closes; MaxTime bounds the time stamps, not the ledgers.       *)
LedgerCloses ==
  /\ LedgerPasses
  /\ now' = IF now < MaxTime THEN now + 1 ELSE now
  /\ UNCHANGED <<admin, issuers, addressIssuer, upgrade>>

TtlNext == (\E caller \in Address : Write(caller)) \/ Read \/ LedgerCloses
==============================================================================
