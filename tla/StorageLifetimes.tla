--------------------------- MODULE StorageLifetimes ---------------------------
(***************************************************************************)
(* The storage of one contract, any of the three: which keys it holds, in  *)
(* which storage class, and how long its entries live.  No call of one     *)
(* contract writes to another, and the reads that register_proof makes of  *)
(* the other two are reads of theirs like anybody's, so the contracts need *)
(* not be looked at together.  admin, upgrade and now are those of the     *)
(* contract at hand.                                                       *)
(***************************************************************************)
EXTENDS ProofTtl, StorageNamespaces

CONSTANTS
  IssuerId, Metadata, NoIssuer, NoRecord, MaxU32,
  StampTime    \* bound: the last time stamp of issuer records

VARIABLES
  contract, issuers, addressIssuer, schema, configVersion

storageVars ==
  <<TtlVars, contract, issuers, addressIssuer, schema, configVersion>>

Issuers == INSTANCE IssuerTtl WITH MaxTime <- StampTime
Config  == INSTANCE ConfigTtl

(* What the modules of those two contracts assume of their constants.      *)
ASSUME LifetimesAssumption ==
  /\ NoIssuer \notin IssuerId
  /\ NoRecord \notin Issuers!IssuerRecord
  /\ StampTime \in Nat
  /\ MaxU32 \in Nat \ {0}

StorageInit ==
  /\ contract \in CONTRACTS
  /\ Init /\ Issuers!Init /\ Config!Init
  /\ \/ contract = "proof-registry"  /\ Initial
     \/ contract = "issuer-registry" /\ Issuers!Initial
     \/ contract = "protocol-config" /\ Config!Initial

StorageNext ==
  /\ \/ /\ contract = "proof-registry"
        /\ TtlNext
        /\ UNCHANGED <<issuers, addressIssuer, schema, configVersion>>
     \/ /\ contract = "issuer-registry"
        /\ Issuers!TtlNext
        /\ UNCHANGED <<issuerRegistry, protocolConfig, proofs, environment,
                       schema, configVersion>>
     \/ /\ contract = "protocol-config"
        /\ Config!TtlNext
        /\ UNCHANGED <<issuerRegistry, protocolConfig, proofs, now, approved,
                       active, issuers, addressIssuer>>
  /\ UNCHANGED contract

StorageSpec == StorageInit /\ [][StorageNext]_storageVars

(* The names of the keys that hold a value, by where the code puts them.   *)
Key(name, present) == IF present THEN {name} ELSE {}

CommonKeys ==
  Key("Admin", admin # NoAddress) \union
  Key("ContractVersion", upgrade.version # 0) \union
  Key("AllowedWasm", \E h \in WasmHash : upgrade.allowed[h] # 0)

ConfigKeys ==
  [Instance   |-> CommonKeys \union Key("Paused", admin # NoAddress)
                             \union Key("ConfigVersion", configVersion # 0),
   Persistent |-> Key("SchemaVersion", \E v \in SchemaVersions :
                                          schema[v] # "absent")]

IssuerKeys ==
  [Instance   |-> CommonKeys,
   Persistent |-> Key("Issuer", \E i \in IssuerId : Issuers!Registered(i))
                    \union Key("AddressIssuer",
                               \E a \in Address : Issuers!AddressTaken(a))]

ProofKeys ==
  [Instance   |-> CommonKeys
                    \union Key("IssuerRegistry", issuerRegistry # NoAddress)
                    \union Key("ProtocolConfig", protocolConfig # NoAddress),
   Persistent |-> Key("Proof", \E p \in ProofId : Registered(p))]

Stored ==
  CASE contract = "protocol-config" -> ConfigKeys
    [] contract = "issuer-registry" -> IssuerKeys
    [] contract = "proof-registry"  -> ProofKeys

(* The inventory of storage_namespaces.rs is complete, in the words of its *)
(* head: "one entry per `DataKey` variant".  Every key a contract holds    *)
(* has a row, under the class the contract keeps it in.  approve_upgrade   *)
(* writes AllowedWasm into the instance of any of the three contracts.     *)
InventoryIsComplete ==
  /\ Stored.Instance \subseteq namespaces_for(contract, "Instance")
  /\ Stored.Persistent \subseteq namespaces_for(contract, "Persistent")
===============================================================================
