-------------------------- MODULE StorageNamespaces --------------------------
(***************************************************************************)
(* packages/shared/src/storage_namespaces.rs: the reviewed inventory of    *)
(* the contracts' storage keys, one row per DataKey variant.  The Rust     *)
(* type and the owner of a row are prose and left out.                     *)
(***************************************************************************)
EXTENDS Naturals

StorageClass == {"Instance", "Persistent", "Temporary"}

Row(name, arity, class) == [namespace |-> name, arity |-> arity, class |-> class]

IssuerRows ==
  {Row("AddressIssuer", 1, "Persistent"), Row("Admin", 0, "Instance"),
   Row("ContractVersion", 0, "Instance"), Row("Issuer", 1, "Persistent")}

ProofRows ==
  {Row("Admin", 0, "Instance"), Row("ContractVersion", 0, "Instance"),
   Row("IssuerRegistry", 0, "Instance"), Row("Proof", 1, "Persistent"),
   Row("ProtocolConfig", 0, "Instance")}

ConfigRows ==
  {Row("Admin", 0, "Instance"), Row("ConfigVersion", 0, "Instance"),
   Row("ContractVersion", 0, "Instance"), Row("Paused", 0, "Instance"),
   Row("SchemaVersion", 1, "Persistent")}

CONTRACTS == {"issuer-registry", "proof-registry", "protocol-config"}

STORAGE_NAMESPACES ==
  [c \in CONTRACTS |->
     CASE c = "issuer-registry" -> IssuerRows
       [] c = "proof-registry"  -> ProofRows
       [] c = "protocol-config" -> ConfigRows]

namespaces_for(contract, class) ==
  {r.namespace : r \in {x \in STORAGE_NAMESPACES[contract] : x.class = class}}

(* The rows found under a name: none, or the one row there is.             *)
namespace(contract, name) ==
  {r \in STORAGE_NAMESPACES[contract] : r.namespace = name}
==============================================================================
