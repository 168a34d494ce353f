---------------------------- MODULE MCDeployment ----------------------------
(* A bystander, which is also the backend issuer's address, the script's   *)
(* own account, and a stranger's contract that has the interface of both   *)
(* dependencies, next to the three contracts.                              *)
EXTENDS DeployScript

(* The configuration and the issuers stay with addresses that can sign.    *)
AddressBound ==
  /\ cfgAdmin \in Account \union {Source, NoAddress}
  /\ \A i \in IssuerId : Issuers!Registered(i) =>
       issuers[i].issuer_address \in Account \union {Source}

Miswired ==
  /\ prAdmin # NoAddress
  /\ issuerRegistry # IssuerContract \/ protocolConfig # ConfigContract

(* Where the registry asks a stranger's contract, the deployed             *)
(* configuration is only of interest up to its first approved schema.      *)
StrangerBound == Miswired => cfgVersion <= 2

(* Another issuer is only of interest next to the backend's, where the     *)
(* deployed issuer registry is asked, and once its configuration lets      *)
(* proofs in.                                                              *)
SecondIssuerBound ==
  (\E i \in IssuerId \ {BackendIssuer} : Issuers!Registered(i)) =>
    Issuers!Registered(BackendIssuer) /\ cfgVersion <= 2 /\ ~ Miswired
=============================================================================
