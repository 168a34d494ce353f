----------------------------- MODULE Provenance -----------------------------
(***************************************************************************)
(* Which issuer stands behind a proof.  A proof records the address that   *)
(* signed it, not the issuer; issuedBy is a history variable with the      *)
(* issuer that held the address when the proof was admitted.               *)
(***************************************************************************)
EXTENDS EarnProof

VARIABLE issuedBy

provenanceVars == <<vars, issuedBy>>

ProvenanceInit == Init /\ issuedBy = [p \in ProofId |-> NoIssuer]

ProvenanceNext ==
  /\ Next
  /\ issuedBy' = [p \in ProofId |->
       IF Admitted(p) THEN addressIssuer[proofs'[p].issuer_address]
                      ELSE issuedBy[p]]

ProvenanceSpec == ProvenanceInit /\ [][ProvenanceNext]_provenanceVars

(* docs/contract-upgrades.md of address rotation: every proof that         *)
(* references the issuer by issuer_address "continues to resolve           *)
(* correctly", through is_active_address and get_issuer_by_address.        *)
ProofsResolveToTheirIssuer ==
  \A p \in ProofId : Proofs!Registered(p) =>
    LET a == proofs[p].issuer_address IN
      /\ Issuers!GetIssuerByAddressResult(a) = Ok
      /\ Issuers!get_issuer_by_address(a) = issuers[issuedBy[p]]

(* docs/threat-model.md of an active issuer: it "Cannot revoke proofs      *)
(* registered by other issuers".                                           *)
IssuersRevokeOnlyTheirOwn ==
  \A p \in ProofId, i \in IssuerId :
    /\ Issuers!is_active_issuer(i)
    /\ Proofs!RevokeProofResult(issuers[i].issuer_address, p) = Ok
    => i = issuedBy[p]
=============================================================================
