------------------------------ MODULE MCIssuers ------------------------------
(* Two issuers and three addresses that they can compete for, one of which *)
(* also administers the registry.                                          *)
EXTENDS IssuerRegistry, TLC

Symmetry == Permutations(IssuerId) \union Permutations(Metadata)
==============================================================================
