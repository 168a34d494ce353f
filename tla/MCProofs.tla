------------------------------ MODULE MCProofs ------------------------------
(* One issuer address, the three contracts, a stranger's contract that has *)
(* the interface of both dependencies, and the zero address.               *)
EXTENDS ProofRegistry, TLC

Symmetry == Permutations(ProofId)

(* Bound: the contracts themselves do not become the administrator.        *)
AdminBound == admin \notin {ProofContract, IssuerContract, ConfigContract}
=============================================================================
