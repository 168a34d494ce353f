---------------------------- MODULE ErrorCatalog ----------------------------
(***************************************************************************)
(* packages/shared: the error enums and ERROR_CATALOG, the table that      *)
(* tells a client what it may do about a code.  Of an entry the code, the  *)
(* range it belongs to, whether the release returns it and the retry class *)
(* are kept; causes, remediations and messages are text.                   *)
(***************************************************************************)
EXTENDS Naturals, Sequences

(* The variants with their numbers.  The two registries call their address *)
(* error InvalidAddress as well; here it carries the registry's name.      *)
ContractError ==
  [AlreadyInitialized |-> 1, NotInitialized |-> 2, Unauthorized |-> 20,
   AlreadyExists |-> 40, NotFound |-> 41, InvalidState |-> 42,
   InvalidInput |-> 60, InvalidAddress |-> 61, ProtocolPaused |-> 80]

IssuerError ==
  [IssuerAlreadyRegistered |-> 200, IssuerNotFound |-> 201,
   IssuerAddressAlreadyRegistered |-> 202, IssuerAddressNotFound |-> 203,
   IssuerRevoked |-> 204, IssuerInactive |-> 205, InvalidTransition |-> 206,
   InvalidIssuerAddress |-> 207]

ProofError ==
  [ProofAlreadyRegistered |-> 300, ProofNotFound |-> 301,
   ProofAlreadyRevoked |-> 302, ProofExpired |-> 303,
   InvalidSchemaVersion |-> 304, SchemaVersionNotApproved |-> 305,
   InvalidProofAddress |-> 306]

ErrorCode ==
  [n \in DOMAIN ContractError \union DOMAIN IssuerError
          \union DOMAIN ProofError |->
     IF n \in DOMAIN ContractError THEN ContractError[n]
     ELSE IF n \in DOMAIN IssuerError THEN IssuerError[n]
     ELSE ProofError[n]]

Status == {"Returned", "Reserved"}
Retry  == {"Never", "AfterOperatorAction", "AfterCallerChange"}
Domain == [Common |-> 1 .. 99, ProtocolConfig |-> 100 .. 199,
           IssuerRegistry |-> 200 .. 299, ProofRegistry |-> 300 .. 399]

ErrorSpec ==
  [code : Nat, domain : DOMAIN Domain, status : Status, retry : Retry]

Entry(c, d, s, r) == [code |-> c, domain |-> d, status |-> s, retry |-> r]

CommonEntry(c, s, r) == Entry(c, "Common", s, r)
IssuerEntry(c, s, r) == Entry(c, "IssuerRegistry", s, r)
ProofEntry(c, s, r)  == Entry(c, "ProofRegistry", s, r)

CommonEntries ==
  << CommonEntry( 1, "Returned", "Never"),
     CommonEntry( 2, "Returned", "AfterOperatorAction"),
     CommonEntry(20, "Reserved", "Never"),
     CommonEntry(40, "Reserved", "Never"),
     CommonEntry(41, "Reserved", "AfterCallerChange"),
     CommonEntry(42, "Reserved", "Never"),
     CommonEntry(60, "Returned", "AfterCallerChange"),
     CommonEntry(80, "Reserved", "AfterOperatorAction") >>

IssuerEntries ==
  << IssuerEntry(200, "Returned", "Never"),
     IssuerEntry(201, "Returned", "AfterCallerChange"),
     IssuerEntry(202, "Returned", "Never"),
     IssuerEntry(203, "Returned", "AfterCallerChange"),
     IssuerEntry(204, "Returned", "Never"),
     IssuerEntry(205, "Reserved", "AfterOperatorAction"),
     IssuerEntry(206, "Returned", "Never") >>

(* Fault: an operator code is filed under the caller's mistakes. *)
ProofEntriesBlamingCaller ==
  << ProofEntry(300, "Returned", "Never"),
     ProofEntry(301, "Returned", "AfterCallerChange"),
     ProofEntry(302, "Returned", "Never"),
     ProofEntry(303, "Returned", "AfterCallerChange"),
     ProofEntry(304, "Returned", "AfterCallerChange"),
     ProofEntry(305, "Returned", "AfterOperatorAction") >>

ProofEntries ==
  << ProofEntry(300, "Returned", "Never"),
     ProofEntry(301, "Returned", "AfterCallerChange"),
     ProofEntry(302, "Returned", "Never"),
     ProofEntry(303, "Returned", "AfterCallerChange"),
     ProofEntry(304, "Returned", "AfterOperatorAction"),
     ProofEntry(305, "Returned", "AfterOperatorAction") >>

ERROR_CATALOG == CommonEntries \o IssuerEntries \o ProofEntries

(* spec: the entry of a code, if it has one *)
Published(c) == \E i \in DOMAIN ERROR_CATALOG : ERROR_CATALOG[i].code = c
spec(c) ==
  ERROR_CATALOG[CHOOSE i \in DOMAIN ERROR_CATALOG : ERROR_CATALOG[i].code = c]

domain_for(c) ==
  IF \E d \in DOMAIN Domain : c \in Domain[d]
  THEN CHOOSE d \in DOMAIN Domain : c \in Domain[d]
  ELSE "Unallocated"

retry_for(c) == IF Published(c) THEN spec(c).retry ELSE "Never"

(* The table is well formed: ordered by code, every code in the range of   *)
(* its domain and declared by an enum.                                     *)
ASSUME CatalogAssumption ==
  /\ \A i \in DOMAIN ERROR_CATALOG :
       LET e == ERROR_CATALOG[i] IN
         /\ e \in ErrorSpec
         /\ e.domain = domain_for(e.code)
         /\ \E n \in DOMAIN ErrorCode : ErrorCode[n] = e.code
         /\ i > 1 => ERROR_CATALOG[i - 1].code < e.code
=============================================================================
