--------------------------- MODULE IssuerRegistry ---------------------------
(***************************************************************************)
(* contracts/issuer-registry: issuer records under their identifier hash,  *)
(* and the reverse index from a signing address to the issuer that holds   *)
(* it.  The proof registry authorises new proofs through that index.       *)
(***************************************************************************)
EXTENDS UpgradeGovernance

CONSTANTS
  IssuerId,     \* issuer_id_hash
  Metadata,     \* metadata_hash
  NoIssuer,     \* reads of an absent AddressIssuer entry
  NoRecord,     \* reads of an absent Issuer entry
  MaxTime       \* bound: the last ledger timestamp of a behaviour

Time == 0 .. MaxTime

IssuerRecord ==
  [issuer_address : Address, metadata_hash : Metadata, status : IssuerStatus,
   created_at : Time, updated_at : Time]

ASSUME IssuerAssumption ==
  /\ NoIssuer \notin IssuerId
  /\ NoRecord \notin IssuerRecord
  /\ MaxTime \in Nat

VARIABLES
  issuers,          \* DataKey::Issuer(id)
  addressIssuer,    \* DataKey::AddressIssuer(address)
  now               \* env.ledger().timestamp()

registryVars == <<admin, issuers, addressIssuer, now, upgrade>>

Init ==
  /\ UpgradeInit
  /\ issuers = [i \in IssuerId |-> NoRecord]
  /\ addressIssuer = [a \in Address |-> NoIssuer]
  /\ now \in Time

Registered(i) == issuers[i] # NoRecord
Revoked(i) == Registered(i) /\ issuers[i].status = "Revoked"

AddressTaken(a) == addressIssuer[a] # NoIssuer

is_active_issuer(i) == Registered(i) /\ issuers[i].status = "Active"

is_active_address(a) == AddressTaken(a) /\ is_active_issuer(addressIssuer[a])

GetIssuerByAddressResult(a) ==
  IF ~ AddressTaken(a) THEN "IssuerAddressNotFound"
  ELSE IF ~ Registered(addressIssuer[a]) THEN "IssuerNotFound"
  ELSE Ok

get_issuer_by_address(a) == issuers[addressIssuer[a]]

(***************************************************************************)
(* Entry points.  Definitions marked "Fault" are deliberately wrong        *)
(* variants of the definition that follows: each must break a property.    *)
(***************************************************************************)
InitializeResult(caller, a) ==
  IF admin # NoAddress THEN "AlreadyInitialized"
  ELSE IF ~ is_valid_principal_address(a) THEN "InvalidInput"
  ELSE IF caller # a THEN AuthAbort
  ELSE Ok

initialize(caller, a) ==
  /\ InitializeResult(caller, a) = Ok
  /\ admin' = a
  /\ upgrade' = FirstVersion
  /\ UNCHANGED <<issuers, addressIssuer, now>>

RegisterIssuerResult(caller, i, a) ==
  IF admin = NoAddress THEN "IssuerNotFound"
  ELSE IF ~ is_valid_principal_address(a) THEN "InvalidIssuerAddress"
  ELSE IF caller # admin THEN AuthAbort
  ELSE IF Registered(i) THEN "IssuerAlreadyRegistered"
  ELSE IF AddressTaken(a) THEN "IssuerAddressAlreadyRegistered"
  ELSE Ok

NewIssuer(a, m) ==
  [issuer_address |-> a, metadata_hash |-> m, status |-> "Active",
   created_at |-> now, updated_at |-> now]

register_issuer(caller, i, a, m) ==
  /\ RegisterIssuerResult(caller, i, a) = Ok
  /\ issuers' = [issuers EXCEPT ![i] = NewIssuer(a, m)]
  /\ addressIssuer' = [addressIssuer EXCEPT ![a] = i]
  /\ UNCHANGED <<admin, now, upgrade>>

UpdateIssuerResult(caller, i) ==
  IF admin = NoAddress THEN "IssuerNotFound"
  ELSE IF caller # admin THEN AuthAbort
  ELSE IF ~ Registered(i) THEN "IssuerNotFound"
  ELSE IF Revoked(i) THEN "IssuerRevoked"
  ELSE Ok

(* Fault: the new metadata is stored under the old time stamp. *)
UnstampedUpdate(caller, i, m) ==
  /\ UpdateIssuerResult(caller, i) = Ok
  /\ issuers' = [issuers EXCEPT ![i].metadata_hash = m]
  /\ UNCHANGED <<admin, addressIssuer, now, upgrade>>

update_issuer(caller, i, m) ==
  /\ UpdateIssuerResult(caller, i) = Ok
  /\ issuers' = [issuers EXCEPT ![i].metadata_hash = m, ![i].updated_at = now]
  /\ UNCHANGED <<admin, addressIssuer, now, upgrade>>

(* Fault: any status may follow any other. *)
FreeTransition(i, status) == FALSE

ForbiddenTransition(i, status) == Revoked(i) /\ status # "Revoked"

SetStatusResult(caller, i, status) ==
  IF admin = NoAddress THEN "IssuerNotFound"
  ELSE IF caller # admin THEN AuthAbort
  ELSE IF ~ Registered(i) THEN "IssuerNotFound"
  ELSE IF ForbiddenTransition(i, status) THEN "InvalidTransition"
  ELSE Ok

set_status(caller, i, status) ==
  /\ SetStatusResult(caller, i, status) = Ok
  /\ issuers' = [issuers EXCEPT ![i].status = status, ![i].updated_at = now]
  /\ UNCHANGED <<admin, addressIssuer, now, upgrade>>

suspend_issuer(caller, i)    == set_status(caller, i, "Suspended")
reactivate_issuer(caller, i) == set_status(caller, i, "Active")
revoke_issuer(caller, i)     == set_status(caller, i, "Revoked")

(* Fault: a revoked issuer may still move to another address. *)
RotateAnyResult(caller, i, a) ==
  IF admin = NoAddress \/ ~ Registered(i) THEN "IssuerNotFound"
  ELSE IF caller # admin THEN AuthAbort
  ELSE IF ~ is_valid_principal_address(a) THEN "InvalidIssuerAddress"
  ELSE IF AddressTaken(a) THEN "IssuerAddressAlreadyRegistered"
  ELSE Ok

RotateIssuerResult(caller, i, a) ==
  IF admin = NoAddress THEN "IssuerNotFound"
  ELSE IF ~ is_valid_principal_address(a) THEN "InvalidIssuerAddress"
  ELSE IF caller # admin THEN AuthAbort
  ELSE IF ~ Registered(i) THEN "IssuerNotFound"
  ELSE IF Revoked(i) THEN "IssuerRevoked"
  ELSE IF a = issuers[i].issuer_address THEN "InvalidIssuerAddress"
  ELSE IF AddressTaken(a) THEN "IssuerAddressAlreadyRegistered"
  ELSE Ok

(* Fault: the old address keeps its index entry. *)
IndexKeepingOld(i, a) == [addressIssuer EXCEPT ![a] = i]

IndexAfterRotation(i, a) ==
  [addressIssuer EXCEPT ![issuers[i].issuer_address] = NoIssuer, ![a] = i]

rotate_issuer_address(caller, i, a) ==
  /\ RotateIssuerResult(caller, i, a) = Ok
  /\ issuers' = [issuers EXCEPT ![i].issuer_address = a, ![i].updated_at = now]
  /\ addressIssuer' = IndexAfterRotation(i, a)
  /\ UNCHANGED <<admin, now, upgrade>>

approve_upgrade(caller, h, v) ==
  ApproveUpgrade(caller, h, v) /\ UNCHANGED <<issuers, addressIssuer, now>>

revoke_upgrade(caller, h) ==
  RevokeUpgrade(caller, h) /\ UNCHANGED <<issuers, addressIssuer, now>>

upgrade_contract(caller, h) ==
  UpgradeContract(caller, h) /\ UNCHANGED <<issuers, addressIssuer, now>>

IssuerCall(caller) ==
  \/ \E a \in Address : initialize(caller, a)
  \/ \E i \in IssuerId :
       \/ \E m \in Metadata :
            \/ \E a \in Address : register_issuer(caller, i, a, m)
            \/ update_issuer(caller, i, m)
       \/ suspend_issuer(caller, i)
       \/ reactivate_issuer(caller, i)
       \/ revoke_issuer(caller, i)
       \/ \E a \in Address : rotate_issuer_address(caller, i, a)

UpgradeCall(caller) ==
  \E h \in WasmHash :
    \/ \E v \in ContractVersions : approve_upgrade(caller, h, v)
    \/ revoke_upgrade(caller, h)
    \/ upgrade_contract(caller, h)

(* A ledger closes: its timestamp is later than the last one's.            *)
Tick ==
  /\ now < MaxTime
  /\ now' = now + 1
  /\ UNCHANGED <<admin, issuers, addressIssuer, upgrade>>

Next ==
  \/ \E caller \in Address : IssuerCall(caller) \/ UpgradeCall(caller)
  \/ Tick

Spec == Init /\ [][Next]_registryVars

(***************************************************************************)
(* Properties                                                              *)
(***************************************************************************)

(* Type invariant of the contract's storage.                               *)
TypeOK ==
  /\ admin \in Address \union {NoAddress}
  /\ upgrade \in UpgradeState
  /\ issuers \in [IssuerId -> IssuerRecord \union {NoRecord}]
  /\ addressIssuer \in [Address -> IssuerId \union {NoIssuer}]
  /\ now \in Time

(* The reverse index and the records say the same: an address leads to an  *)
(* issuer exactly when that issuer's record holds the address, whatever    *)
(* registrations, rotations and revocations came before.  So no two        *)
(* issuers share an address and no rotated-away address still resolves.    *)
IndexMatchesRecords ==
  \A a \in Address, i \in IssuerId :
    addressIssuer[a] = i <=> Registered(i) /\ issuers[i].issuer_address = a

(* A revoked issuer stays revoked with its record frozen but for           *)
(* updated_at, and its address stays bound to it: neither the identifier   *)
(* nor the address can ever sign for an active issuer again.               *)
StaysRevoked(i) ==
  /\ Revoked(i)'
  /\ issuers'[i] = [issuers[i] EXCEPT !.updated_at = issuers'[i].updated_at]
  /\ addressIssuer'[issuers[i].issuer_address] = i

(* Every step keeps to the rule above.                                     *)
RevocationIsTerminal ==
  [][\A i \in IssuerId : Revoked(i) => StaysRevoked(i)]_registryVars

(* A record is never deleted and keeps its creation time; each change of   *)
(* it is stamped with the ledger time of the change, so an observer that   *)
(* compares updated_at across ledgers misses none.                         *)
Stamped(i) ==
  /\ Registered(i)'
  /\ issuers'[i].created_at = issuers[i].created_at
  /\ issuers'[i] # issuers[i] => issuers'[i].updated_at = now
  /\ issuers'[i].updated_at >= issuers[i].updated_at

(* Every step keeps to the rule above.                                     *)
ChangesAreStamped ==
  [][\A i \in IssuerId : Registered(i) => Stamped(i)]_registryVars

(* The rejections other than 202 that the error catalogue classifies as    *)
(* Retry::Never.                                                           *)
FinalCodes == NeverCodes \ {"IssuerAddressAlreadyRegistered"}

Calls == {"initialize", "register", "update", "suspend", "reactivate", "rotate"}

(* What the calls of the contract return to a given caller.                *)
Results(c, i, a) ==
  [initialize |-> InitializeResult(c, a),
   register   |-> RegisterIssuerResult(c, i, a),
   update     |-> UpdateIssuerResult(c, i),
   suspend    |-> SetStatusResult(c, i, "Suspended"),
   reactivate |-> SetStatusResult(c, i, "Active"),
   rotate     |-> RotateIssuerResult(c, i, a)]

(* The final codes are final: the identical call is answered with the      *)
(* identical error after every later step of anyone.                       *)
FinalRejectionsAreFinal ==
  [][\A c \in Address, i \in IssuerId, a \in Address :
       LET r == Results(c, i, a) IN
         \A f \in Calls : r[f] \in FinalCodes => r'[f] = r[f]]_registryVars

(* What error_catalog.rs says of Retry::Never, applied to every code it    *)
(* gives that class, 202 included: "Retrying it unchanged will fail        *)
(* identically, forever".                                                  *)
NeverCodesAreFinal ==
  [][\A c \in Address, i \in IssuerId, a \in Address :
       LET r == Results(c, i, a) IN
         \A f \in Calls : r[f] \in NeverCodes => r'[f] = r[f]]_registryVars
=============================================================================
