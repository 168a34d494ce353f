------------------------ MODULE IssuerRegistryProofs ------------------------
(***************************************************************************)
(* Proofs about the issuer registry, for any sets of addresses, issuers,   *)
(* metadata and WASM hashes and any bounds.                                *)
(***************************************************************************)
EXTENDS IssuerRegistry, UpgradeGovernanceProofs

(* An upgrade call of this contract is an upgrade step that leaves the     *)
(* registry's own state alone.                                             *)
LEMMA UpgradeCallStep ==
  ASSUME NEW caller, UpgradeCall(caller)
  PROVE  /\ \E h \in WasmHash : UpgradeStep(caller, h)
         /\ UNCHANGED <<issuers, addressIssuer, now>>
BY DEF UpgradeCall, approve_upgrade, revoke_upgrade, upgrade_contract, UpgradeStep

(***************************************************************************)
(* Type correctness                                                        *)
(***************************************************************************)

(* The type invariant TypeOK holds of the contract's storage after every   *)
(* sequence of calls.                                                      *)
THEOREM TypeCorrect == Spec => []TypeOK
<1>1. Init => TypeOK
  BY UpgradeAssumption
  DEF Init, TypeOK, UpgradeInit, UpgradeState, ContractVersions
<1>2. TypeOK /\ [Next]_registryVars => TypeOK'
  <2> SUFFICES ASSUME TypeOK, [Next]_registryVars PROVE TypeOK'
    OBVIOUS
  <2> USE DEF TypeOK
  <2>1. ASSUME NEW caller \in Address, NEW a \in Address, initialize(caller, a)
        PROVE  TypeOK'
    BY <2>1, UpgradeAssumption
    DEF initialize, FirstVersion, UpgradeState, ContractVersions
  <2>2. ASSUME NEW caller \in Address, NEW i \in IssuerId, NEW a \in Address,
               NEW m \in Metadata, register_issuer(caller, i, a, m)
        PROVE  TypeOK'
    <3>1. NewIssuer(a, m) \in IssuerRecord
      BY DEF NewIssuer, IssuerRecord, IssuerStatus
    <3>2. QED
      BY <2>2, <3>1 DEF register_issuer
  <2>3. ASSUME NEW i \in IssuerId, Registered(i)
        PROVE  issuers[i] \in IssuerRecord
    BY <2>3 DEF Registered
  <2>4. ASSUME NEW caller \in Address, NEW i \in IssuerId, NEW m \in Metadata,
               update_issuer(caller, i, m)
        PROVE  TypeOK'
    <3>1. Registered(i)
      BY <2>4 DEF update_issuer, UpdateIssuerResult, Ok, AuthAbort
    <3>2. QED
      BY <2>4, <2>3, <3>1 DEF update_issuer, IssuerRecord
  <2>5. ASSUME NEW caller \in Address, NEW i \in IssuerId,
               NEW s \in IssuerStatus, set_status(caller, i, s)
        PROVE  TypeOK'
    <3>1. Registered(i)
      BY <2>5 DEF set_status, SetStatusResult, Ok, AuthAbort
    <3>2. QED
      BY <2>5, <2>3, <3>1 DEF set_status, IssuerRecord
  <2>6. ASSUME NEW caller \in Address, NEW i \in IssuerId, NEW a \in Address,
               rotate_issuer_address(caller, i, a)
        PROVE  TypeOK'
    <3>1. Registered(i)
      BY <2>6 DEF rotate_issuer_address, RotateIssuerResult, Ok, AuthAbort
    <3>2. issuers' \in [IssuerId -> IssuerRecord \union {NoRecord}]
      BY <2>6, <2>3, <3>1 DEF rotate_issuer_address, IssuerRecord
    <3>3. addressIssuer' \in [Address -> IssuerId \union {NoIssuer}]
      BY <2>6, <2>3, <3>1 DEF rotate_issuer_address, IndexAfterRotation, IssuerRecord
    <3>4. QED
      BY <2>6, <3>2, <3>3 DEF rotate_issuer_address
  <2>7. ASSUME NEW caller \in Address, UpgradeCall(caller)
        PROVE  TypeOK'
    BY <2>7, UpgradeCallStep, UpgradeStepType
  <2>8. CASE Tick
    BY <2>8, IssuerAssumption DEF Tick, Time
  <2>9. CASE UNCHANGED registryVars
    BY <2>9 DEF registryVars
  <2>10. QED
    BY <2>1, <2>2, <2>4, <2>5, <2>6, <2>7, <2>8, <2>9
    DEF Next, IssuerCall, suspend_issuer, reactivate_issuer, revoke_issuer,
        IssuerStatus
<1>3. QED
  BY <1>1, <1>2, PTL DEF Spec

(***************************************************************************)
(* The reverse index                                                       *)
(***************************************************************************)

(* What an operation on an existing record finds.                          *)
LEMMA RecordTyped ==
  ASSUME TypeOK, NEW i \in IssuerId, Registered(i)
  PROVE  issuers[i] \in IssuerRecord
BY DEF TypeOK, Registered

(* The steps that do not touch the records or the index keep them in step. *)
LEMMA IndexUntouched ==
  ASSUME IndexMatchesRecords, UNCHANGED <<issuers, addressIssuer>>
  PROVE  IndexMatchesRecords'
BY DEF IndexMatchesRecords, Registered

(* Changing fields other than the address keeps records and index in step. *)
LEMMA IndexSameAddresses ==
  ASSUME TypeOK, IndexMatchesRecords, UNCHANGED addressIssuer,
         \A j \in IssuerId : /\ Registered(j) <=> Registered(j)'
                             /\ Registered(j) => issuers'[j].issuer_address
                                                 = issuers[j].issuer_address
  PROVE  IndexMatchesRecords'
BY DEF IndexMatchesRecords

(* IndexMatchesRecords is preserved by every step of the registry.         *)
LEMMA IndexPreserved ==
  ASSUME TypeOK, IndexMatchesRecords, [Next]_registryVars
  PROVE  IndexMatchesRecords'
<1>1. ASSUME NEW caller \in Address, NEW a \in Address, initialize(caller, a)
      PROVE  IndexMatchesRecords'
  BY <1>1, IndexUntouched DEF initialize
<1>2. ASSUME NEW caller \in Address, NEW i \in IssuerId, NEW a \in Address,
             NEW m \in Metadata, register_issuer(caller, i, a, m)
      PROVE  IndexMatchesRecords'
  <2>1. ~ Registered(i) /\ ~ AddressTaken(a)
    BY <1>2 DEF register_issuer, RegisterIssuerResult, Ok, AuthAbort
  <2>2. NewIssuer(a, m) \in IssuerRecord /\ NewIssuer(a, m).issuer_address = a
    BY DEF NewIssuer, IssuerRecord, IssuerStatus, TypeOK
  <2>3. NewIssuer(a, m) # NoRecord
    BY <2>2, IssuerAssumption
  <2>4. /\ issuers' = [issuers EXCEPT ![i] = NewIssuer(a, m)]
        /\ addressIssuer' = [addressIssuer EXCEPT ![a] = i]
    BY <1>2 DEF register_issuer
  <2>5. QED
    BY <2>1, <2>2, <2>3, <2>4, IssuerAssumption
    DEF IndexMatchesRecords, Registered, AddressTaken, TypeOK
<1>3. ASSUME NEW caller \in Address, NEW i \in IssuerId, NEW m \in Metadata,
             update_issuer(caller, i, m)
      PROVE  IndexMatchesRecords'
  <2>1. Registered(i)
    BY <1>3 DEF update_issuer, UpdateIssuerResult, Ok, AuthAbort
  <2>2. issuers'[i] = [issuers[i] EXCEPT !.metadata_hash = m, !.updated_at = now]
    BY <1>3 DEF update_issuer, TypeOK
  <2>3. issuers'[i] \in IssuerRecord
        /\ issuers'[i].issuer_address = issuers[i].issuer_address
    BY <2>1, <2>2, RecordTyped DEF IssuerRecord, TypeOK
  <2>4. \A j \in IssuerId : j # i => issuers'[j] = issuers[j]
    BY <1>3 DEF update_issuer, TypeOK
  <2>5. QED
    BY <1>3, <2>1, <2>3, <2>4, IssuerAssumption, IndexSameAddresses
    DEF update_issuer, Registered
<1>4. ASSUME NEW caller \in Address, NEW i \in IssuerId, NEW s \in IssuerStatus,
             set_status(caller, i, s)
      PROVE  IndexMatchesRecords'
  <2>1. Registered(i)
    BY <1>4 DEF set_status, SetStatusResult, Ok, AuthAbort
  <2>2. issuers'[i] = [issuers[i] EXCEPT !.status = s, !.updated_at = now]
    BY <1>4 DEF set_status, TypeOK
  <2>3. issuers'[i] \in IssuerRecord
        /\ issuers'[i].issuer_address = issuers[i].issuer_address
    BY <2>1, <2>2, RecordTyped DEF IssuerRecord, TypeOK
  <2>4. \A j \in IssuerId : j # i => issuers'[j] = issuers[j]
    BY <1>4 DEF set_status, TypeOK
  <2>5. QED
    BY <1>4, <2>1, <2>3, <2>4, IssuerAssumption, IndexSameAddresses
    DEF set_status, Registered
<1>5. ASSUME NEW caller \in Address, NEW i \in IssuerId, NEW a \in Address,
             rotate_issuer_address(caller, i, a)
      PROVE  IndexMatchesRecords'
  <2> DEFINE old == issuers[i].issuer_address
  <2>1. Registered(i) /\ a # old /\ ~ AddressTaken(a)
    BY <1>5 DEF rotate_issuer_address, RotateIssuerResult, Ok, AuthAbort
  <2>2. old \in Address /\ issuers[i] \in IssuerRecord
    BY <2>1, RecordTyped DEF IssuerRecord
  <2>3. issuers'[i] = [issuers[i] EXCEPT !.issuer_address = a, !.updated_at = now]
    BY <1>5 DEF rotate_issuer_address, TypeOK
  <2>4. issuers'[i] \in IssuerRecord /\ issuers'[i].issuer_address = a
    BY <2>2, <2>3 DEF IssuerRecord, TypeOK
  <2>5. \A j \in IssuerId : j # i => issuers'[j] = issuers[j]
    BY <1>5 DEF rotate_issuer_address, TypeOK
  <2>6. addressIssuer' = [addressIssuer EXCEPT ![old] = NoIssuer, ![a] = i]
    BY <1>5 DEF rotate_issuer_address, IndexAfterRotation
  <2>7. \A b \in Address : addressIssuer'[b] = IF b = a THEN i
                             ELSE IF b = old THEN NoIssuer ELSE addressIssuer[b]
    BY <2>2, <2>6 DEF TypeOK
  <2>8. QED
    BY <2>1, <2>2, <2>4, <2>5, <2>7, IssuerAssumption
    DEF IndexMatchesRecords, Registered, AddressTaken
<1>6. ASSUME NEW caller \in Address, UpgradeCall(caller)
      PROVE  IndexMatchesRecords'
  BY <1>6, UpgradeCallStep, IndexUntouched
<1>7. CASE Tick \/ UNCHANGED registryVars
  BY <1>7, IndexUntouched DEF Tick, registryVars
<1>8. QED
  BY <1>1, <1>2, <1>3, <1>4, <1>5, <1>6, <1>7
  DEF Next, IssuerCall, suspend_issuer, reactivate_issuer, revoke_issuer,
      IssuerStatus

(* In every reachable state the reverse index and the records agree.       *)
THEOREM IndexCorrect == Spec => []IndexMatchesRecords
<1>1. Init => IndexMatchesRecords
  BY IssuerAssumption DEF Init, IndexMatchesRecords, Registered
<1>2. TypeOK /\ IndexMatchesRecords /\ [Next]_registryVars => IndexMatchesRecords'
  BY IndexPreserved
<1>3. QED
  BY <1>1, <1>2, TypeCorrect, PTL DEF Spec

(* The proof registry's question is_active_address is answered from the    *)
(* records: some issuer is Active and its record holds the address.        *)
ActiveAddressIsActiveIssuer ==
  \A a \in Address : is_active_address(a) <=>
    \E i \in IssuerId : is_active_issuer(i) /\ issuers[i].issuer_address = a

(* Theorem IndexCorrect read as an answer to the proof registry: the index *)
(* never vouches for an address that no active issuer's record holds.      *)
THEOREM ActiveAddressCorrect == Spec => []ActiveAddressIsActiveIssuer
<1>1. TypeOK /\ IndexMatchesRecords => ActiveAddressIsActiveIssuer
  <2> SUFFICES ASSUME TypeOK, IndexMatchesRecords, NEW a \in Address
               PROVE  is_active_address(a) <=>
                        \E i \in IssuerId : /\ is_active_issuer(i)
                                            /\ issuers[i].issuer_address = a
    BY DEF ActiveAddressIsActiveIssuer
  <2>1. ASSUME is_active_address(a)
        PROVE  \E i \in IssuerId : /\ is_active_issuer(i)
                                   /\ issuers[i].issuer_address = a
    <3>1. addressIssuer[a] \in IssuerId /\ is_active_issuer(addressIssuer[a])
      BY <2>1 DEF is_active_address, AddressTaken, TypeOK
    <3>2. issuers[addressIssuer[a]].issuer_address = a
      BY <3>1 DEF IndexMatchesRecords
    <3>3. QED
      BY <3>1, <3>2
  <2>2. ASSUME NEW i \in IssuerId, is_active_issuer(i),
               issuers[i].issuer_address = a
        PROVE  is_active_address(a)
    <3>1. addressIssuer[a] = i
      BY <2>2 DEF IndexMatchesRecords, is_active_issuer
    <3>2. QED
      BY <2>2, <3>1, IssuerAssumption DEF is_active_address, AddressTaken
  <2>3. QED
    BY <2>1, <2>2
<1>2. QED
  BY <1>1, TypeCorrect, IndexCorrect, PTL

(***************************************************************************)
(* What a step may do to a record                                          *)
(***************************************************************************)

(* Records are not updated in the future.                                  *)
StampsInPast ==
  \A i \in IssuerId : Registered(i) => issuers[i].updated_at <= now

(* The administrator is set once; a record persists, is stamped with the   *)
(* time of its changes, and is frozen once revoked.                        *)
RecordRules ==
  /\ admin # NoAddress => admin' = admin
  /\ \A i \in IssuerId : Registered(i) => Stamped(i)
  /\ \A i \in IssuerId : Revoked(i) => StaysRevoked(i)

(* The rules hold of a step that changes no record and no index entry.     *)
LEMMA RulesUntouched ==
  ASSUME TypeOK, IndexMatchesRecords, UNCHANGED <<issuers, addressIssuer>>,
         admin # NoAddress => admin' = admin
  PROVE  RecordRules
<1>1. ASSUME NEW i \in IssuerId, Registered(i)
      PROVE  Stamped(i)
  <2>1. issuers[i].updated_at \in Nat
    BY <1>1, RecordTyped, IssuerAssumption DEF IssuerRecord, Time
  <2>2. QED
    BY <1>1, <2>1 DEF Stamped, Registered
<1>2. ASSUME NEW i \in IssuerId, Revoked(i)
      PROVE  StaysRevoked(i)
  <2>1. Registered(i) /\ issuers[i] \in IssuerRecord
    BY <1>2, RecordTyped DEF Revoked
  <2>2. issuers[i] = [issuers[i] EXCEPT !.updated_at = issuers[i].updated_at]
    BY <2>1 DEF IssuerRecord
  <2>3. addressIssuer[issuers[i].issuer_address] = i
    BY <2>1 DEF IndexMatchesRecords, IssuerRecord
  <2>4. QED
    BY <1>2, <2>2, <2>3 DEF StaysRevoked, Revoked, Registered
<1>3. QED
  BY <1>1, <1>2 DEF RecordRules

(* The rules hold of a step that rewrites the record of one unrevoked      *)
(* issuer, keeps its creation time, stamps it, and moves no index entry of *)
(* another issuer.                                                         *)
LEMMA RulesOneRecord ==
  ASSUME TypeOK, IndexMatchesRecords, StampsInPast, UNCHANGED admin,
         NEW i \in IssuerId, Registered(i), issuers'[i] \in IssuerRecord,
         issuers'[i].created_at = issuers[i].created_at,
         issuers'[i].updated_at = now,
         Revoked(i) => StaysRevoked(i),
         \A j \in IssuerId : j # i => issuers'[j] = issuers[j],
         \A j \in IssuerId : j # i /\ Registered(j) =>
           addressIssuer'[issuers[j].issuer_address] = j
  PROVE  RecordRules
<1>1. ASSUME NEW j \in IssuerId, Registered(j)
      PROVE  Stamped(j)
  <2>1. issuers[j].updated_at \in Nat /\ now \in Nat
    BY <1>1, RecordTyped, IssuerAssumption DEF IssuerRecord, Time, TypeOK
  <2>2. CASE j = i
    BY <2>1, <2>2, IssuerAssumption DEF Stamped, Registered, StampsInPast
  <2>3. CASE j # i
    BY <1>1, <2>1, <2>3 DEF Stamped, Registered
  <2>4. QED
    BY <2>2, <2>3
<1>2. ASSUME NEW j \in IssuerId, Revoked(j), j # i
      PROVE  StaysRevoked(j)
  <2>1. Registered(j) /\ issuers[j] \in IssuerRecord
    BY <1>2, RecordTyped DEF Revoked
  <2>2. issuers[j] = [issuers[j] EXCEPT !.updated_at = issuers[j].updated_at]
    BY <2>1 DEF IssuerRecord
  <2>3. QED
    BY <1>2, <2>1, <2>2 DEF StaysRevoked, Revoked, Registered
<1>3. QED
  BY <1>1, <1>2 DEF RecordRules

(* Every step of the registry keeps to the rules.                          *)
LEMMA RulesKept ==
  ASSUME TypeOK, IndexMatchesRecords, StampsInPast, [Next]_registryVars
  PROVE  RecordRules
<1>1. ASSUME NEW caller \in Address, NEW a \in Address, initialize(caller, a)
      PROVE  RecordRules
  BY <1>1, RulesUntouched DEF initialize, InitializeResult, Ok
<1>2. ASSUME NEW caller \in Address, NEW i \in IssuerId, NEW a \in Address,
             NEW m \in Metadata, register_issuer(caller, i, a, m)
      PROVE  RecordRules
  <2>1. ~ Registered(i) /\ ~ AddressTaken(a)
    BY <1>2 DEF register_issuer, RegisterIssuerResult, Ok, AuthAbort
  <2>2. \A j \in IssuerId : j # i => issuers'[j] = issuers[j]
    BY <1>2 DEF register_issuer, TypeOK
  <2>3. ASSUME NEW j \in IssuerId, Registered(j)
        PROVE  /\ j # i /\ issuers[j] \in IssuerRecord
               /\ addressIssuer'[issuers[j].issuer_address] = j
    <3>1. j # i /\ issuers[j] \in IssuerRecord /\ issuers[j].issuer_address \in Address
      BY <2>1, <2>3, RecordTyped DEF IssuerRecord
    <3>2. addressIssuer[issuers[j].issuer_address] = j
      BY <2>3, <3>1 DEF IndexMatchesRecords
    <3>3. issuers[j].issuer_address # a
      BY <2>1, <3>2, IssuerAssumption DEF AddressTaken
    <3>4. QED
      BY <1>2, <3>1, <3>2, <3>3 DEF register_issuer, TypeOK
  <2>4. ASSUME NEW j \in IssuerId, Registered(j)
        PROVE  Stamped(j)
    <3>1. issuers[j].updated_at \in Nat
      BY <2>3, <2>4, IssuerAssumption DEF IssuerRecord, Time
    <3>2. QED
      BY <2>2, <2>3, <2>4, <3>1 DEF Stamped, Registered
  <2>5. ASSUME NEW j \in IssuerId, Revoked(j)
        PROVE  StaysRevoked(j)
    <3>1. issuers[j] = [issuers[j] EXCEPT !.updated_at = issuers[j].updated_at]
      BY <2>3, <2>5 DEF IssuerRecord, Revoked
    <3>2. QED
      BY <2>2, <2>3, <2>5, <3>1 DEF StaysRevoked, Revoked, Registered
  <2>6. QED
    BY <1>2, <2>4, <2>5 DEF RecordRules, register_issuer
<1>3. ASSUME NEW caller \in Address, NEW i \in IssuerId, NEW m \in Metadata,
             update_issuer(caller, i, m)
      PROVE  RecordRules
  <2>1. Registered(i) /\ ~ Revoked(i)
    BY <1>3 DEF update_issuer, UpdateIssuerResult, Ok, AuthAbort
  <2>2. issuers'[i] = [issuers[i] EXCEPT !.metadata_hash = m, !.updated_at = now]
    BY <1>3 DEF update_issuer, TypeOK
  <2>3. /\ issuers'[i] \in IssuerRecord /\ issuers'[i].updated_at = now
        /\ issuers'[i].created_at = issuers[i].created_at
    BY <2>1, <2>2, RecordTyped DEF IssuerRecord, TypeOK
  <2>4. /\ \A j \in IssuerId : j # i => issuers'[j] = issuers[j]
        /\ UNCHANGED <<admin, addressIssuer>>
    BY <1>3 DEF update_issuer, TypeOK
  <2>5. \A j \in IssuerId : Registered(j) =>
          addressIssuer[issuers[j].issuer_address] = j
    BY RecordTyped DEF IndexMatchesRecords, IssuerRecord
  <2>6. QED
    BY <2>1, <2>3, <2>4, <2>5, RulesOneRecord
<1>4. ASSUME NEW caller \in Address, NEW i \in IssuerId, NEW s \in IssuerStatus,
             set_status(caller, i, s)
      PROVE  RecordRules
  <2>1. Registered(i) /\ ~ ForbiddenTransition(i, s)
    BY <1>4 DEF set_status, SetStatusResult, Ok, AuthAbort
  <2>2. issuers'[i] = [issuers[i] EXCEPT !.status = s, !.updated_at = now]
    BY <1>4 DEF set_status, TypeOK
  <2>3. /\ issuers'[i] \in IssuerRecord /\ issuers'[i].updated_at = now
        /\ issuers'[i].created_at = issuers[i].created_at
        /\ issuers'[i].status = s
    BY <2>1, <2>2, RecordTyped DEF IssuerRecord, TypeOK
  <2>4. /\ \A j \in IssuerId : j # i => issuers'[j] = issuers[j]
        /\ UNCHANGED <<admin, addressIssuer>>
    BY <1>4 DEF set_status, TypeOK
  <2>5. \A j \in IssuerId : Registered(j) =>
          addressIssuer[issuers[j].issuer_address] = j
    BY RecordTyped DEF IndexMatchesRecords, IssuerRecord
  <2>6. ASSUME Revoked(i) PROVE StaysRevoked(i)
    <3>1. s = "Revoked" /\ issuers[i].status = "Revoked"
      BY <2>1, <2>6 DEF ForbiddenTransition, Revoked
    <3>2. issuers'[i] = [issuers[i] EXCEPT !.updated_at = issuers'[i].updated_at]
      BY <2>1, <2>2, <2>3, <3>1, RecordTyped DEF IssuerRecord
    <3>3. Revoked(i)'
      BY <2>3, <3>1, IssuerAssumption DEF Revoked, Registered
    <3>4. QED
      BY <2>1, <2>4, <2>5, <3>2, <3>3 DEF StaysRevoked
  <2>7. QED
    BY <2>1, <2>3, <2>4, <2>5, <2>6, RulesOneRecord
<1>5. ASSUME NEW caller \in Address, NEW i \in IssuerId, NEW a \in Address,
             rotate_issuer_address(caller, i, a)
      PROVE  RecordRules
  <2> DEFINE old == issuers[i].issuer_address
  <2>1. Registered(i) /\ ~ Revoked(i) /\ ~ AddressTaken(a)
    BY <1>5 DEF rotate_issuer_address, RotateIssuerResult, Ok, AuthAbort
  <2>2. issuers'[i] = [issuers[i] EXCEPT !.issuer_address = a, !.updated_at = now]
    BY <1>5 DEF rotate_issuer_address, TypeOK
  <2>3. /\ issuers'[i] \in IssuerRecord /\ issuers'[i].updated_at = now
        /\ issuers'[i].created_at = issuers[i].created_at
    BY <2>1, <2>2, RecordTyped DEF IssuerRecord, TypeOK
  <2>4. /\ \A j \in IssuerId : j # i => issuers'[j] = issuers[j]
        /\ UNCHANGED admin
    BY <1>5 DEF rotate_issuer_address, TypeOK
  <2>5. ASSUME NEW j \in IssuerId, j # i, Registered(j)
        PROVE  addressIssuer'[issuers[j].issuer_address] = j
    <3>1. issuers[j].issuer_address \in Address /\ old \in Address
      BY <2>1, <2>5, RecordTyped DEF IssuerRecord
    <3>2. /\ addressIssuer[issuers[j].issuer_address] = j
          /\ addressIssuer[old] = i
      BY <2>1, <2>5, <3>1 DEF IndexMatchesRecords
    <3>3. issuers[j].issuer_address # a /\ issuers[j].issuer_address # old
      BY <2>1, <2>5, <3>2, IssuerAssumption DEF AddressTaken
    <3>4. QED
      BY <1>5, <3>1, <3>2, <3>3
      DEF rotate_issuer_address, IndexAfterRotation, TypeOK
  <2>6. QED
    BY <2>1, <2>3, <2>4, <2>5, RulesOneRecord
<1>6. ASSUME NEW caller \in Address, UpgradeCall(caller)
      PROVE  RecordRules
  BY <1>6, UpgradeCallStep, UpgradeStepType, RulesUntouched DEF TypeOK
<1>7. CASE Tick \/ UNCHANGED registryVars
  BY <1>7, RulesUntouched DEF Tick, registryVars
<1>8. QED
  BY <1>1, <1>2, <1>3, <1>4, <1>5, <1>6, <1>7
  DEF Next, IssuerCall, suspend_issuer, reactivate_issuer, revoke_issuer,
      IssuerStatus

(* updated_at never runs ahead of the ledger's clock.                      *)
LEMMA StampsCorrect == Spec => []StampsInPast
<1>1. Init => StampsInPast
  BY DEF Init, StampsInPast, Registered
<1>2. ASSUME TypeOK, TypeOK', IndexMatchesRecords, StampsInPast,
             [Next]_registryVars
      PROVE  StampsInPast'
  <2>1. now \in Nat /\ now' \in Nat /\ now <= now'
    <3>1. now' = now \/ now' = now + 1
      BY <1>2
      DEF Next, IssuerCall, UpgradeCall, Tick, registryVars, initialize,
          register_issuer, update_issuer, set_status, suspend_issuer,
          reactivate_issuer, revoke_issuer, rotate_issuer_address,
          approve_upgrade, revoke_upgrade, upgrade_contract
    <3>2. now \in Nat
      BY <1>2, IssuerAssumption DEF TypeOK, Time
    <3>3. QED
      BY <3>1, <3>2
  <2>2. ASSUME NEW i \in IssuerId, Registered(i)'
        PROVE  issuers'[i].updated_at <= now'
    <3>1. CASE Registered(i)
      <4>1. Stamped(i)
        BY <1>2, <3>1, RulesKept DEF RecordRules
      <4>2. issuers[i].updated_at \in Nat /\ issuers[i].updated_at <= now
        BY <1>2, <3>1, RecordTyped, IssuerAssumption
        DEF StampsInPast, IssuerRecord, Time
      <4>3. QED
        BY <2>1, <4>1, <4>2 DEF Stamped
    <3>2. CASE ~ Registered(i)
      <4>1. PICK caller \in Address, a \in Address, m \in Metadata :
              register_issuer(caller, i, a, m)
        <5>1. ASSUME NEW caller \in Address, NEW j \in IssuerId,
                     NEW a \in Address, NEW m \in Metadata,
                     register_issuer(caller, j, a, m)
              PROVE  j = i
          BY <1>2, <2>2, <3>2, <5>1 DEF register_issuer, Registered, TypeOK
        <5>2. ASSUME UNCHANGED issuers PROVE FALSE
          BY <2>2, <3>2, <5>2 DEF Registered
        <5>3. ASSUME NEW caller \in Address, NEW j \in IssuerId,
                     NEW m \in Metadata, update_issuer(caller, j, m)
              PROVE  FALSE
          BY <1>2, <2>2, <3>2, <5>3
          DEF update_issuer, UpdateIssuerResult, Ok, AuthAbort, Registered, TypeOK
        <5>4. ASSUME NEW caller \in Address, NEW j \in IssuerId,
                     NEW s \in IssuerStatus, set_status(caller, j, s)
              PROVE  FALSE
          BY <1>2, <2>2, <3>2, <5>4
          DEF set_status, SetStatusResult, Ok, AuthAbort, Registered, TypeOK
        <5>5. ASSUME NEW caller \in Address, NEW j \in IssuerId,
                     NEW a \in Address, rotate_issuer_address(caller, j, a)
              PROVE  FALSE
          BY <1>2, <2>2, <3>2, <5>5
          DEF rotate_issuer_address, RotateIssuerResult, Ok, AuthAbort,
              Registered, TypeOK
        <5>6. QED
          BY <1>2, <5>1, <5>2, <5>3, <5>4, <5>5, UpgradeCallStep
          DEF Next, IssuerCall, Tick, registryVars, initialize, suspend_issuer,
              reactivate_issuer, revoke_issuer, IssuerStatus
      <4>2. issuers'[i].updated_at = now
        BY <1>2, <4>1 DEF register_issuer, NewIssuer, TypeOK
      <4>3. QED
        BY <2>1, <4>2
    <3>3. QED
      BY <3>1, <3>2
  <2>3. QED
    BY <2>2 DEF StampsInPast
<1>3. QED
  BY <1>1, <1>2, TypeCorrect, IndexCorrect, PTL DEF Spec

(* Nothing is registered before initialize.                                *)
IssuersNeedAdmin == \A i \in IssuerId : Registered(i) => admin # NoAddress

(* It holds in every reachable state: before initialize every other call   *)
(* is rejected, and the administrator is never removed.                    *)
LEMMA IssuersHaveAdmin == Spec => []IssuersNeedAdmin
<1>1. Init => IssuersNeedAdmin
  BY DEF Init, IssuersNeedAdmin, Registered
<1>2. ASSUME TypeOK, IndexMatchesRecords, StampsInPast, IssuersNeedAdmin,
             [Next]_registryVars
      PROVE  IssuersNeedAdmin'
  <2>1. CASE admin # NoAddress
    BY <1>2, <2>1, RulesKept DEF RecordRules, IssuersNeedAdmin
  <2>2. CASE admin = NoAddress
    <3>1. UNCHANGED issuers
      BY <1>2, <2>2, UpgradeCallStep
      DEF Next, IssuerCall, Tick, registryVars, initialize, register_issuer,
          RegisterIssuerResult, update_issuer, UpdateIssuerResult, set_status,
          SetStatusResult, suspend_issuer, reactivate_issuer, revoke_issuer,
          rotate_issuer_address, RotateIssuerResult, Ok
    <3>2. QED
      BY <1>2, <2>2, <3>1 DEF IssuersNeedAdmin, Registered
  <2>3. QED
    BY <2>1, <2>2
<1>3. QED
  BY <1>1, <1>2, TypeCorrect, IndexCorrect, StampsCorrect, PTL DEF Spec

(* A revoked issuer stays revoked, keeps its record, and its address stays *)
(* bound to it.                                                            *)
THEOREM RevocationTerminal == Spec => RevocationIsTerminal
<1>1. TypeOK /\ IndexMatchesRecords /\ StampsInPast /\ [Next]_registryVars
        => [\A i \in IssuerId : Revoked(i) => StaysRevoked(i)]_registryVars
  BY RulesKept DEF RecordRules
<1>2. QED
  BY <1>1, TypeCorrect, IndexCorrect, StampsCorrect, PTL
  DEF Spec, RevocationIsTerminal

(* Every change of a record carries the time of the change.                *)
THEOREM StampedChanges == Spec => ChangesAreStamped
<1>1. TypeOK /\ IndexMatchesRecords /\ StampsInPast /\ [Next]_registryVars
        => [\A i \in IssuerId : Registered(i) => Stamped(i)]_registryVars
  BY RulesKept DEF RecordRules
<1>2. QED
  BY <1>1, TypeCorrect, IndexCorrect, StampsCorrect, PTL
  DEF Spec, ChangesAreStamped

(* The calls that are answered with one of the final codes are answered so *)
(* for ever.                                                               *)
THEOREM RejectionsFinal == Spec => FinalRejectionsAreFinal
<1> DEFINE Final(c, i, a) ==
      \A f \in Calls : Results(c, i, a)[f] \in FinalCodes
                         => Results(c, i, a)'[f] = Results(c, i, a)[f]
<1>1. ASSUME TypeOK, IndexMatchesRecords, StampsInPast, [Next]_registryVars,
             NEW c \in Address, NEW i \in IssuerId, NEW a \in Address
      PROVE  Final(c, i, a)
  <2>1. /\ admin # NoAddress => admin' = admin
        /\ Registered(i) => Registered(i)'
        /\ Revoked(i) => Revoked(i)' /\ issuers'[i].status = "Revoked"
    BY <1>1, RulesKept DEF RecordRules, Stamped, StaysRevoked, Revoked
  <2>2. InitializeResult(c, a) \in FinalCodes
          => InitializeResult(c, a)' = InitializeResult(c, a)
    BY <2>1 DEF InitializeResult, FinalCodes, NeverCodes, Ok, AuthAbort
  <2>3. RegisterIssuerResult(c, i, a) \in FinalCodes
          => RegisterIssuerResult(c, i, a)' = RegisterIssuerResult(c, i, a)
    BY <2>1 DEF RegisterIssuerResult, FinalCodes, NeverCodes, Ok, AuthAbort
  <2>4. UpdateIssuerResult(c, i) \in FinalCodes
          => UpdateIssuerResult(c, i)' = UpdateIssuerResult(c, i)
    BY <2>1 DEF UpdateIssuerResult, FinalCodes, NeverCodes, Ok, AuthAbort
  <2>5. \A s \in {"Suspended", "Active"} :
          SetStatusResult(c, i, s) \in FinalCodes
            => SetStatusResult(c, i, s)' = SetStatusResult(c, i, s)
    BY <2>1
    DEF SetStatusResult, ForbiddenTransition, FinalCodes, NeverCodes, Ok, AuthAbort
  <2>6. RotateIssuerResult(c, i, a) \in FinalCodes
          => RotateIssuerResult(c, i, a)' = RotateIssuerResult(c, i, a)
    BY <2>1 DEF RotateIssuerResult, FinalCodes, NeverCodes, Ok, AuthAbort
  <2>7. QED
    BY <2>2, <2>3, <2>4, <2>5, <2>6 DEF Results, Calls
<1>2. TypeOK /\ IndexMatchesRecords /\ StampsInPast /\ [Next]_registryVars
        => [\A c \in Address, i \in IssuerId, a \in Address :
              Final(c, i, a)]_registryVars
  BY <1>1
<1>3. QED
  BY <1>2, TypeCorrect, IndexCorrect, StampsCorrect, PTL
  DEF Spec, FinalRejectionsAreFinal

(* Upgrades of the issuer registry spend approvals and only raise its      *)
(* version.                                                                *)
THEOREM IssuerUpgradesGoverned == Spec => UpgradesSpendApprovals
<1>1. TypeOK /\ [Next]_registryVars => [SpendsApproval]_<<admin, upgrade>>
  <2> SUFFICES ASSUME TypeOK, [Next]_registryVars, ~ UNCHANGED <<admin, upgrade>>
               PROVE  SpendsApproval
    OBVIOUS
  <2>1. ASSUME NEW caller \in Address, NEW a \in Address, initialize(caller, a)
        PROVE  SpendsApproval
    BY <2>1
    DEF initialize, InitializeResult, Ok, FirstVersion, SpendsApproval, TypeOK,
        UpgradeState
  <2>2. ASSUME NEW caller \in Address, UpgradeCall(caller)
        PROVE  SpendsApproval
    BY <2>2, UpgradeCallStep, UpgradeStepSpends DEF TypeOK
  <2>3. QED
    BY <2>1, <2>2
    DEF Next, IssuerCall, Tick, registryVars, register_issuer, update_issuer,
        set_status, suspend_issuer, reactivate_issuer, revoke_issuer,
        rotate_issuer_address
<1>2. QED
  BY <1>1, TypeCorrect, PTL DEF Spec, UpgradesSpendApprovals
=============================================================================
