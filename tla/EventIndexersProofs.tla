------------------------- MODULE EventIndexersProofs -------------------------
(***************************************************************************)
(* Events suffice: the indexer of issuer-registry rebuilds its state, also *)
(* when it replays, and the indexer of protocol-config notices by the      *)
(* config version when it missed something.                                *)
(***************************************************************************)
EXTENDS EventIndexers, IssuerRegistryProofs

(***************************************************************************)
(* issuer-registry: events, pictures and the locations of a picture        *)
(***************************************************************************)

StatusTopics == {"IssuerReactivated", "IssuerSuspended", "IssuerRevoked"}

IssuerEvent ==
  [topic : {"IssuerRegistered"}, issuer_id_hash : IssuerId,
   issuer_address : Address, metadata_hash : Metadata, created_at : Time]
  \union
  [topic : {"IssuerMetadataUpdated"}, issuer_id_hash : IssuerId,
   metadata_hash : Metadata, updated_at : Time]
  \union
  [topic : StatusTopics, issuer_id_hash : IssuerId, updated_at : Time]
  \union
  [topic : {"IssuerAddressRotated"}, issuer_id_hash : IssuerId,
   old_address : Address, new_address : Address, updated_at : Time]

UpgradeEvent ==
  [topic : {"UpgradeAllowlisted"}, wasm_hash : WasmHash,
   new_contract_version : ContractVersions]
  \union
  [topic : {"UpgradeRevoked"}, wasm_hash : WasmHash]
  \union
  [topic : {"ContractUpgraded"}, wasm_hash : WasmHash,
   old_contract_version : ContractVersions,
   new_contract_version : ContractVersions]

Event == IssuerEvent \union UpgradeEvent

(* What an indexer may hold, and what the contract holds.                  *)
Picture ==
  [records : [IssuerId -> IssuerRecord \union {NoRecord}],
   route   : [Address -> IssuerId \union {NoIssuer}],
   upgrade : UpgradeState]

Contract == [records |-> issuers, route |-> addressIssuer, upgrade |-> upgrade]

(* An event about an issuer, and the one that introduces it.               *)
About(e, i) == e.topic \notin UpgradeTopics /\ e.issuer_id_hash = i
Introduces(e, i) == e.topic = "IssuerRegistered" /\ e.issuer_id_hash = i

(* An event other than a registration is about a record that exists.       *)
Applicable(s, e) ==
  \A i \in IssuerId :
    About(e, i) /\ ~ Introduces(e, i) => s.records[i] # NoRecord

(* A picture is made of locations: the fields of the records, the routes,  *)
(* the approvals and the code with its version.                            *)
Fields == {"issuer_address", "metadata_hash", "status", "created_at", "updated_at"}

Location ==
  [kind : {"field"}, issuer : IssuerId, field : Fields]
  \union [kind : {"route"}, address : Address]
  \union [kind : {"approval"}, hash : WasmHash]
  \union [kind : {"code"}]

FieldOf(r, f) ==
  CASE f = "issuer_address" -> r.issuer_address
    [] f = "metadata_hash"  -> r.metadata_hash
    [] f = "status"         -> r.status
    [] f = "created_at"     -> r.created_at
    [] f = "updated_at"     -> r.updated_at

Held(s, x) ==
  CASE x.kind = "field" ->
         IF s.records[x.issuer] = NoRecord THEN {}
         ELSE {FieldOf(s.records[x.issuer], x.field)}
    [] x.kind = "route" -> s.route[x.address]
    [] x.kind = "approval" -> s.upgrade.allowed[x.hash]
    [] x.kind = "code" ->
         IF s.upgrade.wasm = DeployedWasm THEN {}
         ELSE {<<s.upgrade.wasm, s.upgrade.version>>}

(* Which locations an event writes, and with what.                         *)
WritesField(topic, f) ==
  \/ topic = "IssuerRegistered" \/ f = "updated_at"
  \/ topic = "IssuerMetadataUpdated" /\ f = "metadata_hash"
  \/ topic \in StatusTopics /\ f = "status"
  \/ topic = "IssuerAddressRotated" /\ f = "issuer_address"

WritesRoute(e, a) ==
  \/ e.topic = "IssuerRegistered" /\ a = e.issuer_address
  \/ e.topic = "IssuerAddressRotated" /\ a \in {e.old_address, e.new_address}

Writes(e, x) ==
  \/ x.kind = "field" /\ About(e, x.issuer) /\ WritesField(e.topic, x.field)
  \/ x.kind = "route" /\ WritesRoute(e, x.address)
  \/ x.kind = "approval" /\ e.topic \in UpgradeTopics /\ x.hash = e.wasm_hash
  \/ x.kind = "code" /\ e.topic = "ContractUpgraded"

WrittenField(e, f) ==
  CASE f = "issuer_address" ->
         IF e.topic = "IssuerRegistered" THEN e.issuer_address ELSE e.new_address
    [] f = "metadata_hash" -> e.metadata_hash
    [] f = "status" ->
         IF e.topic = "IssuerSuspended" THEN "Suspended"
         ELSE IF e.topic = "IssuerRevoked" THEN "Revoked" ELSE "Active"
    [] f = "created_at" -> e.created_at
    [] f = "updated_at" ->
         IF e.topic = "IssuerRegistered" THEN e.created_at ELSE e.updated_at

WrittenRoute(e, a) ==
  IF e.topic = "IssuerRegistered" \/ a = e.new_address
  THEN e.issuer_id_hash ELSE NoIssuer

Written(e, x) ==
  CASE x.kind = "field" -> {WrittenField(e, x.field)}
    [] x.kind = "route" -> WrittenRoute(e, x.address)
    [] x.kind = "approval" ->
         IF e.topic = "UpgradeAllowlisted" THEN e.new_contract_version ELSE 0
    [] x.kind = "code" -> {<<e.wasm_hash, e.new_contract_version>>}

(***************************************************************************)
(* The invariant                                                           *)
(***************************************************************************)

(* No code is installed before initialize.                                 *)
CodeNeedsAdmin == upgrade.wasm # DeployedWasm => admin # NoAddress

StreamTyped ==
  /\ pending \in Seq(Event)
  /\ seen \in 0 .. Len(pending)
  /\ view \in Picture

(* Events are about registered issuers, and the registration comes first.  *)
Introduced ==
  \A j \in 1 .. Len(pending), i \in IssuerId :
    About(pending[j], i) =>
      /\ Registered(i)
      /\ \A k \in 1 .. Len(pending) : Introduces(pending[k], i) => k <= j

(* The last event to write a location carries what the contract holds.     *)
LastWord ==
  \A x \in Location, j \in 1 .. Len(pending) :
    /\ Writes(pending[j], x)
    /\ \A k \in 1 .. Len(pending) : k > j => ~ Writes(pending[k], x)
    => Written(pending[j], x) = Held(Contract, x)

(* The indexer has what the contract holds wherever no event to come will  *)
(* overwrite it: replaying old events spoils only what is repaired later.  *)
Repairable ==
  \A x \in Location :
    \/ Held(view, x) = Held(Contract, x)
    \/ \E j \in 1 .. Len(pending) : j > seen /\ Writes(pending[j], x)

IndexerInv ==
  CodeNeedsAdmin /\ StreamTyped /\ Introduced /\ LastWord /\ Repairable

(***************************************************************************)
(* What following an event does to a picture                               *)
(***************************************************************************)

(* The contents of a picture t that comes from s by following e.           *)
Follows(t, s, e) ==
  \A x \in Location :
    Held(t, x) = IF Writes(e, x) THEN Written(e, x) ELSE Held(s, x)

(* An event about issuer i writes fields of one record, and routes.        *)
LEMMA IssuerEventFollowed ==
  ASSUME NEW s \in Picture, NEW t \in Picture, NEW e \in IssuerEvent,
         NEW i \in IssuerId, e.issuer_id_hash = i,
         t.upgrade = s.upgrade,
         t.records[i] \in IssuerRecord,
         \A j \in IssuerId : j # i => t.records[j] = s.records[j],
         \A f \in Fields :
           IF WritesField(e.topic, f)
           THEN FieldOf(t.records[i], f) = WrittenField(e, f)
           ELSE /\ s.records[i] # NoRecord
                /\ FieldOf(t.records[i], f) = FieldOf(s.records[i], f),
         \A a \in Address :
           t.route[a] = IF WritesRoute(e, a) THEN WrittenRoute(e, a) ELSE s.route[a]
  PROVE  Follows(t, s, e)
<1> SUFFICES ASSUME NEW x \in Location
             PROVE  Held(t, x) = IF Writes(e, x) THEN Written(e, x) ELSE Held(s, x)
  BY DEF Follows
<1>1. e.topic \notin UpgradeTopics
  BY DEF IssuerEvent, UpgradeTopics, StatusTopics
<1>2. CASE x \in [kind : {"field"}, issuer : IssuerId, field : Fields]
  <2>1. CASE x.issuer = i
    <3>1. Writes(e, x) <=> WritesField(e.topic, x.field)
      BY <1>1, <1>2, <2>1 DEF Writes, About
    <3>2. Held(t, x) = {FieldOf(t.records[i], x.field)}
      BY <1>2, <2>1, IssuerAssumption DEF Held
    <3>3. s.records[i] # NoRecord => Held(s, x) = {FieldOf(s.records[i], x.field)}
      BY <1>2, <2>1 DEF Held
    <3>4. Written(e, x) = {WrittenField(e, x.field)}
      BY <1>2 DEF Written
    <3>5. x.field \in Fields
      BY <1>2
    <3>6. QED
      BY <3>1, <3>2, <3>3, <3>4, <3>5
  <2>2. CASE x.issuer # i
    <3>1. Held(t, x) = Held(s, x)
      BY <1>2, <2>2 DEF Held
    <3>2. ~ Writes(e, x)
      BY <1>2, <2>2 DEF Writes, About
    <3>3. QED
      BY <3>1, <3>2
  <2>3. QED
    BY <2>1, <2>2
<1>3. CASE x \in [kind : {"route"}, address : Address]
  <2>1. Writes(e, x) <=> WritesRoute(e, x.address)
    BY <1>3 DEF Writes
  <2>2. Held(t, x) = t.route[x.address] /\ Held(s, x) = s.route[x.address]
    BY <1>3 DEF Held
  <2>3. Written(e, x) = WrittenRoute(e, x.address)
    BY <1>3 DEF Written
  <2>4. QED
    BY <1>3, <2>1, <2>2, <2>3
<1>4. CASE x \in [kind : {"approval"}, hash : WasmHash] \union [kind : {"code"}]
  <2>1. ~ Writes(e, x)
    BY <1>1, <1>4 DEF Writes, UpgradeTopics
  <2>2. Held(t, x) = Held(s, x)
    BY <1>4 DEF Held
  <2>3. QED
    BY <2>1, <2>2
<1>5. QED
  BY <1>2, <1>3, <1>4 DEF Location

(* The four kinds of issuer events, one by one.                            *)
LEMMA FollowRegistered ==
  ASSUME NEW s \in Picture, NEW e \in IssuerEvent, e.topic = "IssuerRegistered"
  PROVE  FollowIssuer(s, e) \in Picture /\ Follows(FollowIssuer(s, e), s, e)
<1> DEFINE i == e.issuer_id_hash
           r == [issuer_address |-> e.issuer_address,
                 metadata_hash |-> e.metadata_hash, status |-> "Active",
                 created_at |-> e.created_at, updated_at |-> e.created_at]
           t == FollowIssuer(s, e)
<1>1. /\ i \in IssuerId /\ e.issuer_address \in Address
      /\ r \in IssuerRecord
  BY DEF IssuerEvent, StatusTopics, IssuerRecord, IssuerStatus
<1>2. t = [records |-> [s.records EXCEPT ![i] = r],
           route |-> [s.route EXCEPT ![e.issuer_address] = i],
           upgrade |-> s.upgrade]
  BY DEF FollowIssuer, Picture
<1>3. t \in Picture
  BY <1>1, <1>2 DEF Picture
<1>4. ASSUME NEW f \in Fields
      PROVE  WritesField(e.topic, f) /\ FieldOf(t.records[i], f) = WrittenField(e, f)
  BY <1>1, <1>2 DEF WritesField, FieldOf, WrittenField, Fields, Picture
<1>5. ASSUME NEW a \in Address
      PROVE  t.route[a] = IF WritesRoute(e, a) THEN WrittenRoute(e, a) ELSE s.route[a]
  BY <1>1, <1>2 DEF WritesRoute, WrittenRoute, Picture
<1>6. /\ t.upgrade = s.upgrade /\ t.records[i] \in IssuerRecord
      /\ \A j \in IssuerId : j # i => t.records[j] = s.records[j]
  BY <1>1, <1>2 DEF Picture
<1>7. QED
  <2> HIDE DEF i, r, t
  <2>1. e.issuer_id_hash = i
    BY DEF i
  <2>2. Follows(t, s, e)
    BY <1>1, <1>3, <1>4, <1>5, <1>6, <2>1, IssuerEventFollowed
  <2>3. QED
    BY <1>3, <2>2 DEF t

(* An update writes the metadata hash and the time stamp.                  *)
LEMMA FollowUpdated ==
  ASSUME NEW s \in Picture, NEW e \in IssuerEvent, Applicable(s, e),
         e.topic = "IssuerMetadataUpdated"
  PROVE  FollowIssuer(s, e) \in Picture /\ Follows(FollowIssuer(s, e), s, e)
<1> DEFINE i == e.issuer_id_hash
           r == [s.records[i] EXCEPT !.metadata_hash = e.metadata_hash,
                                     !.updated_at = e.updated_at]
           t == FollowIssuer(s, e)
<1>1. i \in IssuerId /\ e.metadata_hash \in Metadata /\ e.updated_at \in Time
  BY DEF IssuerEvent, StatusTopics
<1>2. s.records[i] # NoRecord /\ s.records[i] \in IssuerRecord
  BY <1>1 DEF Applicable, About, Introduces, UpgradeTopics, Picture
<1>3. r \in IssuerRecord
  BY <1>1, <1>2 DEF IssuerRecord
<1>4. t = [s EXCEPT !.records = [s.records EXCEPT ![i] = r]]
  BY <1>1, <1>2 DEF FollowIssuer, Picture
<1>5. /\ t \in Picture /\ t.route = s.route /\ t.upgrade = s.upgrade
      /\ t.records[i] = r
      /\ \A j \in IssuerId : j # i => t.records[j] = s.records[j]
  <2> HIDE DEF i, r, t
  <2>1. QED
    BY <1>1, <1>3, <1>4 DEF Picture
<1>6. ASSUME NEW f \in Fields
      PROVE  IF WritesField(e.topic, f)
             THEN FieldOf(r, f) = WrittenField(e, f)
             ELSE FieldOf(r, f) = FieldOf(s.records[i], f)
  BY <1>2 DEF WritesField, FieldOf, WrittenField, Fields, StatusTopics, IssuerRecord
<1>7. ASSUME NEW a \in Address PROVE ~ WritesRoute(e, a)
  BY DEF WritesRoute
<1>8. QED
  <2> HIDE DEF i, r, t
  <2>1. e.issuer_id_hash = i
    BY DEF i
  <2>2. Follows(t, s, e)
    BY <1>1, <1>2, <1>3, <1>5, <1>6, <1>7, <2>1, IssuerEventFollowed
  <2>3. QED
    BY <1>5, <2>2 DEF t

(* A status change writes the status and the time stamp.                   *)
LEMMA FollowStatus ==
  ASSUME NEW s \in Picture, NEW e \in IssuerEvent, Applicable(s, e),
         e.topic \in StatusTopics
  PROVE  FollowIssuer(s, e) \in Picture /\ Follows(FollowIssuer(s, e), s, e)
<1> DEFINE i == e.issuer_id_hash
           r == [s.records[i] EXCEPT !.status = WrittenField(e, "status"),
                                     !.updated_at = e.updated_at]
           t == FollowIssuer(s, e)
<1>1. i \in IssuerId /\ e.updated_at \in Time
  BY DEF IssuerEvent, StatusTopics
<1>2. s.records[i] # NoRecord /\ s.records[i] \in IssuerRecord
  BY <1>1 DEF Applicable, About, Introduces, UpgradeTopics, StatusTopics, Picture
<1>3. r \in IssuerRecord
  BY <1>1, <1>2 DEF IssuerRecord, IssuerStatus, WrittenField
<1>4. t = [s EXCEPT !.records = [s.records EXCEPT ![i] = r]]
  BY <1>1, <1>2 DEF FollowIssuer, Picture, StatusTopics, WrittenField
<1>5. /\ t \in Picture /\ t.route = s.route /\ t.upgrade = s.upgrade
      /\ t.records[i] = r
      /\ \A j \in IssuerId : j # i => t.records[j] = s.records[j]
  BY <1>1, <1>3, <1>4 DEF Picture
<1>6. ASSUME NEW f \in Fields
      PROVE  IF WritesField(e.topic, f)
             THEN FieldOf(r, f) = WrittenField(e, f)
             ELSE FieldOf(r, f) = FieldOf(s.records[i], f)
  BY <1>2 DEF WritesField, FieldOf, WrittenField, Fields, StatusTopics, IssuerRecord
<1>7. ASSUME NEW a \in Address PROVE ~ WritesRoute(e, a)
  BY DEF WritesRoute, StatusTopics
<1>8. QED
  <2> HIDE DEF i, r, t
  <2>1. e.issuer_id_hash = i
    BY DEF i
  <2>2. Follows(t, s, e)
    BY <1>1, <1>2, <1>3, <1>5, <1>6, <1>7, <2>1, IssuerEventFollowed
  <2>3. QED
    BY <1>5, <2>2 DEF t

(* A rotation writes the address, the time stamp and two routes.           *)
LEMMA FollowRotated ==
  ASSUME NEW s \in Picture, NEW e \in IssuerEvent, Applicable(s, e),
         e.topic = "IssuerAddressRotated"
  PROVE  FollowIssuer(s, e) \in Picture /\ Follows(FollowIssuer(s, e), s, e)
<1> DEFINE i == e.issuer_id_hash
           r == [s.records[i] EXCEPT !.issuer_address = e.new_address,
                                     !.updated_at = e.updated_at]
           q == [s.route EXCEPT ![e.old_address] = NoIssuer, ![e.new_address] = i]
           t == FollowIssuer(s, e)
<1>1. /\ i \in IssuerId /\ e.updated_at \in Time
      /\ e.old_address \in Address /\ e.new_address \in Address
  BY DEF IssuerEvent, StatusTopics
<1>2. s.records[i] # NoRecord /\ s.records[i] \in IssuerRecord
  BY <1>1 DEF Applicable, About, Introduces, UpgradeTopics, Picture
<1>3. r \in IssuerRecord
  BY <1>1, <1>2 DEF IssuerRecord
<1>4. t = [s EXCEPT !.records = [s.records EXCEPT ![i] = r], !.route = q]
  BY <1>1, <1>2 DEF FollowIssuer, Picture, StatusTopics
<1>5. /\ t \in Picture /\ t.route = q /\ t.upgrade = s.upgrade
      /\ t.records[i] = r
      /\ \A j \in IssuerId : j # i => t.records[j] = s.records[j]
  <2>1. q \in [Address -> IssuerId \union {NoIssuer}]
    BY <1>1 DEF Picture
  <2> HIDE DEF i, r, q, t
  <2>2. QED
    BY <1>1, <1>3, <1>4, <2>1 DEF Picture
<1>6. ASSUME NEW f \in Fields
      PROVE  IF WritesField(e.topic, f)
             THEN FieldOf(r, f) = WrittenField(e, f)
             ELSE FieldOf(r, f) = FieldOf(s.records[i], f)
  BY <1>2 DEF WritesField, FieldOf, WrittenField, Fields, StatusTopics, IssuerRecord
<1>7. ASSUME NEW a \in Address
      PROVE  q[a] = IF WritesRoute(e, a) THEN WrittenRoute(e, a) ELSE s.route[a]
  BY <1>1 DEF WritesRoute, WrittenRoute, Picture
<1>8. QED
  <2> HIDE DEF i, r, q, t
  <2>1. e.issuer_id_hash = i
    BY DEF i
  <2>2. Follows(t, s, e)
    BY <1>1, <1>2, <1>3, <1>5, <1>6, <1>7, <2>1, IssuerEventFollowed
  <2>3. QED
    BY <1>5, <2>2 DEF t

(* The upgrade events write an approval, an upgrade the code as well.      *)
LEMMA FollowUpgraded ==
  ASSUME NEW s \in Picture, NEW e \in UpgradeEvent
  PROVE  Follow(s, e) \in Picture /\ Follows(Follow(s, e), s, e)
<1> DEFINE h == e.wasm_hash
           v == IF e.topic = "UpgradeAllowlisted" THEN e.new_contract_version ELSE 0
           u == FollowUpgrade(s.upgrade, e)
           t == Follow(s, e)
<1>1. /\ h \in WasmHash /\ v \in ContractVersions /\ h # DeployedWasm
      /\ e.topic \in UpgradeTopics
      /\ e.topic # "UpgradeRevoked" => e.new_contract_version \in ContractVersions
  BY UpgradeAssumption DEF UpgradeEvent, ContractVersions, UpgradeTopics
<1>2. /\ u \in UpgradeState
      /\ u.allowed = [s.upgrade.allowed EXCEPT ![h] = v]
      /\ IF e.topic = "ContractUpgraded"
         THEN u.wasm = h /\ u.version = e.new_contract_version
         ELSE u.wasm = s.upgrade.wasm /\ u.version = s.upgrade.version
  BY <1>1 DEF FollowUpgrade, UpgradeState, UpgradeTopics, Picture
<1>3. t = [s EXCEPT !.upgrade = u]
  BY <1>1 DEF Follow
<1>4. t \in Picture /\ t.upgrade = u /\ t.records = s.records /\ t.route = s.route
  BY <1>2, <1>3 DEF Picture
<1>5. ASSUME NEW x \in Location
      PROVE  Held(t, x) = IF Writes(e, x) THEN Written(e, x) ELSE Held(s, x)
  <2> HIDE DEF h, v, u, t
  <2>1. CASE \/ x \in [kind : {"field"}, issuer : IssuerId, field : Fields]
             \/ x \in [kind : {"route"}, address : Address]
    <3>1. ~ Writes(e, x)
      BY <1>1, <2>1 DEF Writes, WritesRoute, About, UpgradeTopics
    <3>2. Held(t, x) = Held(s, x)
      BY <1>4, <2>1 DEF Held
    <3>3. QED
      BY <3>1, <3>2
  <2>2. CASE x \in [kind : {"approval"}, hash : WasmHash]
    <3>1. Writes(e, x) <=> x.hash = h
      BY <1>1, <2>2 DEF Writes, h
    <3>2. Held(t, x) = u.allowed[x.hash] /\ Held(s, x) = s.upgrade.allowed[x.hash]
      BY <1>4, <2>2 DEF Held
    <3>3. Written(e, x) = v
      BY <2>2 DEF Written, v
    <3>4. s.upgrade.allowed \in [WasmHash -> ContractVersions]
      BY DEF Picture, UpgradeState
    <3>5. QED
      BY <1>1, <1>2, <2>2, <3>1, <3>2, <3>3, <3>4
  <2>3. CASE x \in [kind : {"code"}]
    <3>1. Writes(e, x) <=> e.topic = "ContractUpgraded"
      BY <2>3 DEF Writes
    <3>2. Written(e, x) = {<<h, e.new_contract_version>>}
      BY <2>3 DEF Written, h
    <3>3. /\ Held(t, x) = IF u.wasm = DeployedWasm THEN {} ELSE {<<u.wasm, u.version>>}
          /\ Held(s, x) = IF s.upgrade.wasm = DeployedWasm THEN {}
                          ELSE {<<s.upgrade.wasm, s.upgrade.version>>}
      BY <1>4, <2>3 DEF Held
    <3>4. QED
      BY <1>1, <1>2, <3>1, <3>2, <3>3
  <2>4. QED
    BY <2>1, <2>2, <2>3 DEF Location
<1>6. QED
  BY <1>4, <1>5 DEF Follows

(* Following any event writes its locations and leaves the others alone.   *)
LEMMA FollowWrites ==
  ASSUME NEW s \in Picture, NEW e \in Event, Applicable(s, e)
  PROVE  Follow(s, e) \in Picture /\ Follows(Follow(s, e), s, e)
<1>1. CASE e \in UpgradeEvent
  BY <1>1, FollowUpgraded
<1>2. CASE e \in IssuerEvent
  <2>1. e.topic \notin UpgradeTopics
    BY <1>2 DEF IssuerEvent, UpgradeTopics, StatusTopics
  <2>2. Follow(s, e) = FollowIssuer(s, e)
    BY <2>1 DEF Follow
  <2>3. \/ e.topic = "IssuerRegistered" \/ e.topic = "IssuerMetadataUpdated"
        \/ e.topic \in StatusTopics \/ e.topic = "IssuerAddressRotated"
    BY <1>2 DEF IssuerEvent
  <2>4. QED
    BY <1>2, <2>2, <2>3, FollowRegistered, FollowUpdated, FollowStatus, FollowRotated
<1>3. QED
  BY <1>1, <1>2 DEF Event

(***************************************************************************)
(* The calls of the contract                                               *)
(***************************************************************************)

(* A call that publishes e: the contract moves as an indexer that follows  *)
(* e would.                                                                *)
Mirrored(e) ==
  /\ Publish(e) /\ e \in Event
  /\ Applicable(Contract, e)
  /\ Contract' = Follow(Contract, e)
  /\ admin # NoAddress /\ UNCHANGED admin
  /\ \A i \in IssuerId : Introduces(e, i) => ~ Registered(i)

(* register_issuer                                                         *)
LEMMA RegistrationMirrored ==
  ASSUME TypeOK, NEW caller \in Address, NEW i \in IssuerId, NEW a \in Address,
         NEW m \in Metadata, register_issuer(caller, i, a, m),
         Publish(IssuerRegistered(i, a, m))
  PROVE  \E e : Mirrored(e)
<1> DEFINE e == IssuerRegistered(i, a, m)
<1>1. /\ admin # NoAddress /\ ~ Registered(i)
      /\ issuers' = [issuers EXCEPT ![i] = NewIssuer(a, m)]
      /\ addressIssuer' = [addressIssuer EXCEPT ![a] = i]
      /\ UNCHANGED <<admin, upgrade>>
  BY DEF register_issuer, RegisterIssuerResult, Ok, AuthAbort
<1>2. e \in Event
  BY DEF TypeOK, IssuerRegistered, Event, IssuerEvent
<1>3. e.topic = "IssuerRegistered" /\ e.issuer_id_hash = i
  BY DEF IssuerRegistered
<1>4. Contract' = Follow(Contract, e)
  BY <1>1 DEF Contract, Follow, FollowIssuer, IssuerRegistered, UpgradeTopics,
              NewIssuer
<1>5. Mirrored(e)
  BY <1>1, <1>2, <1>3, <1>4 DEF Mirrored, Applicable, About, Introduces
<1>6. QED
  BY <1>5

(* An event about a record that is there, other than its registration.     *)
LEMMA AboutRegistered ==
  ASSUME NEW i \in IssuerId, Registered(i), NEW e,
         e.topic # "IssuerRegistered", e.issuer_id_hash = i
  PROVE  Applicable(Contract, e) /\ \A j \in IssuerId : ~ Introduces(e, j)
BY DEF Applicable, About, Introduces, Contract, Registered

(* update_issuer                                                           *)
LEMMA UpdateMirrored ==
  ASSUME TypeOK, NEW caller \in Address, NEW i \in IssuerId,
         NEW m \in Metadata, update_issuer(caller, i, m),
         Publish(IssuerMetadataUpdated(i, m))
  PROVE  \E e : Mirrored(e)
<1> DEFINE e == IssuerMetadataUpdated(i, m)
<1>1. /\ admin # NoAddress /\ Registered(i)
      /\ issuers' = [issuers EXCEPT ![i].metadata_hash = m, ![i].updated_at = now]
      /\ UNCHANGED <<admin, addressIssuer, upgrade>>
  BY DEF update_issuer, UpdateIssuerResult, Ok, AuthAbort
<1>2. e \in Event
  BY DEF TypeOK, IssuerMetadataUpdated, Event, IssuerEvent
<1>3. e.topic = "IssuerMetadataUpdated" /\ e.issuer_id_hash = i
  BY DEF IssuerMetadataUpdated
<1>4. Contract' = Follow(Contract, e)
  BY <1>1 DEF Contract, Follow, FollowIssuer, IssuerMetadataUpdated, UpgradeTopics
<1>5. Mirrored(e)
  BY <1>1, <1>2, <1>3, <1>4, AboutRegistered DEF Mirrored
<1>6. QED
  BY <1>5

(* suspend_issuer, reactivate_issuer and revoke_issuer                     *)
LEMMA StatusMirrored ==
  ASSUME TypeOK, NEW caller \in Address, NEW i \in IssuerId,
         NEW s \in IssuerStatus, set_status(caller, i, s),
         Publish(StatusEvent(i, s))
  PROVE  \E e : Mirrored(e)
<1> DEFINE e == StatusEvent(i, s)
<1>1. /\ admin # NoAddress /\ Registered(i)
      /\ issuers' = [issuers EXCEPT ![i].status = s, ![i].updated_at = now]
      /\ UNCHANGED <<admin, addressIssuer, upgrade>>
  BY DEF set_status, SetStatusResult, Ok, AuthAbort
<1>2. /\ e = [topic |-> e.topic, issuer_id_hash |-> i, updated_at |-> now]
      /\ \/ s = "Active" /\ e.topic = "IssuerReactivated"
         \/ s = "Suspended" /\ e.topic = "IssuerSuspended"
         \/ s = "Revoked" /\ e.topic = "IssuerRevoked"
  BY DEF StatusEvent, IssuerStatus
<1> HIDE DEF e
<1>3. e.topic \in StatusTopics /\ e.issuer_id_hash = i /\ e.updated_at = now
  BY <1>2 DEF StatusTopics
<1>4. e \in Event
  BY <1>2, <1>3 DEF TypeOK, Event, IssuerEvent
<1>5. Contract' = Follow(Contract, e)
  BY <1>1, <1>2, <1>3 DEF Contract, Follow, FollowIssuer, UpgradeTopics
<1>6. e.topic # "IssuerRegistered"
  BY <1>3 DEF StatusTopics
<1>7. Publish(e)
  BY DEF e
<1>8. Mirrored(e)
  BY <1>1, <1>3, <1>4, <1>5, <1>6, <1>7, AboutRegistered DEF Mirrored
<1>9. QED
  BY <1>8

(* rotate_issuer_address                                                   *)
LEMMA RotationMirrored ==
  ASSUME TypeOK, NEW caller \in Address, NEW i \in IssuerId,
         NEW a \in Address, rotate_issuer_address(caller, i, a),
         Publish(IssuerAddressRotated(i, a))
  PROVE  \E e : Mirrored(e)
<1> DEFINE e == IssuerAddressRotated(i, a)
<1>1. /\ admin # NoAddress /\ Registered(i)
      /\ issuers' = [issuers EXCEPT ![i].issuer_address = a, ![i].updated_at = now]
      /\ addressIssuer' = IndexAfterRotation(i, a)
      /\ UNCHANGED <<admin, upgrade>>
  BY DEF rotate_issuer_address, RotateIssuerResult, Ok, AuthAbort
<1>2. issuers[i].issuer_address \in Address
  BY <1>1, RecordTyped DEF IssuerRecord
<1>3. e \in Event
  BY <1>2 DEF TypeOK, IssuerAddressRotated, Event, IssuerEvent
<1>4. e.topic = "IssuerAddressRotated" /\ e.issuer_id_hash = i
  BY DEF IssuerAddressRotated
<1>5. Contract' = Follow(Contract, e)
  BY <1>1 DEF Contract, Follow, FollowIssuer, IssuerAddressRotated, UpgradeTopics,
              IndexAfterRotation
<1>6. Mirrored(e)
  BY <1>1, <1>3, <1>4, <1>5, AboutRegistered DEF Mirrored
<1>7. QED
  BY <1>6

(* approve_upgrade, revoke_upgrade and upgrade_contract                    *)
LEMMA UpgradeMirrored ==
  ASSUME TypeOK, NEW caller \in Address, NEW h \in WasmHash,
         \/ \E v \in ContractVersions : /\ approve_upgrade(caller, h, v)
                                        /\ Publish(UpgradeAllowlisted(h, v))
         \/ revoke_upgrade(caller, h) /\ Publish(UpgradeRevoked(h))
         \/ upgrade_contract(caller, h) /\ Publish(ContractUpgraded(h))
  PROVE  \E e : Mirrored(e)
<1>1. PICK e \in UpgradeEvent :
        /\ Publish(e) /\ upgrade' = FollowUpgrade(upgrade, e) /\ admin # NoAddress
        /\ UNCHANGED <<admin, issuers, addressIssuer>>
  <2>1. ASSUME NEW v \in ContractVersions, approve_upgrade(caller, h, v),
               Publish(UpgradeAllowlisted(h, v))
        PROVE  \E e \in UpgradeEvent :
                 /\ Publish(e) /\ upgrade' = FollowUpgrade(upgrade, e)
                 /\ admin # NoAddress /\ UNCHANGED <<admin, issuers, addressIssuer>>
    <3>1. UpgradeAllowlisted(h, v) \in UpgradeEvent
      BY DEF UpgradeAllowlisted, UpgradeEvent
    <3>2. upgrade' = FollowUpgrade(upgrade, UpgradeAllowlisted(h, v))
      BY <2>1 DEF approve_upgrade, ApproveUpgrade, FollowUpgrade, UpgradeAllowlisted
    <3>3. QED
      BY <2>1, <3>1, <3>2
      DEF approve_upgrade, ApproveUpgrade, ApproveUpgradeResult, Ok, AuthAbort
  <2>2. ASSUME revoke_upgrade(caller, h), Publish(UpgradeRevoked(h))
        PROVE  \E e \in UpgradeEvent :
                 /\ Publish(e) /\ upgrade' = FollowUpgrade(upgrade, e)
                 /\ admin # NoAddress /\ UNCHANGED <<admin, issuers, addressIssuer>>
    <3>1. UpgradeRevoked(h) \in UpgradeEvent
      BY DEF UpgradeRevoked, UpgradeEvent
    <3>2. upgrade' = FollowUpgrade(upgrade, UpgradeRevoked(h))
      BY <2>2 DEF revoke_upgrade, RevokeUpgrade, FollowUpgrade, UpgradeRevoked
    <3>3. QED
      BY <2>2, <3>1, <3>2
      DEF revoke_upgrade, RevokeUpgrade, RevokeUpgradeResult, Ok, AuthAbort
  <2>3. ASSUME upgrade_contract(caller, h), Publish(ContractUpgraded(h))
        PROVE  \E e \in UpgradeEvent :
                 /\ Publish(e) /\ upgrade' = FollowUpgrade(upgrade, e)
                 /\ admin # NoAddress /\ UNCHANGED <<admin, issuers, addressIssuer>>
    <3>1. ContractUpgraded(h) \in UpgradeEvent
      BY DEF ContractUpgraded, UpgradeEvent, TypeOK, UpgradeState
    <3>2. upgrade' = FollowUpgrade(upgrade, ContractUpgraded(h))
      BY <2>3
      DEF upgrade_contract, UpgradeContract, Installed, FollowUpgrade, ContractUpgraded
    <3>3. QED
      BY <2>3, <3>1, <3>2
      DEF upgrade_contract, UpgradeContract, UpgradeContractResult, Ok, AuthAbort
  <2>4. QED
    BY <2>1, <2>2, <2>3
<1>2. e.topic \in UpgradeTopics
  BY DEF UpgradeEvent, UpgradeTopics
<1>3. Contract' = Follow(Contract, e)
  BY <1>1, <1>2 DEF Contract, Follow
<1>4. Applicable(Contract, e) /\ \A i \in IssuerId : ~ Introduces(e, i)
  BY <1>2 DEF Applicable, About, Introduces, UpgradeTopics
<1>5. Mirrored(e)
  BY <1>1, <1>3, <1>4 DEF Mirrored, Event
<1>6. QED
  BY <1>5

(* Every call that publishes something is mirrored by it.                  *)
LEMMA CallsMirrored ==
  ASSUME TypeOK, NEW caller \in Address, PublishingCall(caller)
  PROVE  \E e : Mirrored(e)
BY RegistrationMirrored, UpdateMirrored, StatusMirrored, RotationMirrored,
   UpgradeMirrored DEF PublishingCall

(***************************************************************************)
(* The steps preserve the invariant                                        *)
(***************************************************************************)

(* What the contract holds is a picture.                                   *)
LEMMA ContractTyped == ASSUME TypeOK PROVE Contract \in Picture
BY DEF TypeOK, Contract, Picture

(* Registrations and events about an issuer leave it registered.           *)
LEMMA MirroredRegisters ==
  ASSUME TypeOK, NEW e, Mirrored(e), NEW i \in IssuerId,
         Registered(i) \/ About(e, i)
  PROVE  Registered(i)'
<1> DEFINE x == [kind |-> "field", issuer |-> i, field |-> "created_at"]
<1>1. x \in Location
  BY DEF Location, Fields
<1>2. Held(Contract', x) = IF Writes(e, x) THEN Written(e, x) ELSE Held(Contract, x)
  BY <1>1, ContractTyped, FollowWrites DEF Mirrored, Follows
<1>3. Registered(i) => Held(Contract, x) # {}
  BY DEF Held, Contract, Registered
<1>4. Held(Contract', x) # {} => Registered(i)'
  BY DEF Held, Contract, Registered
<1>5. Writes(e, x) => Written(e, x) # {}
  BY DEF Written
<1>6. About(e, i) /\ ~ Introduces(e, i) => Registered(i)
  BY DEF Mirrored, Applicable, Contract, Registered
<1>7. Introduces(e, i) => Writes(e, x)
  BY DEF Introduces, Writes, About, WritesField, UpgradeTopics
<1>8. QED
  BY <1>2, <1>3, <1>4, <1>5, <1>6, <1>7

(* An event is published.                                                  *)
LEMMA PublishKeeps ==
  ASSUME TypeOK, IndexerInv, NEW e, Mirrored(e)
  PROVE  IndexerInv'
<1>1. /\ pending' = Append(pending, e) /\ e \in Event
      /\ seen' = seen /\ view' = view
  BY DEF Mirrored, Publish
<1>2. /\ pending \in Seq(Event) /\ Len(pending) \in Nat
      /\ pending' \in Seq(Event) /\ Len(pending') = Len(pending) + 1
      /\ pending'[Len(pending) + 1] = e
      /\ \A j \in 1 .. Len(pending) : pending'[j] = pending[j]
  BY <1>1 DEF IndexerInv, StreamTyped
<1>3. ASSUME NEW x \in Location
      PROVE  Held(Contract', x) =
               IF Writes(e, x) THEN Written(e, x) ELSE Held(Contract, x)
  BY ContractTyped, FollowWrites DEF Mirrored, Follows
<1>4. CodeNeedsAdmin'
  BY DEF Mirrored, CodeNeedsAdmin
<1>5. StreamTyped'
  BY <1>1, <1>2 DEF IndexerInv, StreamTyped
<1>6. Introduced'
  <2> SUFFICES ASSUME NEW j \in 1 .. Len(pending'), NEW i \in IssuerId,
                      About(pending'[j], i)
               PROVE  /\ Registered(i)'
                      /\ \A k \in 1 .. Len(pending') :
                           Introduces(pending'[k], i) => k <= j
    BY DEF Introduced
  <2>1. CASE j = Len(pending) + 1
    BY <1>2, <2>1, MirroredRegisters
  <2>2. CASE j \in 1 .. Len(pending)
    <3>1. Registered(i) /\ \A k \in 1 .. Len(pending) :
                              Introduces(pending[k], i) => k <= j
      BY <1>2, <2>2 DEF IndexerInv, Introduced
    <3>2. ~ Introduces(e, i)
      BY <3>1 DEF Mirrored
    <3>3. \A k \in 1 .. Len(pending') : k \in 1 .. Len(pending) \/ k = Len(pending) + 1
      BY <1>2
    <3>4. QED
      BY <1>2, <3>1, <3>2, <3>3, MirroredRegisters
  <2>3. QED
    BY <1>2, <2>1, <2>2
<1>7. LastWord'
  <2> SUFFICES ASSUME NEW x \in Location, NEW j \in 1 .. Len(pending'),
                      Writes(pending'[j], x),
                      \A k \in 1 .. Len(pending') : k > j => ~ Writes(pending'[k], x)
               PROVE  Written(pending'[j], x) = Held(Contract', x)
    BY DEF LastWord
  <2>1. CASE j = Len(pending) + 1
    BY <1>2, <1>3, <2>1
  <2>2. CASE j \in 1 .. Len(pending)
    <3>1. ~ Writes(e, x)
      BY <1>2, <2>2
    <3>2. \A k \in 1 .. Len(pending) : k > j => ~ Writes(pending[k], x)
      BY <1>2
    <3>3. Written(pending[j], x) = Held(Contract, x)
      BY <1>2, <2>2, <3>2 DEF IndexerInv, LastWord
    <3>4. QED
      BY <1>2, <1>3, <2>2, <3>1, <3>3
  <2>3. QED
    BY <1>2, <2>1, <2>2
<1>8. Repairable'
  <2> SUFFICES ASSUME NEW x \in Location
               PROVE  \/ Held(view', x) = Held(Contract', x)
                      \/ \E j \in 1 .. Len(pending') :
                           j > seen' /\ Writes(pending'[j], x)
    BY DEF Repairable
  <2>1. CASE Writes(e, x)
    <3>1. Len(pending) + 1 \in 1 .. Len(pending') /\ Len(pending) + 1 > seen'
      BY <1>1, <1>2 DEF IndexerInv, StreamTyped
    <3>2. QED
      BY <1>2, <2>1, <3>1
  <2>2. CASE ~ Writes(e, x)
    <3>1. \/ Held(view, x) = Held(Contract, x)
          \/ \E j \in 1 .. Len(pending) : j > seen /\ Writes(pending[j], x)
      BY DEF IndexerInv, Repairable
    <3>2. \A j \in 1 .. Len(pending) : j \in 1 .. Len(pending')
      BY <1>2
    <3>3. QED
      BY <1>1, <1>2, <1>3, <2>2, <3>1, <3>2
  <2>3. QED
    BY <2>1, <2>2
<1>9. QED
  BY <1>4, <1>5, <1>6, <1>7, <1>8 DEF IndexerInv

(* The next event always finds the record it is about: if the view has     *)
(* none, a registration is still to come, and it would come before.        *)
LEMMA NextApplicable ==
  ASSUME TypeOK, IndexerInv, Behind
  PROVE  NextEvent \in Event /\ Applicable(view, NextEvent)
<1>1. seen + 1 \in 1 .. Len(pending) /\ NextEvent = pending[seen + 1] /\ seen \in Nat
  BY DEF IndexerInv, StreamTyped, Behind, NextEvent
<1>2. NextEvent \in Event
  BY <1>1 DEF IndexerInv, StreamTyped
<1>3. ASSUME NEW i \in IssuerId, About(NextEvent, i), ~ Introduces(NextEvent, i),
             view.records[i] = NoRecord
      PROVE  FALSE
  <2> DEFINE x == [kind |-> "field", issuer |-> i, field |-> "created_at"]
  <2>1. x \in Location
    BY DEF Location, Fields
  <2>2. Registered(i) /\ \A k \in 1 .. Len(pending) :
                            Introduces(pending[k], i) => k <= seen + 1
    BY <1>1, <1>3 DEF IndexerInv, Introduced
  <2>3. Held(view, x) = {} /\ Held(Contract, x) # {}
    BY <1>3, <2>2 DEF Held, Contract, Registered
  <2>4. PICK j \in 1 .. Len(pending) : j > seen /\ Writes(pending[j], x)
    BY <2>1, <2>3 DEF IndexerInv, Repairable
  <2>5. Introduces(pending[j], i)
    BY <2>4 DEF Writes, WritesField, About, Introduces
  <2>6. j = seen + 1
    BY <1>1, <2>2, <2>4, <2>5
  <2>7. QED
    BY <1>1, <1>3, <2>5, <2>6
<1>4. QED
  BY <1>2, <1>3 DEF Applicable

(* An event is delivered, for the first time or again.                     *)
LEMMA DeliverKeeps ==
  ASSUME TypeOK, IndexerInv, Deliver(Follow(view, NextEvent)),
         UNCHANGED registryVars
  PROVE  IndexerInv'
<1> DEFINE e == NextEvent
<1>1. /\ Behind /\ view' = Follow(view, e) /\ seen' = seen + 1 /\ pending' = pending
      /\ Contract' = Contract /\ UNCHANGED <<admin, upgrade, issuers>>
  BY DEF Deliver, registryVars, Contract
<1>2. /\ seen + 1 \in 1 .. Len(pending) /\ e = pending[seen + 1] /\ seen \in Nat
      /\ Len(pending) \in Nat
  BY <1>1 DEF IndexerInv, StreamTyped, Behind, NextEvent
<1>3. view' \in Picture /\ Follows(view', view, e)
  BY <1>1, NextApplicable, FollowWrites DEF IndexerInv, StreamTyped
<1>4. CodeNeedsAdmin' /\ Introduced' /\ LastWord'
  BY <1>1 DEF IndexerInv, CodeNeedsAdmin, Introduced, LastWord, Registered
<1>5. StreamTyped'
  BY <1>1, <1>2, <1>3 DEF IndexerInv, StreamTyped
<1>6. Repairable'
  <2> SUFFICES ASSUME NEW x \in Location,
                      \A j \in 1 .. Len(pending) :
                        j > seen + 1 => ~ Writes(pending[j], x)
               PROVE  Held(view', x) = Held(Contract, x)
    BY <1>1 DEF Repairable
  <2>1. CASE Writes(e, x)
    <3>1. Written(e, x) = Held(Contract, x)
      BY <1>2, <2>1 DEF IndexerInv, LastWord
    <3>2. QED
      BY <1>3, <2>1, <3>1 DEF Follows
  <2>2. CASE ~ Writes(e, x)
    <3>1. \A j \in 1 .. Len(pending) : j > seen => ~ Writes(pending[j], x)
      <4> SUFFICES ASSUME NEW j \in 1 .. Len(pending), j > seen
                   PROVE  ~ Writes(pending[j], x)
        OBVIOUS
      <4>1. j = seen + 1 \/ j > seen + 1
        BY <1>2
      <4>2. QED
        BY <1>2, <2>2, <4>1
    <3>2. Held(view, x) = Held(Contract, x)
      BY <3>1 DEF IndexerInv, Repairable
    <3>3. QED
      BY <1>3, <2>2, <3>2 DEF Follows
  <2>3. QED
    BY <2>1, <2>2
<1>7. QED
  BY <1>4, <1>5, <1>6 DEF IndexerInv

(* A crash: the indexer starts again from the saved position.              *)
LEMMA RestartKeeps ==
  ASSUME IndexerInv, Restart, UNCHANGED registryVars
  PROVE  IndexerInv'
<1>1. /\ seen' = 0 /\ pending' = pending /\ view' = view /\ Len(pending) \in Nat
      /\ seen \in Nat
      /\ Contract' = Contract /\ UNCHANGED <<admin, upgrade, issuers>>
  BY DEF Restart, registryVars, Contract, IndexerInv, StreamTyped
<1>2. CodeNeedsAdmin' /\ Introduced' /\ LastWord'
  BY <1>1 DEF IndexerInv, CodeNeedsAdmin, Introduced, LastWord, Registered
<1>3. StreamTyped'
  BY <1>1 DEF IndexerInv, StreamTyped
<1>4. Repairable'
  BY <1>1 DEF IndexerInv, Repairable
<1>5. QED
  BY <1>2, <1>3, <1>4 DEF IndexerInv

(* The position is saved: what lies before it is never delivered again.    *)
LEMMA SaveKeeps ==
  ASSUME IndexerInv, SavePosition, UNCHANGED registryVars
  PROVE  IndexerInv'
<1>1. /\ seen' = 0 /\ view' = view /\ Contract' = Contract
      /\ UNCHANGED <<admin, upgrade, issuers>>
      /\ seen \in Nat /\ Len(pending) \in Nat /\ seen <= Len(pending)
      /\ pending \in Seq(Event) /\ seen > 0
      /\ pending' = SubSeq(pending, seen + 1, Len(pending))
  BY DEF SavePosition, registryVars, Contract, IndexerInv, StreamTyped
<1>2. /\ pending' \in Seq(Event) /\ Len(pending') = Len(pending) - seen
      /\ \A j \in 1 .. Len(pending') :
           j + seen \in 1 .. Len(pending) /\ pending'[j] = pending[j + seen]
      /\ \A j \in 1 .. Len(pending) :
           j > seen => j - seen \in 1 .. Len(pending') /\ pending'[j - seen] = pending[j]
  BY <1>1
<1>3. CodeNeedsAdmin'
  BY <1>1 DEF IndexerInv, CodeNeedsAdmin
<1>4. StreamTyped'
  BY <1>1, <1>2 DEF IndexerInv, StreamTyped
<1>5. Introduced'
  <2> SUFFICES ASSUME NEW j \in 1 .. Len(pending'), NEW i \in IssuerId,
                      About(pending'[j], i)
               PROVE  /\ Registered(i)'
                      /\ \A k \in 1 .. Len(pending') :
                           Introduces(pending'[k], i) => k <= j
    BY DEF Introduced
  <2>1. Registered(i) /\ \A k \in 1 .. Len(pending) :
                            Introduces(pending[k], i) => k <= j + seen
    BY <1>2 DEF IndexerInv, Introduced
  <2>2. ASSUME NEW k \in 1 .. Len(pending'), Introduces(pending'[k], i)
        PROVE  k <= j
    <3>1. k + seen <= j + seen
      BY <1>2, <2>1, <2>2
    <3>2. QED
      BY <1>1, <1>2, <3>1
  <2>3. QED
    BY <1>1, <2>1, <2>2 DEF Registered
<1>6. LastWord'
  <2> SUFFICES ASSUME NEW x \in Location, NEW j \in 1 .. Len(pending'),
                      Writes(pending'[j], x),
                      \A k \in 1 .. Len(pending') : k > j => ~ Writes(pending'[k], x)
               PROVE  Written(pending'[j], x) = Held(Contract', x)
    BY DEF LastWord
  <2>1. ASSUME NEW k \in 1 .. Len(pending), k > j + seen
        PROVE  ~ Writes(pending[k], x)
    <3>1. k > seen /\ k - seen > j
      BY <1>1, <1>2, <2>1
    <3>2. QED
      BY <1>2, <3>1
  <2>2. j + seen \in 1 .. Len(pending) /\ pending'[j] = pending[j + seen]
    BY <1>2
  <2>3. Written(pending[j + seen], x) = Held(Contract, x)
    BY <2>1, <2>2 DEF IndexerInv, LastWord
  <2>4. QED
    BY <1>1, <2>2, <2>3
<1>7. Repairable'
  <2> SUFFICES ASSUME NEW x \in Location, Held(view, x) # Held(Contract, x)
               PROVE  \E j \in 1 .. Len(pending') : j > 0 /\ Writes(pending'[j], x)
    BY <1>1 DEF Repairable
  <2>1. PICK j \in 1 .. Len(pending) : j > seen /\ Writes(pending[j], x)
    BY DEF IndexerInv, Repairable
  <2>2. j - seen \in 1 .. Len(pending') /\ Writes(pending'[j - seen], x)
    BY <1>2, <2>1
  <2>3. j - seen > 0
    BY <1>1, <2>1
  <2>4. QED
    BY <2>2, <2>3
<1>8. QED
  BY <1>3, <1>4, <1>5, <1>6, <1>7 DEF IndexerInv

(* Nothing is published: initialize, a ledger that closes, no step at all. *)
(* initialize announces the first version nowhere, and until an upgrade no *)
(* indexer is asked for it.                                                *)
LEMMA SilentKeeps ==
  ASSUME TypeOK, IndexerInv, Silent,
         UNCHANGED <<issuers, addressIssuer>>,
         \/ UNCHANGED <<admin, upgrade>>
         \/ admin = NoAddress /\ upgrade' = FirstVersion
  PROVE  IndexerInv'
<1>1. pending' = pending /\ seen' = seen /\ view' = view
  BY DEF Silent, streamVars
<1>2. /\ upgrade'.wasm = upgrade.wasm /\ upgrade'.allowed = upgrade.allowed
      /\ upgrade.wasm # DeployedWasm
           => admin' = admin /\ upgrade'.version = upgrade.version
  BY DEF IndexerInv, CodeNeedsAdmin, TypeOK, UpgradeState, FirstVersion
<1>3. ASSUME NEW x \in Location
      PROVE  Held(Contract', x) = Held(Contract, x)
  <2>1. /\ Contract'.records = Contract.records /\ Contract'.route = Contract.route
        /\ Contract'.upgrade = upgrade' /\ Contract.upgrade = upgrade
    BY DEF Contract
  <2>2. QED
    BY <1>2, <2>1 DEF Held
<1>4. CodeNeedsAdmin'
  BY <1>2 DEF IndexerInv, CodeNeedsAdmin
<1>5. StreamTyped' /\ Introduced' /\ LastWord' /\ Repairable'
  BY <1>1, <1>3
  DEF IndexerInv, StreamTyped, Introduced, Registered, LastWord, Repairable
<1>6. QED
  BY <1>4, <1>5 DEF IndexerInv

(* With nothing left to deliver there is nothing left to repair.           *)
LEMMA CaughtUpIsExact ==
  ASSUME TypeOK, IndexerInv
  PROVE  ViewIsExact
<1> SUFFICES ASSUME CaughtUp
             PROVE  /\ view.records = issuers /\ view.route = addressIssuer
                    /\ KnowsUpgrades(view.upgrade)
  BY DEF ViewIsExact
<1>1. ASSUME NEW x \in Location PROVE Held(view, x) = Held(Contract, x)
  <2>1. \A j \in 1 .. Len(pending) : ~ (j > seen)
    BY DEF CaughtUp, Behind, IndexerInv, StreamTyped
  <2>2. QED
    BY <2>1 DEF IndexerInv, Repairable
<1>2. view \in Picture /\ Contract \in Picture
  BY ContractTyped DEF IndexerInv, StreamTyped
<1>3. ASSUME NEW i \in IssuerId PROVE view.records[i] = issuers[i]
  <2> DEFINE x(f) == [kind |-> "field", issuer |-> i, field |-> f]
             Field(r, f) == IF r = NoRecord THEN {} ELSE {FieldOf(r, f)}
  <2>1. ASSUME NEW f \in Fields
        PROVE  Field(view.records[i], f) = Field(issuers[i], f)
    <3>1. x(f) \in Location
      BY DEF Location
    <3>2. /\ Held(view, x(f)) = Field(view.records[i], f)
          /\ Held(Contract, x(f)) = Field(issuers[i], f)
      BY DEF Held, Contract
    <3>3. QED
      BY <1>1, <3>1, <3>2
  <2>2. CASE issuers[i] = NoRecord
    <3>1. Field(view.records[i], "status") = {}
      BY <2>1, <2>2 DEF Fields
    <3>2. QED
      BY <2>2, <3>1
  <2>3. CASE issuers[i] # NoRecord
    <3>1. view.records[i] # NoRecord
      BY <2>1, <2>3 DEF Fields
    <3>2. view.records[i] \in IssuerRecord /\ issuers[i] \in IssuerRecord
      BY <1>2, <2>3, <3>1, RecordTyped DEF Picture, Registered
    <3>3. ASSUME NEW f \in Fields
          PROVE  FieldOf(view.records[i], f) = FieldOf(issuers[i], f)
      BY <2>1, <2>3, <3>1
    <3>4. QED
      BY <3>2, <3>3 DEF Fields, FieldOf, IssuerRecord
  <2>4. QED
    BY <2>2, <2>3
<1>4. view.records = issuers
  BY <1>2, <1>3 DEF Picture, TypeOK
<1>5. ASSUME NEW a \in Address PROVE view.route[a] = addressIssuer[a]
  <2> DEFINE x == [kind |-> "route", address |-> a]
  <2>1. x \in Location
    BY DEF Location
  <2>2. Held(view, x) = view.route[a] /\ Held(Contract, x) = addressIssuer[a]
    BY DEF Held, Contract
  <2>3. QED
    BY <1>1, <2>1, <2>2
<1>6. view.route = addressIssuer
  BY <1>2, <1>5 DEF Picture, TypeOK
<1>7. ASSUME NEW h \in WasmHash PROVE view.upgrade.allowed[h] = upgrade.allowed[h]
  <2> DEFINE x == [kind |-> "approval", hash |-> h]
  <2>1. x \in Location
    BY DEF Location
  <2>2. /\ Held(view, x) = view.upgrade.allowed[h]
        /\ Held(Contract, x) = upgrade.allowed[h]
    BY DEF Held, Contract
  <2>3. QED
    BY <1>1, <2>1, <2>2
<1>8. view.upgrade.allowed = upgrade.allowed
  BY <1>2, <1>7 DEF Picture, TypeOK, UpgradeState
<1>9. /\ view.upgrade.wasm = upgrade.wasm
      /\ view.upgrade.wasm # DeployedWasm => view.upgrade.version = upgrade.version
  <2> DEFINE x == [kind |-> "code"]
             Code(u) == IF u.wasm = DeployedWasm THEN {} ELSE {<<u.wasm, u.version>>}
  <2>1. x \in Location
    BY DEF Location
  <2>2. Held(view, x) = Code(view.upgrade) /\ Held(Contract, x) = Code(upgrade)
    BY DEF Held, Contract
  <2>3. Code(view.upgrade) = Code(upgrade)
    BY <1>1, <2>1, <2>2
  <2>4. CASE upgrade.wasm = DeployedWasm
    BY <2>3, <2>4
  <2>5. CASE upgrade.wasm # DeployedWasm
    <3>1. /\ view.upgrade.wasm # DeployedWasm
          /\ <<view.upgrade.wasm, view.upgrade.version>>
               = <<upgrade.wasm, upgrade.version>>
      BY <2>3, <2>5
    <3>2. QED
      BY <3>1
  <2>6. QED
    BY <2>4, <2>5
<1>10. QED
  BY <1>4, <1>6, <1>8, <1>9 DEF KnowsUpgrades

(* Each step of the indexer's world is a step of the contract, or none.    *)
LEMMA EventsStepIsRegistryStep ==
  ASSUME [IndexerNext]_indexerVars
  PROVE  /\ UNCHANGED contract
         /\ contract = "issuer-registry" => [Next]_registryVars
         /\ contract = "protocol-config" => [Config!Next]_(Config!configVars)
<1>1. CASE UNCHANGED indexerVars
  BY <1>1 DEF indexerVars, eventVars, registryVars, Config!configVars
<1>2. CASE IndexerNext
  <2>1. ASSUME EventsNext PROVE [Next]_registryVars
    <3>1. ASSUME NEW caller \in Address, PublishingCall(caller) \/ SilentCall(caller)
          PROVE  IssuerCall(caller) \/ UpgradeCall(caller)
      BY <3>1 DEF PublishingCall, SilentCall, IssuerCall, UpgradeCall, IssuerStatus,
                  suspend_issuer, reactivate_issuer, revoke_issuer
    <3>2. QED
      BY <2>1, <3>1 DEF EventsNext, Next
  <2>2. ASSUME Config!EventsNext PROVE [Config!Next]_(Config!configVars)
    <3>1. ASSUME NEW caller \in Address, Config!Call(caller)
          PROVE  Config!ConfigCall(caller) \/ Config!UpgradeCall(caller)
      BY <3>1 DEF Config!Call, Config!ConfigCall, Config!UpgradeCall,
                  Config!set_admin_event
    <3>2. QED
      BY <2>2, <3>1 DEF Config!EventsNext, Config!Next
  <2>3. QED
    BY <1>2, <2>1, <2>2 DEF IndexerNext
<1>3. QED
  BY <1>1, <1>2

(* Indexers watch and never disturb: with its indexer each contract        *)
(* behaves as its own specification says.                                  *)
THEOREM IndexersOnlyWatch ==
  IndexerSpec => /\ contract = "issuer-registry" => Spec
                 /\ contract = "protocol-config" => Config!Spec
<1>1. IndexerInit => Init /\ Config!Init
  BY DEF IndexerInit
<1>2. IndexerSpec /\ contract = "issuer-registry" => Spec
  <2>1. contract = "issuer-registry" /\ [IndexerNext]_indexerVars
          => [Next]_registryVars /\ (contract = "issuer-registry")'
    BY EventsStepIsRegistryStep
  <2>2. QED
    BY <1>1, <2>1, PTL DEF IndexerSpec, Spec
<1>3. IndexerSpec /\ contract = "protocol-config" => Config!Spec
  <2>1. contract = "protocol-config" /\ [IndexerNext]_indexerVars
          => [Config!Next]_(Config!configVars) /\ (contract = "protocol-config")'
    BY EventsStepIsRegistryStep
  <2>2. QED
    BY <1>1, <2>1, PTL DEF IndexerSpec, Config!Spec
<1>4. QED
  BY <1>2, <1>3

(* IndexerInv is inductive.                                                *)
LEMMA IndexerInvPreserved ==
  ASSUME TypeOK, IndexerInv, contract = "issuer-registry",
         [IndexerNext]_indexerVars
  PROVE  IndexerInv'
<1>1. CASE UNCHANGED indexerVars
  BY <1>1, SilentKeeps DEF indexerVars, eventVars, registryVars, Silent
<1>2. CASE EventsNext
  <2>1. ASSUME NEW caller \in Address, PublishingCall(caller)
        PROVE  IndexerInv'
    BY <2>1, CallsMirrored, PublishKeeps
  <2>2. ASSUME NEW caller \in Address, SilentCall(caller)
        PROVE  IndexerInv'
    BY <2>2, SilentKeeps DEF SilentCall, initialize, InitializeResult, Ok
  <2>3. CASE Tick /\ Silent
    BY <2>3, SilentKeeps DEF Tick
  <2>4. CASE Deliver(Follow(view, NextEvent)) /\ UNCHANGED registryVars
    BY <2>4, DeliverKeeps
  <2>5. CASE (SavePosition \/ Restart) /\ UNCHANGED registryVars
    BY <2>5, SaveKeeps, RestartKeeps
  <2>6. QED
    BY <1>2, <2>1, <2>2, <2>3, <2>4, <2>5 DEF EventsNext
<1>3. QED
  BY <1>1, <1>2 DEF IndexerNext

(* Events suffice: an indexer that is up with issuer-registry has exactly  *)
(* its records, routes and upgrades, for any number of crashes, replays,   *)
(* issuers and addresses and any backlog.                                  *)
THEOREM StateRebuilt == IndexerSpec => []IndexerRebuildsState
<1> DEFINE Here == contract = "issuer-registry"
<1>1. IndexerInit /\ Here => IndexerInv
  <2> SUFFICES ASSUME IndexerInit, Here PROVE IndexerInv
    OBVIOUS
  <2>1. /\ pending = <<>> /\ seen = 0 /\ view = EmptyView /\ Init
    BY DEF IndexerInit, StreamInit
  <2>2. /\ upgrade = NoUpgrades /\ issuers = [i \in IssuerId |-> NoRecord]
        /\ addressIssuer = [a \in Address |-> NoIssuer]
    BY <2>1 DEF Init, UpgradeInit, NoUpgrades
  <2>3. view = Contract
    BY <2>1, <2>2 DEF EmptyView, Contract
  <2>4. view \in Picture
    BY <2>1, UpgradeAssumption
    DEF EmptyView, Picture, NoUpgrades, UpgradeState, ContractVersions
  <2>5. StreamTyped /\ Introduced /\ LastWord /\ Repairable
    BY <2>1, <2>3, <2>4 DEF StreamTyped, Introduced, LastWord, Repairable
  <2>6. CodeNeedsAdmin
    BY <2>2 DEF CodeNeedsAdmin, NoUpgrades
  <2>7. QED
    BY <2>5, <2>6 DEF IndexerInv
<1>2. TypeOK /\ IndexerInv /\ Here /\ [IndexerNext]_indexerVars => IndexerInv' /\ Here'
  BY IndexerInvPreserved, EventsStepIsRegistryStep
<1>3. ~ Here /\ [IndexerNext]_indexerVars => ~ Here'
  BY EventsStepIsRegistryStep
<1>4. TypeOK /\ IndexerInv => IndexerRebuildsState
  BY CaughtUpIsExact DEF IndexerRebuildsState
<1>5. ~ Here => IndexerRebuildsState
  BY DEF IndexerRebuildsState
<1>6. IndexerSpec /\ Here => []TypeOK
  BY IndexersOnlyWatch, TypeCorrect
<1>7. QED
  <2> HIDE DEF Here
  <2>1. QED
    BY <1>1, <1>2, <1>3, <1>4, <1>5, <1>6, PTL DEF IndexerSpec

(***************************************************************************)
(* protocol-config: the settings an indexer follows                        *)
(***************************************************************************)

(* The theorems about protocol-config.                                     *)
CfgP == INSTANCE ProtocolConfigProofs

ConfigEvent ==
  [topic : {"Initialized", "AdminChanged"}, admin : Address]
  \union [topic : {"Paused", "Unpaused"}, paused : BOOLEAN]
  \union [topic : {"SchemaApproved", "SchemaDeprecated"},
          version : Config!SchemaVersions]
  \union UpgradeEvent

(* The part of a view that the configuration events are about, and the     *)
(* contract's own.                                                         *)
Settings(w) ==
  [admin |-> w.admin, paused |-> w.paused, approved |-> w.approved,
   received |-> w.received]

IsSettings(p) == p = Settings(p) /\ p.received \in Nat

Truth ==
  [admin |-> admin, paused |-> paused,
   approved |-> {v \in Config!SchemaVersions : Config!is_schema_version_approved(v)},
   received |-> configVersion]

Applied(p, e) == IF e.topic \in UpgradeTopics THEN p ELSE Config!FollowConfig(p, e)

(* What the six configuration events do to the settings.                   *)
ChangedBy(p, e) ==
  [admin |-> IF e.topic \in {"Initialized", "AdminChanged"} THEN e.admin
             ELSE p.admin,
   paused |-> IF e.topic \in {"Paused", "Unpaused"} THEN e.paused ELSE p.paused,
   approved |-> IF e.topic = "SchemaApproved" THEN p.approved \union {e.version}
                ELSE IF e.topic = "SchemaDeprecated" THEN p.approved \ {e.version}
                ELSE p.approved,
   received |-> p.received + 1]

(* The six topics that are not about upgrades.                             *)
LEMMA ConfigTopics ==
  ASSUME NEW e \in ConfigEvent, e.topic \notin UpgradeTopics
  PROVE  \/ e.topic \in {"Initialized", "AdminChanged"}
         \/ e.topic \in {"Paused", "Unpaused"}
         \/ e.topic = "SchemaApproved" \/ e.topic = "SchemaDeprecated"
BY DEF ConfigEvent, UpgradeEvent, UpgradeTopics

(* Applying an event counts it, unless it is about upgrades.               *)
LEMMA AppliedCounts ==
  ASSUME NEW p, IsSettings(p), NEW e \in ConfigEvent
  PROVE  /\ IsSettings(Applied(p, e))
         /\ e.topic \in UpgradeTopics => Applied(p, e) = p
         /\ e.topic \notin UpgradeTopics => Applied(p, e) = ChangedBy(p, e)
         /\ Applied(p, e).received =
              IF e.topic \in UpgradeTopics THEN p.received ELSE p.received + 1
<1>1. CASE e.topic \in UpgradeTopics
  BY <1>1 DEF Applied
<1>2. CASE e.topic \notin UpgradeTopics
  <2>1. [p EXCEPT !.received = @ + 1] =
          [admin |-> p.admin, paused |-> p.paused, approved |-> p.approved,
           received |-> p.received + 1]
    BY DEF IsSettings, Settings
  <2>2. Applied(p, e) = ChangedBy(p, e)
    BY <1>2, <2>1, ConfigTopics DEF Applied, ChangedBy, Config!FollowConfig
  <2>3. QED
    BY <1>2, <2>2 DEF IsSettings, Settings, ChangedBy
<1>3. QED
  BY <1>1, <1>2

(* A view keeps account of upgrades besides.                               *)
IsView(w) ==
  /\ w = [admin |-> w.admin, paused |-> w.paused, approved |-> w.approved,
          received |-> w.received, upgrade |-> w.upgrade]
  /\ w.received \in Nat

(* Following an event is applying it to the settings of the view.          *)
LEMMA FollowApplies ==
  ASSUME NEW w, IsView(w), NEW e \in ConfigEvent
  PROVE  /\ IsView(Config!Follow(w, e))
         /\ Settings(Config!Follow(w, e)) = Applied(Settings(w), e)
<1>1. CASE e.topic \in UpgradeTopics
  <2>1. PICK u : Config!Follow(w, e) = [w EXCEPT !.upgrade = u]
    BY <1>1 DEF Config!Follow, Config!UpgradeTopics, UpgradeTopics
  <2>2. Config!Follow(w, e) =
          [admin |-> w.admin, paused |-> w.paused, approved |-> w.approved,
           received |-> w.received, upgrade |-> u]
    BY <2>1 DEF IsView
  <2>3. QED
    BY <1>1, <2>2 DEF IsView, Settings, Applied
<1>2. CASE e.topic \notin UpgradeTopics
  <2>1. [w EXCEPT !.received = @ + 1] =
          [admin |-> w.admin, paused |-> w.paused, approved |-> w.approved,
           received |-> w.received + 1, upgrade |-> w.upgrade]
    BY DEF IsView
  <2> DEFINE c == ChangedBy(w, e)
  <2>2. Config!Follow(w, e) = Config!FollowConfig(w, e)
    BY <1>2 DEF Config!Follow, Config!UpgradeTopics, UpgradeTopics
  <2>3. Config!FollowConfig(w, e) =
          [admin |-> c.admin, paused |-> c.paused, approved |-> c.approved,
           received |-> w.received + 1, upgrade |-> w.upgrade]
    BY <1>2, <2>1, ConfigTopics DEF ChangedBy, Config!FollowConfig
  <2>4. IsSettings(Settings(w))
    BY DEF IsSettings, Settings, IsView
  <2>5. Applied(Settings(w), e) = ChangedBy(Settings(w), e)
    BY <1>2, <2>4, AppliedCounts
  <2>6. ChangedBy(Settings(w), e) = c
    BY DEF ChangedBy, Settings
  <2>7. c = [admin |-> c.admin, paused |-> c.paused, approved |-> c.approved,
             received |-> w.received + 1]
    BY DEF ChangedBy
  <2>8. QED
    <3> HIDE DEF c
    <3>1. QED
      BY <2>2, <2>3, <2>5, <2>6, <2>7 DEF IsView, Settings
<1>3. QED
  BY <1>1, <1>2

(* A call that publishes e changes the contract's settings as e says.      *)
Announced(e) ==
  Config!Publish(e) /\ e \in ConfigEvent /\ Truth' = Applied(Truth, e)

(* The contract's own settings are well formed.                            *)
LEMMA TruthTyped == ASSUME Config!TypeOK PROVE IsSettings(Truth)
BY IndexerAssumption DEF Config!TypeOK, IsSettings, Settings, Truth

(* Every call of protocol-config is announced by its event.                *)
LEMMA CallsAnnounced ==
  ASSUME Config!TypeOK, Config!FailClosed,
         NEW caller \in Address, Config!Call(caller)
  PROVE  \E e : Announced(e)
<1> USE DEF Config!Ok, Config!AuthAbort
<1> DEFINE ok(v) == Config!is_schema_version_approved(v)
<1>1. ASSUME ~ Config!BumpOverflows, Config!bump_config_version
      PROVE  configVersion' = configVersion + 1
  BY <1>1 DEF Config!BumpOverflows, Config!bump_config_version
<1>2. ASSUME NEW e \in ConfigEvent, e.topic \notin UpgradeTopics, Config!Publish(e),
             Truth' = ChangedBy(Truth, e)
      PROVE  Announced(e)
  BY <1>2, TruthTyped, AppliedCounts DEF Announced
<1>3. ASSUME NEW a \in Address, Config!initialize(caller, a),
             Config!Publish(Config!Initialized(a))
      PROVE  \E e : Announced(e)
  <2> DEFINE e == Config!Initialized(a)
  <2>1. e \in ConfigEvent /\ e.topic = "Initialized" /\ e.admin = a
    BY DEF Config!Initialized, ConfigEvent
  <2>2. /\ admin = NoAddress /\ admin' = a /\ paused' = FALSE /\ schema' = schema
        /\ configVersion' = 1
    BY <1>3 DEF Config!initialize, Config!InitializeResult
  <2>3. paused' = paused /\ configVersion' = configVersion + 1
    <3>1. ~ paused /\ paused \in BOOLEAN /\ configVersion = 0
      BY <2>2 DEF Config!FailClosed, Config!TypeOK
    <3>2. paused' = paused
      BY <2>2, <3>1, Zenon
    <3>3. QED
      BY <2>2, <3>1, <3>2
  <2>4. Truth' = ChangedBy(Truth, e)
    BY <2>1, <2>2, <2>3 DEF Truth, ChangedBy, Config!is_schema_version_approved
  <2>5. QED
    BY <1>2, <1>3, <2>1, <2>4 DEF UpgradeTopics
<1>4. ASSUME NEW a \in Address, Config!set_admin_event(caller, a)
      PROVE  \E e : Announced(e)
  <2> DEFINE e == Config!AdminChanged(a)
  <2>1. e \in ConfigEvent /\ e.topic = "AdminChanged" /\ e.admin = a
    BY DEF Config!AdminChanged, ConfigEvent
  <2>2. /\ Config!Publish(e) /\ admin' = a /\ UNCHANGED <<paused, schema>>
        /\ configVersion' = configVersion + 1
    BY <1>1, <1>4 DEF Config!set_admin_event, Config!set_admin, Config!SetAdminResult
  <2>3. Truth' = ChangedBy(Truth, e)
    BY <2>1, <2>2 DEF Truth, ChangedBy, Config!is_schema_version_approved
  <2>4. QED
    BY <1>2, <2>1, <2>2, <2>3 DEF UpgradeTopics
<1>5. ASSUME Config!pause(caller), Config!Publish(Config!Paused)
      PROVE  \E e : Announced(e)
  <2> DEFINE e == Config!Paused
  <2>1. e \in ConfigEvent /\ e.topic = "Paused" /\ e.paused = TRUE
    BY DEF Config!Paused, ConfigEvent
  <2>2. /\ paused' = TRUE /\ UNCHANGED <<admin, schema>>
        /\ configVersion' = configVersion + 1
    BY <1>1, <1>5 DEF Config!pause, Config!SetPausedResult
  <2>3. Truth' = ChangedBy(Truth, e)
    BY <2>1, <2>2 DEF Truth, ChangedBy, Config!is_schema_version_approved
  <2>4. QED
    BY <1>2, <1>5, <2>1, <2>3 DEF UpgradeTopics
<1>6. ASSUME Config!unpause(caller), Config!Publish(Config!Unpaused)
      PROVE  \E e : Announced(e)
  <2> DEFINE e == Config!Unpaused
  <2>1. e \in ConfigEvent /\ e.topic = "Unpaused" /\ e.paused = FALSE
    BY DEF Config!Unpaused, ConfigEvent
  <2>2. /\ paused' = FALSE /\ UNCHANGED <<admin, schema>>
        /\ configVersion' = configVersion + 1
    BY <1>1, <1>6 DEF Config!unpause, Config!SetPausedResult
  <2>3. Truth' = ChangedBy(Truth, e)
    BY <2>1, <2>2 DEF Truth, ChangedBy, Config!is_schema_version_approved
  <2>4. QED
    BY <1>2, <1>6, <2>1, <2>3 DEF UpgradeTopics
<1>7. ASSUME NEW v \in Config!SchemaVersions,
             Config!approve_schema_version(caller, v),
             Config!Publish(Config!SchemaApproved(v))
      PROVE  \E e : Announced(e)
  <2> DEFINE e == Config!SchemaApproved(v)
  <2>1. e \in ConfigEvent /\ e.topic = "SchemaApproved" /\ e.version = v
    BY DEF Config!SchemaApproved, ConfigEvent
  <2>2. /\ v # 0 /\ schema' = [schema EXCEPT ![v] = "approved"]
        /\ UNCHANGED <<admin, paused>> /\ configVersion' = configVersion + 1
    BY <1>1, <1>7 DEF Config!approve_schema_version, Config!SetSchemaResult
  <2>3. {w \in Config!SchemaVersions : ok(w)}' =
          {w \in Config!SchemaVersions : ok(w)} \union {v}
    BY <2>2 DEF Config!TypeOK, Config!is_schema_version_approved, Config!SchemaVersions
  <2>4. Truth' = ChangedBy(Truth, e)
    BY <2>1, <2>2, <2>3 DEF Truth, ChangedBy
  <2>5. QED
    BY <1>2, <1>7, <2>1, <2>4 DEF UpgradeTopics
<1>8. ASSUME NEW v \in Config!SchemaVersions,
             Config!deprecate_schema_version(caller, v),
             Config!Publish(Config!SchemaDeprecated(v))
      PROVE  \E e : Announced(e)
  <2> DEFINE e == Config!SchemaDeprecated(v)
  <2>1. e \in ConfigEvent /\ e.topic = "SchemaDeprecated" /\ e.version = v
    BY DEF Config!SchemaDeprecated, ConfigEvent
  <2>2. /\ schema' = [schema EXCEPT ![v] = "deprecated"]
        /\ UNCHANGED <<admin, paused>> /\ configVersion' = configVersion + 1
    BY <1>1, <1>8 DEF Config!deprecate_schema_version, Config!SetSchemaResult
  <2>3. {w \in Config!SchemaVersions : ok(w)}' =
          {w \in Config!SchemaVersions : ok(w)} \ {v}
    BY <2>2 DEF Config!TypeOK, Config!is_schema_version_approved, Config!SchemaVersions
  <2>4. Truth' = ChangedBy(Truth, e)
    BY <2>1, <2>2, <2>3 DEF Truth, ChangedBy
  <2>5. QED
    BY <1>2, <1>8, <2>1, <2>4 DEF UpgradeTopics
<1>9. ASSUME NEW e \in UpgradeEvent, Config!Publish(e),
             UNCHANGED <<admin, paused, schema, configVersion>>
      PROVE  Announced(e)
  <2>1. e.topic \in UpgradeTopics /\ e \in ConfigEvent
    BY DEF UpgradeEvent, UpgradeTopics, ConfigEvent
  <2>2. Truth' = Truth
    BY <1>9 DEF Truth, Config!is_schema_version_approved
  <2>3. QED
    BY <1>9, <2>1, <2>2 DEF Announced, Applied
<1>10. ASSUME NEW h \in WasmHash, NEW v \in ContractVersions,
              Config!approve_upgrade(caller, h, v),
              Config!Publish(Config!UpgradeAllowlisted(h, v))
       PROVE  \E e : Announced(e)
  BY <1>9, <1>10
  DEF Config!approve_upgrade, Config!ApproveUpgrade, Config!settings,
      Config!UpgradeAllowlisted, UpgradeEvent
<1>11. ASSUME NEW h \in WasmHash, Config!revoke_upgrade(caller, h),
              Config!Publish(Config!UpgradeRevoked(h))
       PROVE  \E e : Announced(e)
  BY <1>9, <1>11
  DEF Config!revoke_upgrade, Config!RevokeUpgrade, Config!settings,
      Config!UpgradeRevoked, UpgradeEvent
<1>12. ASSUME NEW h \in WasmHash, Config!upgrade_contract(caller, h),
              Config!Publish(Config!ContractUpgraded(h))
       PROVE  \E e : Announced(e)
  BY <1>9, <1>12
  DEF Config!upgrade_contract, Config!UpgradeContract, Config!settings,
      Config!ContractUpgraded, UpgradeEvent, Config!TypeOK, Config!UpgradeState,
      Config!ContractVersions, ContractVersions
<1>13. QED
  BY <1>3, <1>4, <1>5, <1>6, <1>7, <1>8, <1>10, <1>11, <1>12
  DEF Config!Call, Config!ContractVersions, ContractVersions

(***************************************************************************)
(* The settings the contract had when each pending event was published     *)
(***************************************************************************)

(* H[j] are the settings after the first j pending events; the last are    *)
(* the contract's.  The view counts no more events than there were up to   *)
(* its position.  It has the settings of that position if it has counted   *)
(* all of them, and it has counted all of them if it missed none.          *)
History(H, events, position, w, lost, t) ==
  /\ H[Len(events)] = t
  /\ \A j \in 0 .. Len(events) : IsSettings(H[j])
  /\ \A j \in 1 .. Len(events) : H[j] = Applied(H[j - 1], events[j])
  /\ w.received <= H[position].received
  /\ w.received = H[position].received => Settings(w) = H[position]
  /\ lost \/ w.received = H[position].received

ConfigStreamTyped ==
  /\ pending \in Seq(ConfigEvent)
  /\ seen \in 0 .. Len(pending)
  /\ IsView(view)

ConfigInv ==
  ConfigStreamTyped /\ \E H : History(H, pending, seen, view, missed, Truth)

(* A call publishes an event.                                              *)
LEMMA AnnounceKeeps ==
  ASSUME Config!TypeOK, ConfigInv, NEW e, Announced(e), UNCHANGED missed
  PROVE  ConfigInv'
<1>1. /\ pending' = Append(pending, e) /\ e \in ConfigEvent
      /\ seen' = seen /\ view' = view /\ Truth' = Applied(Truth, e)
  BY DEF Announced, Config!Publish
<1>2. /\ pending \in Seq(ConfigEvent) /\ Len(pending) \in Nat /\ seen \in 0 .. Len(pending)
      /\ pending' \in Seq(ConfigEvent) /\ Len(pending') = Len(pending) + 1
      /\ pending'[Len(pending) + 1] = e
      /\ \A j \in 1 .. Len(pending) : pending'[j] = pending[j]
  BY <1>1 DEF ConfigInv, ConfigStreamTyped
<1>3. ConfigStreamTyped'
  BY <1>1, <1>2 DEF ConfigInv, ConfigStreamTyped
<1>4. PICK H : History(H, pending, seen, view, missed, Truth)
  BY DEF ConfigInv
<1>5. PICK G : G = [j \in 0 .. (Len(pending) + 1) |->
                      IF j = Len(pending) + 1 THEN Truth' ELSE H[j]]
  OBVIOUS
<1>6. G[Len(pending) + 1] = Truth' /\ \A j \in 0 .. Len(pending) : G[j] = H[j]
  BY <1>2, <1>5
<1>7. IsSettings(Truth')
  BY <1>1, TruthTyped, AppliedCounts
<1>8. \A j \in 0 .. Len(pending') : IsSettings(G[j])
  BY <1>2, <1>4, <1>6, <1>7 DEF History
<1>9. ASSUME NEW j \in 1 .. Len(pending')
      PROVE  G[j] = Applied(G[j - 1], pending'[j])
  <2>1. CASE j = Len(pending) + 1
    <3>1. G[j - 1] = Truth
      BY <1>2, <1>4, <1>6, <2>1 DEF History
    <3>2. QED
      BY <1>1, <1>2, <1>6, <2>1, <3>1
  <2>2. CASE j \in 1 .. Len(pending)
    <3>1. j - 1 \in 0 .. Len(pending) /\ j \in 0 .. Len(pending)
      BY <1>2, <2>2
    <3>2. QED
      BY <1>2, <1>4, <1>6, <2>2, <3>1 DEF History
  <2>3. QED
    BY <1>2, <2>1, <2>2
<1>10. History(G, pending', seen', view', missed', Truth')
  <2>1. G[seen'] = H[seen] /\ view' = view /\ missed' = missed
    BY <1>1, <1>2, <1>6
  <2>2. QED
    BY <1>2, <1>4, <1>6, <1>8, <1>9, <2>1 DEF History
<1>11. QED
  BY <1>3, <1>10 DEF ConfigInv

(* An event is delivered, or missed.                                       *)
LEMMA PassKeeps ==
  ASSUME ConfigInv, UNCHANGED Config!configVars,
         \/ Config!Deliver(Config!Follow(view, Config!NextEvent)) /\ UNCHANGED missed
         \/ /\ Config!Miss
            /\ missed' = (missed \/ Config!NextEvent.topic \notin Config!UpgradeTopics)
  PROVE  ConfigInv'
<1> DEFINE e == Config!NextEvent
<1>1. /\ pending' = pending /\ seen' = seen + 1
      /\ seen < Len(pending) /\ e = pending[seen + 1]
  BY DEF Config!Deliver, Config!Miss, Config!Behind, Config!NextEvent
<1>2. /\ pending \in Seq(ConfigEvent) /\ Len(pending) \in Nat /\ seen \in Nat
      /\ seen + 1 \in 1 .. Len(pending) /\ seen \in 0 .. Len(pending)
      /\ e \in ConfigEvent /\ IsView(view) /\ view.received \in Nat
  BY <1>1 DEF ConfigInv, ConfigStreamTyped, IsView
<1>3. Truth' = Truth
  BY DEF Config!configVars, Truth, Config!is_schema_version_approved
<1>4. PICK H : History(H, pending, seen, view, missed, Truth)
  BY DEF ConfigInv
<1>5. /\ IsSettings(H[seen]) /\ H[seen + 1] = Applied(H[seen], e)
      /\ view.received <= H[seen].received
      /\ view.received = H[seen].received => Settings(view) = H[seen]
      /\ missed \/ view.received = H[seen].received
  <2>1. (seen + 1) - 1 = seen
    BY <1>2
  <2>2. QED
    BY <1>1, <1>2, <1>4, <2>1 DEF History
<1> HIDE DEF e
<1>6. /\ H[seen].received \in Nat /\ H[seen + 1].received \in Nat
      /\ H[seen + 1].received = IF e.topic \in UpgradeTopics THEN H[seen].received
                                ELSE H[seen].received + 1
  BY <1>2, <1>5, AppliedCounts DEF IsSettings
<1>7. ASSUME IsView(view'), view'.received <= H[seen + 1].received,
             view'.received = H[seen + 1].received => Settings(view') = H[seen + 1],
             missed' \/ view'.received = H[seen + 1].received
      PROVE  ConfigInv'
  <2>1. ConfigStreamTyped'
    BY <1>1, <1>2, <1>7 DEF ConfigStreamTyped
  <2>2. History(H, pending', seen', view', missed', Truth')
    BY <1>1, <1>3, <1>4, <1>7 DEF History
  <2>3. QED
    BY <2>1, <2>2 DEF ConfigInv
<1>8. CASE view' = Config!Follow(view, e) /\ missed' = missed
  <2>1. IsView(view') /\ Settings(view') = Applied(Settings(view), e)
    BY <1>2, <1>8, FollowApplies
  <2>2. IsSettings(Settings(view)) /\ Settings(view).received = view.received
    BY <1>2 DEF IsView, IsSettings, Settings
  <2>3. Settings(view').received = view'.received
    BY DEF Settings
  <2>4. view'.received = IF e.topic \in UpgradeTopics THEN view.received
                         ELSE view.received + 1
    <3>1. Applied(Settings(view), e).received =
            IF e.topic \in UpgradeTopics THEN Settings(view).received
            ELSE Settings(view).received + 1
      BY <1>2, <2>2, AppliedCounts
    <3>2. QED
      BY <2>1, <2>2, <2>3, <3>1
  <2>5. view'.received <= H[seen + 1].received
    BY <1>2, <1>5, <1>6, <2>4
  <2>6. view'.received = H[seen + 1].received <=> view.received = H[seen].received
    BY <1>2, <1>6, <2>4
  <2>7. QED
    BY <1>5, <1>7, <1>8, <2>1, <2>5, <2>6
<1>9. CASE view' = view /\ (missed \/ e.topic \notin UpgradeTopics => missed')
  <2>1. CASE e.topic \in UpgradeTopics
    <3>1. H[seen + 1] = H[seen]
      BY <1>2, <1>5, <2>1, AppliedCounts
    <3>2. QED
      BY <1>2, <1>5, <1>7, <1>9, <3>1
  <2>2. CASE e.topic \notin UpgradeTopics
    <3>1. view.received < H[seen + 1].received
      BY <1>2, <1>5, <1>6, <2>2
    <3>2. QED
      BY <1>2, <1>6, <1>7, <1>9, <2>2, <3>1
  <2>3. QED
    BY <2>1, <2>2
<1>10. QED
  <2>1. CASE Config!Deliver(Config!Follow(view, Config!NextEvent)) /\ UNCHANGED missed
    BY <1>8, <2>1 DEF Config!Deliver, e
  <2>2. CASE /\ Config!Miss
             /\ missed' = (missed \/ Config!NextEvent.topic \notin Config!UpgradeTopics)
    BY <1>9, <2>2 DEF Config!Miss, e, Config!UpgradeTopics, UpgradeTopics
  <2>3. QED
    BY <2>1, <2>2

(* The position is saved.                                                  *)
LEMMA ConfigSaveKeeps ==
  ASSUME ConfigInv, Config!SavePosition, UNCHANGED <<Config!configVars, missed>>
  PROVE  ConfigInv'
<1>1. /\ seen' = 0 /\ view' = view /\ missed' = missed
      /\ seen \in Nat /\ Len(pending) \in Nat /\ seen <= Len(pending)
      /\ pending \in Seq(ConfigEvent) /\ IsView(view)
      /\ pending' = SubSeq(pending, seen + 1, Len(pending))
  BY DEF Config!SavePosition, ConfigInv, ConfigStreamTyped
<1>2. /\ pending' \in Seq(ConfigEvent) /\ Len(pending') = Len(pending) - seen
      /\ \A j \in 1 .. Len(pending') :
           j + seen \in 1 .. Len(pending) /\ pending'[j] = pending[j + seen]
  BY <1>1
<1>3. Truth' = Truth
  BY DEF Config!configVars, Truth, Config!is_schema_version_approved
<1>4. PICK H : History(H, pending, seen, view, missed, Truth)
  BY DEF ConfigInv
<1>5. PICK G : G = [j \in 0 .. (Len(pending) - seen) |-> H[j + seen]]
  OBVIOUS
<1>6. \A j \in 0 .. Len(pending') : G[j] = H[j + seen] /\ j + seen \in 0 .. Len(pending)
  BY <1>1, <1>2, <1>5
<1>7. G[0] = H[seen] /\ G[Len(pending')] = H[Len(pending)]
  <2>1. 0 + seen = seen /\ Len(pending') + seen = Len(pending) /\ Len(pending') \in Nat
    BY <1>1, <1>2
  <2>2. QED
    BY <1>6, <2>1
<1>8. ASSUME NEW j \in 1 .. Len(pending')
      PROVE  G[j] = Applied(G[j - 1], pending'[j])
  <2>1. /\ j - 1 \in 0 .. Len(pending') /\ j \in 0 .. Len(pending')
        /\ (j + seen) - 1 = (j - 1) + seen
    BY <1>1, <1>2
  <2>2. H[j + seen] = Applied(H[(j + seen) - 1], pending[j + seen])
    BY <1>2, <1>4 DEF History
  <2>3. QED
    BY <1>2, <1>6, <2>1, <2>2
<1>9. History(G, pending', seen', view', missed', Truth')
  <2>1. \A j \in 0 .. Len(pending') : IsSettings(G[j])
    BY <1>4, <1>6 DEF History
  <2>2. G[Len(pending')] = Truth' /\ G[seen'] = H[seen]
    BY <1>1, <1>3, <1>4, <1>7 DEF History
  <2>3. /\ view.received <= H[seen].received
        /\ view.received = H[seen].received => Settings(view) = H[seen]
        /\ missed \/ view.received = H[seen].received
    BY <1>4 DEF History
  <2>4. QED
    BY <1>1, <1>8, <2>1, <2>2, <2>3 DEF History
<1>10. ConfigStreamTyped'
  BY <1>1, <1>2 DEF ConfigStreamTyped
<1>11. QED
  BY <1>9, <1>10 DEF ConfigInv

(***************************************************************************)
(* The theorems about protocol-config's indexer                            *)
(***************************************************************************)

(* The instances of protocol-config in EventIndexers and in its own proofs *)
(* are the same.                                                           *)
LEMMA ConfigSame ==
  /\ Config!Init <=> CfgP!Init
  /\ Config!Next <=> CfgP!Next
  /\ Config!configVars = CfgP!configVars
  /\ Config!TypeOK <=> CfgP!TypeOK
  /\ Config!FailClosed <=> CfgP!FailClosed
<1>1. Config!Init <=> CfgP!Init
  BY DEF Config!Init, CfgP!Init, Config!UpgradeInit, CfgP!UpgradeInit,
         Config!SchemaVersions, CfgP!SchemaVersions
<1>2. ASSUME NEW c \in Address PROVE Config!UpgradeCall(c) <=> CfgP!UpgradeCall(c)
  BY DEF Config!UpgradeCall, CfgP!UpgradeCall, Config!approve_upgrade,
         CfgP!approve_upgrade, Config!revoke_upgrade, CfgP!revoke_upgrade,
         Config!upgrade_contract, CfgP!upgrade_contract,
         Config!ApproveUpgrade, CfgP!ApproveUpgrade,
         Config!ApproveUpgradeResult, CfgP!ApproveUpgradeResult,
         Config!RevokeUpgrade, CfgP!RevokeUpgrade, Config!RevokeUpgradeResult,
         CfgP!RevokeUpgradeResult, Config!UpgradeContract,
         CfgP!UpgradeContract, Config!UpgradeContractResult,
         CfgP!UpgradeContractResult, Config!NotAdvancing, CfgP!NotAdvancing,
         Config!is_upgrade_allowed, CfgP!is_upgrade_allowed, Config!Installed,
         CfgP!Installed, Config!ContractVersions, CfgP!ContractVersions,
         Config!Ok, CfgP!Ok, Config!AuthAbort, CfgP!AuthAbort,
         Config!settings, CfgP!settings
<1>3. ASSUME NEW c \in Address PROVE Config!ConfigCall(c) <=> CfgP!ConfigCall(c)
  BY DEF Config!ConfigCall, CfgP!ConfigCall, Config!initialize,
         CfgP!initialize, Config!InitializeResult, CfgP!InitializeResult,
         Config!set_admin, CfgP!set_admin, Config!SetAdminResult,
         CfgP!SetAdminResult, Config!pause, CfgP!pause, Config!unpause,
         CfgP!unpause, Config!SetPausedResult, CfgP!SetPausedResult,
         Config!approve_schema_version, CfgP!approve_schema_version,
         Config!deprecate_schema_version, CfgP!deprecate_schema_version,
         Config!SetSchemaResult, CfgP!SetSchemaResult, Config!FirstVersion,
         CfgP!FirstVersion, Config!bump_config_version,
         CfgP!bump_config_version, Config!BumpOverflows, CfgP!BumpOverflows,
         Config!SchemaVersions, CfgP!SchemaVersions,
         Config!is_valid_principal_address, CfgP!is_valid_principal_address,
         Config!Ok, CfgP!Ok, Config!AuthAbort, CfgP!AuthAbort
<1>4. Config!configVars = CfgP!configVars
  BY DEF Config!configVars, CfgP!configVars
<1>5. Config!TypeOK <=> CfgP!TypeOK
  BY DEF Config!TypeOK, CfgP!TypeOK, Config!UpgradeState, CfgP!UpgradeState,
         Config!ContractVersions, CfgP!ContractVersions,
         Config!SchemaVersions, CfgP!SchemaVersions
<1>6. Config!FailClosed <=> CfgP!FailClosed
  BY DEF Config!FailClosed, CfgP!FailClosed, Config!SchemaVersions,
         CfgP!SchemaVersions, Config!is_schema_version_approved,
         CfgP!is_schema_version_approved, Config!is_upgrade_allowed,
         CfgP!is_upgrade_allowed
<1>7. Config!Next <=> CfgP!Next
  BY <1>2, <1>3 DEF Config!Next, CfgP!Next
<1>8. QED
  BY <1>1, <1>4, <1>5, <1>6, <1>7

(* What is proved of protocol-config alone holds beside its indexer.       *)
LEMMA ConfigFacts ==
  IndexerSpec /\ contract = "protocol-config"
    => []Config!TypeOK /\ []Config!FailClosed
<1>1. Config!Init => CfgP!Init
  BY ConfigSame
<1>2. [Config!Next]_(Config!configVars) => [CfgP!Next]_(CfgP!configVars)
  BY ConfigSame DEF Config!configVars, CfgP!configVars
<1>3. Config!Spec => CfgP!Spec
  BY <1>1, <1>2, PTL DEF Config!Spec, CfgP!Spec
<1>4. CfgP!AddressAssumption /\ CfgP!UpgradeAssumption /\ CfgP!ConfigAssumption
  BY AddressAssumption, UpgradeAssumption, IndexerAssumption
  DEF CfgP!AddressAssumption, CfgP!UpgradeAssumption, CfgP!ConfigAssumption
<1>5. CfgP!Spec => []CfgP!TypeOK /\ []CfgP!FailClosed
  BY <1>4, CfgP!ConfigTypeCorrect, CfgP!ConfigFailsClosed
<1>6. CfgP!TypeOK /\ CfgP!FailClosed => Config!TypeOK /\ Config!FailClosed
  BY ConfigSame
<1>7. QED
  BY <1>3, <1>5, <1>6, IndexersOnlyWatch, PTL

(* ConfigInv is inductive.                                                 *)
LEMMA ConfigInvPreserved ==
  ASSUME Config!TypeOK, Config!FailClosed, ConfigInv,
         contract = "protocol-config", [IndexerNext]_indexerVars
  PROVE  ConfigInv'
<1>1. CASE UNCHANGED indexerVars
  <2>1. UNCHANGED <<pending, seen, view, missed>> /\ Truth' = Truth
    BY <1>1
    DEF indexerVars, eventVars, registryVars, streamVars, Truth,
        Config!is_schema_version_approved
  <2>2. QED
    BY <2>1 DEF ConfigInv, ConfigStreamTyped
<1>2. CASE Config!EventsNext
  <2>1. ASSUME NEW caller \in Address, Config!Call(caller), UNCHANGED missed
        PROVE  ConfigInv'
    BY <2>1, CallsAnnounced, AnnounceKeeps
  <2>2. QED
    BY <1>2, <2>1, PassKeeps, ConfigSaveKeeps DEF Config!EventsNext
<1>3. QED
  BY <1>1, <1>2 DEF IndexerNext

(* In every reachable state of protocol-config and its indexer.            *)
LEMMA ConfigInvariant ==
  IndexerSpec => [](contract = "protocol-config" => ConfigInv)
<1> DEFINE Here == contract = "protocol-config"
<1>1. IndexerInit /\ Here => ConfigInv
  <2> SUFFICES ASSUME IndexerInit, Here PROVE ConfigInv
    OBVIOUS
  <2>1. /\ pending = <<>> /\ seen = 0 /\ view = Config!EmptyView /\ Config!Init
    BY DEF IndexerInit, StreamInit
  <2>2. /\ admin = NoAddress /\ paused = FALSE /\ configVersion = 0
        /\ schema = [v \in Config!SchemaVersions |-> "absent"]
    BY <2>1 DEF Config!Init, Config!UpgradeInit
  <2>3. {v \in Config!SchemaVersions : Config!is_schema_version_approved(v)} = {}
    BY <2>2 DEF Config!is_schema_version_approved
  <2>4. Settings(view) = Truth /\ IsView(view) /\ IsSettings(Truth)
    BY <2>1, <2>2, <2>3 DEF Config!EmptyView, Settings, Truth, IsView, IsSettings
  <2>5. view.received = Truth.received
    BY <2>1, <2>2 DEF Config!EmptyView, Truth
  <2>6. PICK H : H = [j \in {0} |-> Truth]
    OBVIOUS
  <2>7. History(H, pending, seen, view, missed, Truth)
    BY <2>1, <2>4, <2>5, <2>6 DEF History, IsSettings
  <2>8. QED
    BY <2>1, <2>4, <2>7 DEF ConfigInv, ConfigStreamTyped
<1>2. Config!TypeOK /\ Config!FailClosed /\ ConfigInv /\ Here /\ [IndexerNext]_indexerVars
        => ConfigInv' /\ Here'
  BY ConfigInvPreserved, EventsStepIsRegistryStep
<1>3. ~ Here /\ [IndexerNext]_indexerVars => ~ Here'
  BY EventsStepIsRegistryStep
<1>4. QED
  <2> HIDE DEF Here
  <2>1. IndexerSpec => [](Here => ConfigInv)
    <3>1. IndexerSpec /\ Here => []Config!TypeOK /\ []Config!FailClosed
      BY ConfigFacts DEF Here
    <3>2. QED
      BY <1>1, <1>2, <1>3, <3>1, PTL DEF IndexerSpec
  <2>2. QED
    BY <2>1 DEF Here

(* Gaps are visible: an indexer that is up with protocol-config and has    *)
(* received as many configuration events as the config version counts has  *)
(* the administrator, the pause and the schemas right, for any counter     *)
(* width and any backlog.                                                  *)
THEOREM GapsVisible == IndexerSpec => []GapsAreVisible
<1>1. (contract = "protocol-config" => ConfigInv) => GapsAreVisible
  <2> SUFFICES ASSUME ConfigInv, view.received = configVersion, Config!CaughtUp
               PROVE  /\ view.admin = admin /\ view.paused = paused
                      /\ \A v \in Config!SchemaVersions :
                           v \in view.approved <=> Config!is_schema_version_approved(v)
    BY DEF GapsAreVisible, Config!ViewIsExact, Config!is_paused
  <2>1. seen = Len(pending)
    BY DEF ConfigInv, ConfigStreamTyped, Config!CaughtUp, Config!Behind
  <2>2. Settings(view) = Truth
    BY <2>1 DEF ConfigInv, History, Truth
  <2>3. QED
    BY <2>2 DEF Settings, Truth
<1>2. QED
  BY <1>1, ConfigInvariant, PTL

(* No false alarms: if no configuration event was missed, the numbers      *)
(* agree once the indexer is up with the contract.                         *)
THEOREM AlarmsTrue == IndexerSpec => []NoFalseAlarms
<1>1. (contract = "protocol-config" => ConfigInv) => NoFalseAlarms
  <2> SUFFICES ASSUME ConfigInv, CaughtUp, ~ missed
               PROVE  view.received = configVersion
    BY DEF NoFalseAlarms
  <2>1. seen = Len(pending)
    BY DEF ConfigInv, ConfigStreamTyped, CaughtUp, Behind
  <2>2. view.received = Truth.received
    BY <2>1 DEF ConfigInv, History
  <2>3. QED
    BY <2>2 DEF Truth
<1>2. QED
  BY <1>1, ConfigInvariant, PTL
===============================================================================
