----------------------------- MODULE IndexUpkeep -----------------------------
(***************************************************************************)
(* An operator who keeps the reverse-index entry of one address live the   *)
(* way docs/storage-ttl.md recommends, by calling is_active_address of it  *)
(* at a steady cadence, beside everybody else's calls of issuer-registry.  *)
(***************************************************************************)
EXTENDS IssuerTtl

CONSTANT
  Cadence     \* the most ledgers between two polls; 450,000 in the docs

VARIABLE
  unread      \* ledgers since the operator's last poll of the entry

upkeepVars == <<TtlVars, unread>>

UpkeepInit ==
  /\ Init
  /\ \E a \in Address : TtlInit(AddressIssuer(a))
  /\ unread = 0

(* is_active_address of the watched address, by the operator.              *)
Poll ==
  /\ \E a \in Address : watched = AddressIssuer(a) /\ ReadActiveAddress(a)
  /\ unread' = 0

(* The operator is never late: as long as there is an entry to keep, no    *)
(* ledger closes on a poll that is due.                                    *)
LedgerClosesInTime ==
  /\ LedgerCloses
  /\ ttl # Absent => unread < Cadence
  /\ unread' = IF ttl = Absent THEN 0 ELSE unread + 1

UpkeepNext ==
  \/ Poll
  \/ LedgerClosesInTime
  \/ ((\E caller \in Address : Write(caller)) \/ Read) /\ UNCHANGED unread

UpkeepSpec == UpkeepInit /\ [][UpkeepNext]_upkeepVars

(* Polled through is_active_address at the cadence, the index entry stays  *)
(* live: the call "extends both the record and the index"                  *)
(* (docs/storage-ttl.md:162).                                              *)
IndexStaysLive == ttl # Archived
==============================================================================
