--------------------------- MODULE MetadataStore ---------------------------
(***************************************************************************)
(* The SQL metadata store of the renter (package stores, SQLStore): the    *)
(* tables contracts, archived_contracts, contract_sets (one set, the one   *)
(* the migrator repairs against), objects/slices/slabs/shards, and the     *)
(* join table contract_sectors.                                            *)
(*                                                                         *)
(* Every store method runs as one step.  Methods that the code wraps in   *)
(* db.Transaction are atomic by the database; a method whose statements   *)
(* fail half way is modelled by its rollback (no state change).           *)
(* Foreign keys are declared with OnDelete:CASCADE, so deleting a contract *)
(* deletes its contract_set_contracts and contract_sectors rows, and       *)
(* deleting an object deletes its slices, slabs and shards (never the     *)
(* sectors, which are shared and content-addressed).                      *)
(***************************************************************************)
EXTENDS Naturals, FiniteSets, Sequences, SequencesExt

CONSTANTS
    Hosts,          \* host public keys (rows of the external hosts table)
    FCIDs,          \* file contract IDs the renter may ever form
    InitContracts,  \* the contracts formed before the behaviour starts
    HostOf,         \* HostOf[c]: the host of contract c (c.HostKey())
    ObjKeys,        \* object paths
    Slabs,          \* slab encryption keys
    ShardsOf,       \* ShardsOf[s]: the sector roots of slab s, in shard order
    NoContract,     \* the zero FileContractID
    NoSlab,         \* an object path without a row
    NoHost,         \* latest_host of a sector without a row
    SetChoices,     \* fcid lists the autopilot passes to SetContractSet
    Removable,      \* contracts the caller may pass to RemoveContract
    MaxUploads,     \* bound on UpdateObject calls
    MaxSetUpdates,  \* bound on SetContractSet calls
    MaxRecords      \* bound on spending records

Sectors == UNION {Range(ShardsOf[s]) : s \in Slabs}

ASSUME /\ InitContracts \subseteq FCIDs
       /\ HostOf \in [FCIDs -> Hosts]
       /\ ShardsOf \in [Slabs -> Seq(Sectors)]
       /\ \A s \in Slabs : IsInjective(ShardsOf[s])
       /\ SetChoices \subseteq SUBSET FCIDs

VARIABLES
    contracts,       \* FCIDs with a row in contracts
    renewedFrom,     \* contracts.renewed_from
    archived,        \* FCIDs with a row in archived_contracts
    renewedTo,       \* archived_contracts.renewed_to
    issued,          \* FCIDs ever inserted (a contract id is a hash, never reused)
    setMembers,      \* contract_set_contracts of the migrator's contract set
    contractSectors, \* contract_sectors: sector root -> contracts
    latestHost,      \* sectors.latest_host: sector root -> host, or NoHost
    objects,         \* objects/slices/slabs: object path -> its slab, or NoSlab
    uploads,         \* UpdateObject calls so far (bounded)
    setUpdates,      \* SetContractSet calls so far (bounded)
    setPending,      \* SetContractSet has fetched its contracts, not yet replaced
    setFetched,      \* the dbContracts that fetch returned: fcid -> spending
    spending,        \* contracts.*_spending, in units (one column stands for three)
    archivedSpending,\* archived_contracts.*_spending
    recorded,        \* history: units RecordContractSpending applied per fcid
    records          \* spending records so far (bounded)

storeVars == <<contracts, renewedFrom, archived, renewedTo, issued, setMembers,
               contractSectors, latestHost, objects, uploads, setUpdates,
               setPending, setFetched, spending, archivedSpending, recorded, records>>

setFetch == <<setPending, setFetched>>
spendVars == <<spending, archivedSpending, recorded, records>>

FCIDOrNone == FCIDs \cup {NoContract}

TypeOK ==
    /\ contracts \subseteq FCIDs
    /\ renewedFrom \in [FCIDs -> FCIDOrNone]
    /\ archived \subseteq FCIDs
    /\ renewedTo \in [FCIDs -> FCIDOrNone]
    /\ issued \subseteq FCIDs
    /\ setMembers \subseteq FCIDs
    /\ contractSectors \in [Sectors -> SUBSET FCIDs]
    \* the foreign keys of contract_set_contracts and contract_sectors
    /\ setMembers \subseteq contracts
    /\ \A r \in Sectors : contractSectors[r] \subseteq contracts
    /\ latestHost \in [Sectors -> Hosts \cup {NoHost}]
    /\ objects \in [ObjKeys -> Slabs \cup {NoSlab}]
    /\ uploads \in 0..MaxUploads
    /\ setUpdates \in 0..MaxSetUpdates
    /\ setPending \in BOOLEAN /\ DOMAIN setFetched \subseteq FCIDs
    /\ spending \in [FCIDs -> 0..MaxRecords]
    /\ archivedSpending \in [FCIDs -> 0..MaxRecords]
    /\ records \in 0..MaxRecords

StoreInit ==
    /\ contracts = InitContracts
    /\ renewedFrom = [c \in FCIDs |-> NoContract]
    /\ archived = {}
    /\ renewedTo = [c \in FCIDs |-> NoContract]
    /\ issued = InitContracts
    /\ setMembers = InitContracts
    /\ contractSectors = [r \in Sectors |-> {}]
    /\ latestHost = [r \in Sectors |-> NoHost]
    /\ objects = [k \in ObjKeys |-> NoSlab]
    /\ uploads = 0
    /\ setUpdates = 0
    /\ setPending = FALSE /\ setFetched = [c \in {} |-> 0]
    /\ spending = [c \in FCIDs |-> 0] /\ archivedSpending = [c \in FCIDs |-> 0]
    /\ recorded = [c \in FCIDs |-> 0] /\ records = 0

-----------------------------------------------------------------------------
(* Derived tables and queries.                                            *)

\* slabs with a row: a slab row exists while the slice of an object holds it
SlabRows == {objects[k] : k \in ObjKeys} \ {NoSlab}

TotalShards(s) == Len(ShardsOf[s])

\* slabs.total_shards, written by UpdateObject as uint8(len(ss.Shards))
StoredTotalShards(s) == TotalShards(s) % 2^8

\* rows of the UnhealthySlabs join for slab s: its sectors' contracts that
\* are members of the set (INNER JOIN contract_set_contracts, cs.name = set)
GoodContracts(s) ==
    {c \in setMembers : \E i \in 1..TotalShards(s) : c \in contractSectors[ShardsOf[s][i]]}

\* COUNT(DISTINCT(c.host_id)) AS num_good_sectors
NumGoodSectors(s) == Cardinality({HostOf[c] : c \in GoodContracts(s)})

\* num_bad_sectors, the ORDER BY key: total_shards - num_good_sectors
NumBadSectors(s) == StoredTotalShards(s) - NumGoodSectors(s)

\* GROUP BY slabs.id HAVING num_good_sectors < num_required_sectors: a group
\* exists only for a slab with at least one joined row
UnhealthySet ==
    {s \in SlabRows : GoodContracts(s) # {} /\ NumGoodSectors(s) < StoredTotalShards(s)}

\* Every result UnhealthySlabs(set, limit) may return: the slabs of
\* UnhealthySet ordered by num_bad_sectors DESC (ties in any order), cut at
\* limit.
UnhealthySlabs(limit) ==
    LET n == IF limit < Cardinality(UnhealthySet) THEN limit ELSE Cardinality(UnhealthySet)
    IN  {q \in UNION {SetToSeqs(S) : S \in kSubset(n, UnhealthySet)} :
            /\ \A i \in 1..(n - 1) : NumBadSectors(q[i]) >= NumBadSectors(q[i + 1])
            /\ \A x \in UnhealthySet \ Range(q) : NumBadSectors(x) <= NumBadSectors(q[n])}

\* dbSlab.convert: a slab as UnhealthySlabs returns it, each shard hydrated
\* with its sector's LatestHost as of the query.
Hydrate(s) ==
    [slab |-> s, hosts |-> [i \in 1..TotalShards(s) |-> latestHost[ShardsOf[s][i]]]]

\* AncestorContracts(id, startHeight): the recursive CTE "ancestors": start
\* from the archived contracts whose renewed_to is id, then repeatedly add
\* the archived contracts renewed to one already found (UNION ALL).  The
\* start_height filter is applied after the recursion and is abstracted.
RECURSIVE AncestorsFrom(_, _)
AncestorsFrom(found, frontier) ==
    LET next == {a \in archived : renewedTo[a] \in frontier} \ found
    IN  IF next = {} THEN found ELSE AncestorsFrom(found \cup next, next)

AncestorContracts(id) == AncestorsFrom({}, {id})

-----------------------------------------------------------------------------
(* Contract ledger.                                                       *)

\* Fault variant: contract_set_contracts declared without OnDelete:CASCADE.
RemoveContractRowNoCascade(c) ==
    /\ contracts' = contracts \ {c}
    /\ UNCHANGED setMembers
    /\ contractSectors' = [r \in Sectors |-> contractSectors[r] \ {c}]

\* removeContract: delete the contracts row; the declared cascades delete
\* its contract_set_contracts and contract_sectors rows.
RemoveContractRow(c) ==
    /\ contracts' = contracts \ {c}
    /\ setMembers' = setMembers \ {c}
    /\ contractSectors' = [r \in Sectors |-> contractSectors[r] \ {c}]

\* AddContract: addContract with RenewedFrom = the zero id and spending
\* zero.  The host row exists for every host of the model; an id is fresh.
AddContract(c) ==
    /\ c \in FCIDs \ issued
    /\ contracts' = contracts \cup {c}
    /\ renewedFrom' = [renewedFrom EXCEPT ![c] = NoContract]
    /\ spending' = [spending EXCEPT ![c] = 0]
    /\ issued' = issued \cup {c}
    /\ UNCHANGED <<archived, renewedTo, setMembers, contractSectors, latestHost,
                   objects, uploads, setUpdates, setFetch, archivedSpending,
                   recorded, records>>

\* AddRenewedContract's transaction: fetch the old contract (else
\* ErrContractNotFound and rollback), copy it with its spending to
\* archived_contracts with RenewedTo = the new id, removeContract(old), and
\* addContract(new) with RenewedFrom = old and the given spending.
Renewal(c, old, newSpending) ==
    /\ c \in FCIDs \ issued
    /\ old \in contracts
    /\ old \notin archived             \* archived_contracts.fcid is unique
    /\ HostOf[c] = HostOf[old]         \* a renewal is formed with the same host
    /\ archived' = archived \cup {old}
    /\ renewedTo' = [renewedTo EXCEPT ![old] = c]
    /\ archivedSpending' = [archivedSpending EXCEPT ![old] = spending[old]]
    /\ contracts' = (contracts \ {old}) \cup {c}
    /\ setMembers' = setMembers \ {old}
    /\ contractSectors' = [r \in Sectors |-> contractSectors[r] \ {old}]
    /\ renewedFrom' = [renewedFrom EXCEPT ![c] = old]
    /\ spending' = [spending EXCEPT ![c] = newSpending]
    /\ issued' = issued \cup {c}
    /\ UNCHANGED <<latestHost, objects, uploads, setUpdates, setFetch, recorded, records>>

\* Fault variant: the new contract inserted with the old one's spending.
AddRenewedContractCarrySpending(c, old) == Renewal(c, old, spending[old])

\* AddRenewedContract: the new contract is renewed from old and its
\* spending starts at zero.
AddRenewedContract(c, old) == Renewal(c, old, 0)

\* RemoveContract: removeContract outside any transaction; deleting a row
\* that does not exist is not an error and changes nothing.
RemoveContract(c) ==
    /\ c \in Removable
    /\ c \in contracts
    /\ RemoveContractRow(c)
    /\ UNCHANGED <<renewedFrom, archived, renewedTo, issued, latestHost, objects,
                   uploads, setUpdates, setFetch, spendVars>>

\* The dbContracts a "fcid IN (?)" query returns for ids: the rows that
\* exist, each with its spending as read.
Rows(ids) == [c \in ids \cap contracts |-> spending[c]]

\* gorm saving associated rows (INSERT ... ON CONFLICT DO NOTHING): a row
\* deleted since it was read is inserted again, as it was read.
Upsert(rows) ==
    /\ contracts' = contracts \cup DOMAIN rows
    /\ spending' = [c \in FCIDs |->
                       IF c \in DOMAIN rows \ contracts THEN rows[c] ELSE spending[c]]

\* SetContractSet, first two statements (no transaction): fetch the
\* contracts whose fcid is in the list (unknown ids drop out), then
\* FirstOrCreate the set (it exists in the model).
SetContractSetFetch(fcids) ==
    /\ setUpdates < MaxSetUpdates /\ ~setPending
    /\ setPending' = TRUE /\ setFetched' = Rows(fcids)
    /\ setUpdates' = setUpdates + 1
    /\ UNCHANGED <<contracts, renewedFrom, archived, renewedTo, issued, setMembers,
                   contractSectors, latestHost, objects, uploads, spendVars>>

\* Its last statement, Association("Contracts").Replace(&dbContracts): gorm
\* upserts the fetched rows, then the set's join rows become exactly the
\* fetched contracts.
SetContractSetReplace ==
    /\ setPending
    /\ Upsert(setFetched)
    /\ setMembers' = DOMAIN setFetched
    /\ setPending' = FALSE
    /\ UNCHANGED <<renewedFrom, archived, renewedTo, issued, contractSectors,
                   latestHost, objects, uploads, setUpdates, setFetched,
                   archivedSpending, recorded, records>>

\* RecordContractSpending, one record: in its own transaction, take the
\* contract by fcid (absent: skip it, "continue with next one"), add the
\* record's amounts and Save the row.  Amounts are counted in units.
RecordContractSpending(c) ==
    /\ records < MaxRecords
    /\ records' = records + 1
    /\ IF c \in contracts
          THEN /\ spending' = [spending EXCEPT ![c] = @ + 1]
               /\ recorded' = [recorded EXCEPT ![c] = @ + 1]
          ELSE UNCHANGED <<spending, recorded>>
    /\ UNCHANGED <<contracts, renewedFrom, archived, renewedTo, issued, setMembers,
                   contractSectors, latestHost, objects, uploads, setUpdates,
                   setFetch, archivedSpending>>

-----------------------------------------------------------------------------
(* Objects and slabs.                                                     *)

\* Link shard i of slab s, stored on host place[i], to the contract
\* usedContracts[place[i]] when that contract was found.  (The host_sectors
\* association the code appends alongside is not read by any modelled
\* query and is left out.)
\* Shards of the slab not in DOMAIN place are left alone.
LinkContracts(s, place, usedContracts, found) ==
    [r \in Sectors |-> contractSectors[r] \cup
        {usedContracts[place[i]] : i \in {j \in DOMAIN place :
              ShardsOf[s][j] = r /\ usedContracts[place[j]] \in found}}]

\* FirstOrCreate the sector with Assign(LatestHost): shard i's sector
\* records place[i] as its latest host.
AssignLatestHost(s, place) ==
    [r \in Sectors |-> IF \E i \in DOMAIN place : ShardsOf[s][i] = r
                        THEN place[CHOOSE i \in DOMAIN place : ShardsOf[s][i] = r]
                        ELSE latestHost[r]]

\* The host->contract maps a caller may pass: every shard host has an entry
\* (the sanity check of UpdateObject), and each entry is a contract the
\* caller learnt of for that host, possibly renewed or removed since.
UsedContractMaps(hosts) ==
    {uc \in [hosts -> issued] : \A h \in hosts : HostOf[uc[h]] = h}

\* The shard placements an upload produces: every shard on a distinct host.
Placements(s) == {p \in [1..TotalShards(s) -> Hosts] : IsInjective(p)}

\* UpdateObject: after the sanity check, in one transaction removeObject
\* (cascading to the old slab), create the object, its slice and slab (the
\* slab key is unique, so a slab held by another object rolls back), and
\* per shard FirstOrCreate the sector, create the shard row and Append the
\* contract and host when found.
UpdateObject(k, s, place, usedContracts) ==
    /\ uploads < MaxUploads
    /\ \A k2 \in ObjKeys \ {k} : objects[k2] # s
    /\ objects' = [objects EXCEPT ![k] = s]
    /\ contractSectors' = LinkContracts(s, place, usedContracts, contracts)
    /\ latestHost' = AssignLatestHost(s, place)
    /\ uploads' = uploads + 1
    /\ UNCHANGED <<contracts, renewedFrom, archived, renewedTo, issued, setMembers,
                   setUpdates, setFetch, spendVars>>

\* RemoveObject: removeObject; the cascade deletes slices, slabs and shards.
RemoveObject(k) ==
    /\ objects[k] # NoSlab
    /\ objects' = [objects EXCEPT ![k] = NoSlab]
    /\ UNCHANGED <<contracts, renewedFrom, archived, renewedTo, issued, setMembers,
                   contractSectors, latestHost, uploads, setUpdates, setFetch, spendVars>>

\* UpdateSlab's lookups before its transaction: the contracts of
\* usedContracts that have a row (found by fcid); the hosts all exist in the
\* model, and the slab must exist (else "slab not found").
FoundContracts(usedContracts) == Rows(Range(usedContracts))

\* Fault variant: the sectors updated without appending their contracts.
UpdateSlabNoAppend(s, place, usedContracts, found) ==
    /\ latestHost' = AssignLatestHost(s, place)
    /\ UNCHANGED <<contracts, renewedFrom, archived, renewedTo, issued, setMembers,
                   contractSectors, objects, uploads, setUpdates, setFetch, spendVars>>

\* UpdateSlab's transaction for the shards in DOMAIN place, with what its
\* lookups found before it (the slab, taken with its shards, and the
\* contracts): per shard FirstOrCreate the sector (latest host), create a
\* shard row only for a sector not among the slab's shards (never, since a
\* repaired shard keeps its root, so a slab deleted since the lookup does
\* not roll the transaction back), and Append the found contract.  Append
\* saves the contract row first (ON CONFLICT DO NOTHING), so one deleted
\* since the lookup is inserted again.  Associations only grow.
UpdateSlab(s, place, usedContracts, found) ==
    /\ Upsert(Restrict(found, DOMAIN found \cap {usedContracts[place[i]] : i \in DOMAIN place}))
    /\ contractSectors' = LinkContracts(s, place, usedContracts, DOMAIN found)
    /\ latestHost' = AssignLatestHost(s, place)
    /\ UNCHANGED <<renewedFrom, archived, renewedTo, issued, setMembers,
                   objects, uploads, setUpdates, setFetch, archivedSpending,
                   recorded, records>>

-----------------------------------------------------------------------------
(* The store's callers other than the migrator: the autopilot's contract  *)
(* maintenance and the worker's uploads.                                  *)

StoreNext ==
    \/ \E c \in FCIDs : AddContract(c)
    \/ \E c \in FCIDs, old \in FCIDs : AddRenewedContract(c, old)
    \/ \E c \in FCIDs : RemoveContract(c)
    \/ \E fcids \in SetChoices : SetContractSetFetch(fcids)
    \/ SetContractSetReplace
    \/ \E c \in FCIDs : RecordContractSpending(c)
    \/ \E k \in ObjKeys, s \in Slabs : \E place \in Placements(s) :
           \E uc \in UsedContractMaps(Range(place)) : UpdateObject(k, s, place, uc)
    \/ \E k \in ObjKeys : RemoveObject(k)

StoreSpec == StoreInit /\ [][StoreNext]_storeVars

-----------------------------------------------------------------------------
(* Properties of the store.                                               *)

\* Spec 3: the ledger never holds more spending for a contract than was
\* recorded against it, in its active row or in its archived copy: a
\* renewal archives the old row's totals and starts the new contract at
\* zero, and a row that SetContractSet or UpdateSlab inserts again carries
\* totals read earlier, never more.
SpendingNotOvercounted ==
    /\ \A c \in contracts : spending[c] <= recorded[c]
    /\ \A a \in archived : archivedSpending[a] <= recorded[a]

\* Spec 4.1 and 8: UnhealthySlabs returns every slab of the set whose count
\* of good sectors is below its total shard count.
UnhealthySlabsComplete ==
    \A s \in SlabRows : NumGoodSectors(s) < TotalShards(s) => s \in UnhealthySet

\* Spec 4.3: RemoveContract deletes a contract and AddRenewedContract
\* moves one to the archive; a contract id is a hash and never reused, so a
\* contract that has left the active table never has a row there again,
\* whatever the store's other writers do meanwhile.
DeletedContractsStayDeleted ==
    [][\A c \in issued \ contracts : c \notin contracts']_storeVars

\* The hosts a sector is reachable through (its contracts' hosts).
LinkedHosts(r) == {HostOf[c] : c \in contractSectors[r]}

\* Spec 3 and 4.1: a renewal changes which contract a shard is held under,
\* not whether its host holds it; AddRenewedContract leaves every sector
\* linked to the same hosts (through the old contract or the new one).
RenewalKeepsSectorHosts ==
    [][archived' # archived => \A r \in Sectors : LinkedHosts(r)' = LinkedHosts(r)]_storeVars

=============================================================================
