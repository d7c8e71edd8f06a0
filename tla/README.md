# TLA+ models of renterd's metadata store and migrator

This directory holds TLA+ models of the parts of renterd (LumeWeb/renterd) that
decide **which slabs are unhealthy and get repaired**. Those parts are:

- the SQL metadata store (package `stores`, in `src/unnamed/part_001`);
- the autopilot's migrator (package `autopilot`, embedded in
  `src/CHANGELOG.md` lines 112-187).

TLC checks them under every interleaving of their callers. The worker's
host resolver (`src/worker/dialer.go`) and the renter side of the RHPv3
transport (`src/unnamed/part_000`, package `rhp`) are modelled too.

## The system

| Part | Source | State | Operations |
|---|---|---|---|
| Contract ledger | `part_001` `SQLStore` | `contracts`, `archived_contracts` (with `renewed_to`), `contracts.renewed_from` | `AddContract`, `AddRenewedContract`, `RemoveContract`, `AncestorContracts`, `RecordContractSpending` |
| Contract set | `part_001` `SetContractSet` | `contract_sets`, `contract_set_contracts` | `SetContractSet` (fetch by fcid, FirstOrCreate, Replace) |
| Object/slab store | `part_001` | `objects`, `slices`, `slabs`, `shards`, `sectors.latest_host`, `contract_sectors`, `host_sectors` | `UpdateObject`, `RemoveObject`, `UpdateSlab`, `UnhealthySlabs`, `Object(s)` |
| Migrator | `CHANGELOG.md` 112-187 | `running` under `m.mu`, plus the pass goroutine | `TryPerformMigrations`, `performMigrations` |
| Transport | `part_000` package `rhp` | the mux stream, the once-only subscriber-ack read | `DialStream`, `RPCPriceTable`, `RPCAccountBalance`, `RPCFundAccount`, `RPCReadRegistry`, `RPCUpdateRegistry` |
| Host resolver | `worker/dialer.go` | `hostCache` (hostname → IP) under an RWMutex | `Dial` (DNS, then cache, then the bus's addresses), `Get`, `Set`, `Clear` |
| Bus | `CHANGELOG.md` 188-872 | none of its own | HTTP routes onto the stores and the worker |

### How the parts interact

1. The autopilot calls `TryPerformMigrations` on every loop iteration.
2. A pass asks the bus for `SlabsForMigration("autopilot", 100)`. The bus
   serves this with `UnhealthySlabs`, and the pass hands each slab to the
   worker's `MigrateSlab`.
3. `MigrateSlab` is not in this repository. It re-uploads the shards that
   are not on a distinct host of the set, then calls `UpdateSlab`.
4. `UpdateSlab` appends the new contract associations to the sectors.
5. Meanwhile the autopilot renews and removes contracts and replaces the
   contract set, and uploads call `UpdateObject`. A slab's health is always
   relative to the contract set:
   - `UnhealthySlabs` counts the distinct hosts of the slab's sectors'
     contracts that are set members (`COUNT(DISTINCT c.host_id)`);
   - it returns the slabs whose count is below `total_shards`, worst first.

### What is hard to test here

- A renewal cascades away the old contract's `contract_sectors` rows.
- The `INNER JOIN` on set membership drops slabs that have no good sector.
- The migrator's loop ends only on an empty fetch.
- `TryPerformMigrations` races the reset at the end of a pass.
- `UpdateSlab` and `SetContractSet` read outside their transaction.
- `hostCache.Clear` races `Set`.
- The transport ignores the error of the cancellation-token read and reads
  the registry output with a single `Read`.

`PROJECT.json` lists each of these hazards at its source line.

## Modules

### `MetadataStore.tla`: the store

Each store method is one action. The database runs the methods wrapped in
`db.Transaction` atomically. A method that fails part way rolls back, so it
is modelled as a step that is not taken.

**State.** Each table is a variable:

| Variable | Models |
|---|---|
| `contracts` | the `contracts` rows |
| `renewedFrom` | `contracts.renewed_from` |
| `archived`, `renewedTo` | `archived_contracts` and its `renewed_to` |
| `issued` | every fcid ever inserted (fcids are hashes, never reused) |
| `setMembers` | `contract_set_contracts` of the set the migrator uses |
| `contractSectors` | `contract_sectors`: sector root → contracts |
| `latestHost` | `sectors.latest_host` |
| `objects` | `objects`/`slices`/`slabs`: path → slab |
| `spending`, `archivedSpending` | `contracts.*_spending` and `archived_contracts.*_spending`, as one count of units |
| `recorded`, `records` | history: the units `RecordContractSpending` applied to each fcid, and the calls made (bounded by `MaxRecords`) |

**Data abstraction.** Contracts, hosts, slabs, sector roots and paths are
model values. Costs and heights are left out: no modelled query reads
them. Spending is kept as a single count of units, because renewal,
`RecordContractSpending` and gorm's upserts all move it.

**Actions:**

- `AddContract` takes a fresh fcid with zero spending.
- `AddRenewedContract` (the operator `Renewal`) does everything in one step:
  archives the old contract with `renewed_to` and its spending, deletes it
  (with the cascade), and inserts the new contract with `renewed_from` and
  zero spending.
- `RecordContractSpending` applies one record of one unit. A contract that
  is not in `contracts` is skipped, as the code's `continue` on
  `ErrRecordNotFound` does.
- `RemoveContract` deletes a contract, with the cascade.
- `SetContractSet` is two steps, because its statements run outside a
  transaction:
  - `SetContractSetFetch` reads the rows of the given fcids;
  - `SetContractSetReplace` is the `FirstOrCreate` and the
    `Association.Replace`. gorm's Replace upserts the fetched contract rows
    (`Rows`, `Upsert`) before it writes the join rows, so a contract removed
    since the fetch is inserted again, with the spending it had when fetched.
- `UpdateObject`:
  - enumerates every injective shard placement;
  - enumerates every host→contract map whose contracts were issued for that
    host, including stale ones, which the code then finds missing and does
    not link;
  - a slab key held by another object rolls back (`slabs.key` is unique).
- `RemoveObject` deletes the object, with the cascade.
- `UpdateSlab` assigns `latest_host` and appends the contracts it found.
  Its lookups (`FoundContracts`) run before the transaction, so its
  arguments carry what was found then. A repaired shard keeps its root, so
  the transaction creates no row whose foreign key could fail: it commits
  even when the slab was deleted meanwhile. Like Replace, gorm's `Append`
  upserts the contract rows, so a contract removed since the lookup is
  inserted again.

Two conversions are modelled by what they do. `StoredTotalShards` is
`uint8(len(shards))`, i.e. the count modulo 2^8, as `slabs.total_shards`
stores it. `Hydrate` is `dbSlab.convert`: a copy of the slab whose shard
hosts are the sectors' `latest_host` at query time.

`host_sectors` is left out because no modelled query reads it.

**Queries as operators:**

- `UnhealthySlabs(limit)` is the set of every result the SQL may return. It
  has the `GROUP BY`/`HAVING`, the `num_bad_sectors DESC` order with ties in
  any order, and the limit. A group exists only for a slab that has at
  least one row joined to a set contract.
- `AncestorContracts` is the recursive CTE, written as a `RECURSIVE`
  operator that adds archived contracts level by level. No run checks it:
  a comparison with the closure it computes would restate its definition.

### `Migration.tla`: migrator and store composed

`Migration` EXTENDS `MetadataStore`. It adds `running`, and for each pass
goroutine a `pc`, the batch it fetched (`toMigrate`) and its index (`idx`).

**Actions:**

- `TryPerformMigrations` is the locked check-and-set of `running`, plus
  starting the goroutine.
- `FetchSlabs` takes one of three branches:
  - a fetch error (bounded by `MaxFailures`);
  - an empty batch, which makes the pass return;
  - a batch drawn from `UnhealthySlabs(MigratorBatchSize)`, held as
    hydrated copies (`Batch`). Later slabs of the batch may be stale by the
    time they are migrated.
- `MigrateNext` calls `MigrateSlab` on one slab. When it fails, the error
  is ignored and `NextSlab` moves to the next slab or back to the fetch.
  When it succeeds, it ends with `UpdateSlab`'s lookups and records them in
  `update`.
- `UpdateSlabCommit` is `UpdateSlab`'s transaction. It runs as a separate
  step, so other callers may change the store between the lookup and the
  commit. It has no failure branch: the transaction cannot fail in the
  modelled store. It then moves to the next slab.
- `ResetRunning` is the goroutine's locked `running = false`.

The store's other callers interleave freely with the migrator.

**Refinement.** `MigratorAbstract.tla` is what the migrator promises in
spec §4.2 (CHANGELOG): an Idle/Running scheduler. `Start` sets the flag and
begins a pass, `EndPass` ends the pass, and `Reset` clears the flag. The
abstract spec has weak fairness on `Start` and `Reset`.
`Migration` instantiates it with two mappings:
- `running <- running`;
- `active <- \E g : InPass(g)`.

`ImplementsAbstract` checks that the composed migrator implements it,
including its liveness. A second, unlocked `TryPerformMigrations` during a
pass is a stutter of the abstract spec, so `AtMostOnePass` is still checked
separately.

**The worker's `MigrateSlab`** is not in this repository. It is modelled
from the spec (§4.1, §5) and marked `spec_modelled` in the map:

- it sees each shard at the host of the batch's copy, hydrated when the
  batch was fetched, which may be stale;
- it keeps shards on distinct hosts of the set and moves the rest onto
  other set hosts;
- it pays each host through one of that host's set contracts, then calls
  `UpdateSlab` with every shard;
- it fails, changing nothing, when the slab was deleted or the set has too
  few hosts, and otherwise fails transiently within `MaxFailures`.

### `Dialer.tla`: the host resolver

Concurrent `fallbackDialer.Dial` calls for one hostname share `hostCache`.
Hostnames are independent of each other, so one hostname is enough.

**State.**

- `cache` is `hc.cache[host]`.
- Each call has a program counter `pc` at the branch of `Dial` it is in.
- Each call also has the IP its `Get` returned (`cachedIP`), its index into
  `ResolvedAddresses` (`i`), and its `result`.

**Steps.**

- `Get`, `Set` and `Clear` each hold `hc.mu` for their whole body, so each
  is one step.
- DNS resolution, dialing and `bus.Host` touch no shared state. Their
  outcomes are nondeterministic, and each is merged into the step that acts
  on it: `ResolveOK` is a `Set`, and a successful `BusDial` is a `Set`.
- The actions are `SplitFail` (a malformed address returns before the
  cache is touched), `ResolveOK`, `ResolveFail`, `CacheGet`, `CacheDial`,
  `CacheClear`, `BusHost` and `BusDial`. `BusDial` is the loop over the
  bus's addresses, `BusDialUpTo` with the loop's last index.
- Every call is weakly fair, because it runs on its own goroutine.

### `Transport.tla`: the RHPv3 transport, renter side

One `Transport` runs its seed handshake and then one RPC stream at a time.
Streams are independent in the mux, so one at a time is enough. A stream is
two FIFO channels of frames. A frame is named by what it carries; its bytes
are abstracted away.

**Scripts.** Each RPC function (`RPCPriceTable`, `RPCAccountBalance`,
`RPCFundAccount`, `RPCReadRegistry`, `RPCUpdateRegistry`) is a script: the
blocking calls it makes on its stream, in order. The calls are:
- `W`: write;
- `R`: `readResponse`;
- `Drain`: a read whose error is ignored;
- `Local`: an unmarshal or a `paymentFunc`;
- `CheckLen`: the `OutputLength` test;
- `RawRead`: the single `s.Read` of the registry output.

The registry scripts start with `W("rawid")`, because the code writes the
ExecuteProgram ID with `s.Write` and no length prefix.

`writeRequest` writes no request object when it is nil.
`processPayment` adds the payment response for a contract payment.

**Renter.** It executes one call per step and returns at the first error it
does not ignore. `Finish` is the return together with the deferred
`s.Close()`. `NewRenterTransport` returns the `Transport` even when the
seed handshake fails, with its mux open: the session is then `"failed"`
until `Close`. `RemoteError` is `readResponse` returning a decoded
RPCError. Before the first read, `ReadSubscriberResponse` is
`stream.Read`'s `once.Do`. A failure there, EOF included, is kept and
returned by every later read.

**Host.** The host's code is not in this repository. It is the mirror
script, written from spec §4.4 and marked `spec_modelled`. At any response
it may send an RPCError instead and close; the history variable `hostErr`
records that it did. It reads every request framed. A frame of another
kind (the raw ID) is one it cannot decode: it ends the RPC, with an
RPCError unless the renter has already closed. `HostInSync` says this
never happens, and `transport_raw_id` shows that it does. The host's script
for a registry RPC therefore ends at the execute response: it never gets
further, so the renter's `CheckLen` and `RawRead` are never reached, and the
output is not modelled.

**Faults.** `ResetStream` loses the frames in flight and closes both ends.
`Close` is `Transport.Close`. Either may happen at any moment.

### MC modules

- `MCMetadataStore.tla` sets up 3 hosts (A, B, C) and contracts `c1`–`c5`.
  `c1`, `c4` and `c5` are with A, so renewal chains reach length two. It has
  two slabs of two shards each, and three set choices: all contracts, A's
  contracts, or B's and C's.
- `MCDialer.tla` has three concurrent calls, two IPs, and a bus that knows
  both IPs.
- `MCMigration.tla` reuses those values and adds the goroutine symmetry. It
  also defines `MCLiveSetChoices`, sets that always keep two hosts.
- The `Transport` configs instantiate `Transport` directly. They use all
  five RPCs, both payment kinds, and output lengths 0, 72 and 73, which
  are just below and at `MinReadOutput`.

## Runs

| Run | Config | Expect | What it shows |
|---|---|---|---|
| `store_ledger` | `MCMetadataStore.cfg` | pass | The schema's foreign keys hold (`TypeOK`). `SpendingNotOvercounted`: no live or archived contract shows more spending than was recorded against it, even after gorm's upserts re-insert a removed contract with its old spending. Checked under all interleavings of formation, renewal, removal, set replacement, spending records and uploads. |
| `unhealthy_hidden` | `MCUnhealthyHidden.cfg` | violation | `UnhealthySlabsComplete` fails. Upload a slab to B and C, then make the set A's contracts: the slab has zero good sectors and `UnhealthySlabs` does not return it. |
| `renewal_drops_links` | `MCRenewalLinks.cfg` | violation | `RenewalKeepsSectorHosts` fails. Upload a slab, then renew `c1` to `c4`: `r1` is no longer linked to any contract of host A. |
| `migrator_single_flight` | `MCMigration.cfg` | pass | `AtMostOnePass`, and the batch index stays within the batch (`MigratorTypeOK`). `ImplementsAbstract`: the migrator refines the Idle/Running scheduler, fairness included. Checked for two goroutines, under every interleaving with the store (373k states, about 2 minutes). |
| `migration_livelock` | `MCPassLivelock.cfg` | violation | `PassTerminates` fails. With the set reduced to one host, a two-shard slab's `MigrateSlab` fails on every attempt, and the pass refetches it forever. |
| `migration_restores_health` | `MCMigrationLive.cfg` | pass | `MigrationRestoresHealth`: if every set choice keeps two hosts and no contract is renewed or removed, every unhealthy slab is eventually healthy or deleted, with batches of two whose second slab may be stale when it is migrated. |
| `dialer_terminates` | `MCDialer.cfg` | pass | `DialTerminates`: every `Dial` returns, under every DNS, dial and bus outcome and every interleaving of the three calls. |
| `slab_update_resurrects` | `MCStaleSlabUpdate.cfg` | violation | `DeletedContractsStayDeleted` fails. The migrator's `UpdateSlab` looks up `c2`, `RemoveContract(c2)` runs, and then the commit's `Append` inserts `c2` again. |
| `transport_in_sync` | `MCTransport.cfg` | pass | `RenterInSync`: on every stream the next frame the renter reads is one it can decode: the once-per-stream subscriber response, then the response it expects or an RPCError. This holds even when the host rejects an undecodable request. `OkOnlyIfServed`: an RPC returns without error only if the host sent no RPCError on its stream. The dropped cancellation-token error does not let a failed RPC succeed, because the host closes after it. `StreamsEnd`: every RPC stream ends, under host errors, resets and `Close`. |
| `transport_error_swallowed` | `MCTransportError.cfg` | violation | `HostErrorSurfaced` fails. The renter of a registry RPC pays from an account and writes its program. The host rejects the raw ID with an RPCError, the renter drains that error as the cancellation token, and the RPC then fails with EOF. |
| `transport_raw_id` | `MCTransportRawID.cfg` | violation | `HostInSync` fails. The registry RPCs write the ExecuteProgram ID as 16 raw bytes, so a host that reads every request length-prefixed gets a frame it cannot decode. |
| `dialer_clear_race` | `MCDialerClear.cfg` | violation | `ClearOnlyFailedIP` fails. Call 2's DNS fails and it gets `ip1` from the cache, and its dial of `ip1` fails. Call 3 then resolves `ip2` and `Set`s it. Call 2's `Clear` erases `ip2`, an address that never failed. |

The seven violation runs are recorded as findings in `PROJECT.json`.

- **`unhealthy_hidden`** is a code bug against spec §4.1 and §8. The most
  degraded slabs are exactly the ones the migrator never sees.
- **`renewal_drops_links`** diverges from spec §3/§4.1. Every renewal turns
  the renewed host's shards into bad shards. Together with the first
  finding, a slab whose shards were all on renewed contracts disappears
  from repair.
- **`dialer_clear_race`** diverges from spec §4.5, which says an entry is
  invalidated only when the cached IP fails to connect.
- **`migration_livelock`** diverges from spec §4.2, which says no slab is
  retried within a pass. The pass never returns, so the migrator stays
  `running` for good.
- **`slab_update_resurrects`** is a code bug against spec §4.3: an archived
  or removed contract is gone for good. The run sets `MaxSetUpdates` to 0,
  so the counterexample is `UpdateSlab`'s. `SetContractSet` has the same
  race: its fetch, then `RemoveContract`, then Replace. With
  `MaxSetUpdates = 1`, TLC breaks the same property that way in three
  steps. That race is listed as a hazard.
- **`transport_error_swallowed`** diverges from spec §4.4. A host error is
  surfaced to the caller as an RPCError, but this one is reported as an
  EOF.
- **`transport_raw_id`** diverges from spec §4.4, which says every message,
  requests included, is length-prefixed. `RPCReadRegistry` (part_000:288)
  and `RPCUpdateRegistry` (:337) write the ID raw. Every other RPC frames its
  ID with `writeRequest`. Against such a host, neither registry RPC gets past
  its first request. Their output-length checks and their single `s.Read`
  of the output (:306, which would need `io.ReadFull`) are never reached.

Each property of a passing run has a mutant in `PROJECT.json`, and TLC
finds the property violated when the mutant replaces the code's
definition:

| Mutant | Property it breaks |
|---|---|
| `RemoveContractRowNoCascade` (the set's join rows kept) | `TypeOK` |
| `AddRenewedContractCarrySpending` (the new contract starts with the old one's spending) | `SpendingNotOvercounted` |
| `FetchSlabsNoEmptyCheck` | `MigratorTypeOK` |
| `TryPerformMigrationsUnlocked` | `AtMostOnePass` |
| `TryPerformMigrationsNoFlag` (a pass started without setting `running`) | `ImplementsAbstract` |
| `UpdateSlabNoAppend` | `MigrationRestoresHealth` |
| `writeRequestNil` (a nil request written) | `Transport`'s `TypeOK` |
| `RenterReadNoOnce` (the subscriber response read before every read) | `RenterInSync` |
| `FinishNoClose` (no deferred `s.Close()`) | `StreamsEnd` |
| `RemoteErrorIgnored` (`readResponse` returns nil for a decoded RPCError) | `OkOnlyIfServed` |
| `BusDialPastEnd` (the loop bound off by one) | `Dialer`'s `TypeOK` |
| `CacheDialRetry` (a failed cached IP sends the call back to DNS without clearing it) | `DialTerminates` |

## Bounds, and why they are enough

- **Three hosts and two-shard slabs.** A slab can be fully healthy, have a
  shard on a host outside the set, have both shards on one host (the
  `COUNT DISTINCT` case), and be repaired onto a third host.
- **Two slabs and two object keys.** One object can be re-uploaded while
  the other slab is migrated, and `UnhealthySlabs`' order and limit have two
  candidates to choose between.
- **Five fcids.** Two renewals in a chain exercise the CTE's recursion.
  `store_ledger` uses one object key and one upload to keep the run under
  10k states; the migration runs use `FCIDs = InitContracts`.
- **`MaxUploads` = 2, `MaxSetUpdates` = 1, `MaxFailures` = 1.** These cap
  the callers' counters. Each is a named constant.
- **`MigratorBatchSize` = 1** in `MCMigration.cfg`, which is enough for the
  loop's refetch and empty-batch paths, and **2** in `MCMigrationLive.cfg`,
  so that the second slab of a batch goes stale while the first is migrated.
- **`MaxRecords` = 1** in `store_ledger` and 0 elsewhere: one spending
  record can land on a live, renewed or removed contract; 2 takes over five
  minutes.
- **No symmetry.** `MCMigration.cfg` checks the refinement, which includes
  liveness, so it does not use goroutine symmetry.
- **`MCStaleSlabUpdate.cfg`** uses `Removable = {c1, c2}`. The contract
  removed must be the one the repair pays, and which one that is depends on
  the placement.
- **Transport.** Five RPCs cover every early return and both payment kinds.
  Both registry RPCs reach the host's decode failure, with either
  payment. One stream at a time is enough because mux
  streams do not share state.

The store run and the dialer runs set `CHECK_DEADLOCK FALSE`. The store is
passive: once its bounded callers are done, nothing is left to do. Each
`Dial` call returns, and then the dialer has nothing left to do either. The migration runs check
for deadlock.

## Fairness

- **`TryPerformMigrations`** is weakly fair, because the autopilot's loop
  calls it on every iteration.
- **Each goroutine's steps** (`FetchSlabs`, `MigrateNext`, `ResetRunning`)
  are weakly fair, because a started goroutine is scheduled.
- **Each `Dial` call** is weakly fair, for the same reason as the pass
  goroutine.
- **The store's other callers** have no fairness: uploads, renewals and set
  changes may or may not happen.
- **`UpdateSlabCommit`** is weakly fair, because it is the same goroutine
  continuing.
- **The transport's renter** is weakly fair, because the RPC runs on its
  caller's goroutine.
- **The transport's host** is weakly fair. This is an assumption: a host
  that follows the protocol keeps answering. Without it, `StreamsEnd` would
  depend on the stream's deadline, which is not modelled.
- **`ResetStream` and `Close`** have no fairness.

## Not modelled, and the plan

| Part | Status | Reason, and what is planned |
|---|---|---|
| `RecordContractSpending` failing part way | not modelled | Each record is one atomic transaction, as `db.Transaction` makes it. A database error after some records committed is not modelled, and whether the caller retries the batch is decided outside this repository. |
| `FindInBatches` pagination in `UnhealthySlabs` | not modelled | The query is one set-valued operator; paging over a changing table is left out. |
| `total_shards` wrap at 256 shards | modelled, not reached | `StoredTotalShards` keeps the `% 2^8`, but two-shard slabs never reach it. |
| Transport deadlines, `errLen` size checks | not modelled | The code sets no deadline, and a host that stops answering without closing would block an RPC forever: `StreamsEnd` assumes the host keeps answering. `errLen` is a length, and lengths are abstracted. |
| Closing a Transport whose handshake failed | modelled, not checked | The `"failed"` session stays open until `Close`; whether the caller closes it is outside this repository. |
| Host side of RHPv3, worker `MigrateSlab` | from the spec | Their code is not in this repository. |
| Bus, HTTP, ContractRow scanning, test mocks | not modelled | Glue and pure conversions; see `PROJECT.json`. |

Other things left out:

- `host_sectors`.
- The read-only `Object` and `Objects`.
- The `start_height` filter of `AncestorContracts`.
- Renter-side encryption and erasure coding.
