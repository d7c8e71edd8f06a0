----------------------------- MODULE Migration -----------------------------
(***************************************************************************)
(* The autopilot's migrator (package autopilot, type migrator) driving     *)
(* repairs against the metadata store.                                     *)
(*                                                                         *)
(* TryPerformMigrations checks and sets the running flag under m.mu and,   *)
(* when it was clear, starts a goroutine that runs performMigrations and   *)
(* then clears the flag under m.mu.  Every access to running is under the  *)
(* mutex, so each locked section is one step.  performMigrations loops:    *)
(* fetch up to migratorBatchSize slabs of the contract set "autopilot"     *)
(* (SlabsForMigration, served by UnhealthySlabs), return on an error or an *)
(* empty batch, else call the worker's MigrateSlab on each slab in order,  *)
(* skipping failures, and fetch again.                                     *)
(*                                                                         *)
(* MigrateSlab is the worker's (not in this repository): it re-uploads    *)
(* the shards whose latest host is not a distinct host of the set to      *)
(* other hosts of the set and then calls the store's UpdateSlab; it fails *)
(* when the set has too few hosts, or on a transient error.               *)
(***************************************************************************)
EXTENDS MetadataStore

CONSTANTS
    Goroutines,         \* identities for the goroutines TryPerformMigrations starts
    MigratorBatchSize,  \* migratorBatchSize
    MaxFailures,        \* bound on transient errors (fetch and MigrateSlab)
    NoUpdate            \* a goroutine not inside UpdateSlab

VARIABLES
    running,   \* migrator.running
    pc,        \* per goroutine: "idle" (not started / exited), "fetch",
               \* "migrate" (inside the batch loop), "reset" (pass returned)
    toMigrate, \* per goroutine: the batch being migrated, hydrated at the fetch
    idx,       \* per goroutine: index in toMigrate of the next slab
    update,    \* per goroutine: the UpdateSlab call between lookup and transaction
    failures   \* transient errors so far (bounded)

migratorVars == <<running, pc, toMigrate, idx, update, failures>>
vars == <<storeVars, migratorVars>>

MigratorTypeOK ==
    /\ TypeOK
    /\ running \in BOOLEAN
    /\ pc \in [Goroutines -> {"idle", "fetch", "migrate", "update", "reset"}]
    /\ toMigrate \in [Goroutines -> Seq([slab : Slabs, hosts : Seq(Hosts \cup {NoHost})])]
    /\ idx \in [Goroutines -> Nat]
    /\ failures \in 0..MaxFailures
    /\ \A g \in Goroutines : (pc[g] = "update") = (update[g] # NoUpdate)
    \* inside the batch loop the index names a slab of the batch
    /\ \A g \in Goroutines :
          pc[g] \in {"migrate", "update"} => idx[g] \in 1..Len(toMigrate[g])

Init ==
    /\ StoreInit
    /\ running = FALSE
    /\ pc = [g \in Goroutines |-> "idle"]
    /\ toMigrate = [g \in Goroutines |-> <<>>]
    /\ idx = [g \in Goroutines |-> 0]
    /\ update = [g \in Goroutines |-> NoUpdate]
    /\ failures = 0

InPass(g) == pc[g] \in {"fetch", "migrate", "update"}

-----------------------------------------------------------------------------
(* The migrator.                                                          *)

\* Fault variant: the running check made outside m.mu.
TryPerformMigrationsUnlocked ==
    /\ \E g \in Goroutines :
          /\ pc[g] = "idle"
          /\ running' = TRUE
          /\ pc' = [pc EXCEPT ![g] = "fetch"]
    /\ UNCHANGED <<toMigrate, idx, update, failures, storeVars>>

\* Fault variant: the goroutine started without setting running.
TryPerformMigrationsNoFlag ==
    /\ ~running
    /\ \E g \in Goroutines :
          /\ pc[g] = "idle"
          /\ pc' = [pc EXCEPT ![g] = "fetch"]
    /\ UNCHANGED <<running, toMigrate, idx, update, failures, storeVars>>

\* TryPerformMigrations: under m.mu, return if running ("migrations still
\* running"); else set running and start the goroutine.
TryPerformMigrations ==
    /\ ~running
    /\ \E g \in Goroutines :
          /\ pc[g] = "idle"
          /\ running' = TRUE
          /\ pc' = [pc EXCEPT ![g] = "fetch"]
    /\ UNCHANGED <<toMigrate, idx, update, failures, storeVars>>

\* The []object.Slab the fetch returns: each slab converted as of the query.
Batch(q) == [i \in DOMAIN q |-> Hydrate(q[i])]

\* Fault variant: an empty batch not checked for.
FetchSlabsNoEmptyCheck(g) ==
    /\ pc[g] = "fetch"
    /\ \/ /\ failures < MaxFailures
          /\ failures' = failures + 1
          /\ pc' = [pc EXCEPT ![g] = "reset"]
          /\ UNCHANGED <<toMigrate, idx>>
       \/ \E q \in UnhealthySlabs(MigratorBatchSize) :
          /\ pc' = [pc EXCEPT ![g] = "migrate"]
          /\ toMigrate' = [toMigrate EXCEPT ![g] = Batch(q)]
          /\ idx' = [idx EXCEPT ![g] = 1]
          /\ UNCHANGED failures
    /\ UNCHANGED <<running, update, storeVars>>

\* One iteration's fetch: SlabsForMigration(migratorContractset,
\* migratorBatchSize).  An error or an empty batch returns from
\* performMigrations.
FetchSlabs(g) ==
    /\ pc[g] = "fetch"
    /\ \/ /\ failures < MaxFailures
          /\ failures' = failures + 1
          /\ pc' = [pc EXCEPT ![g] = "reset"]
          /\ UNCHANGED <<toMigrate, idx>>
       \/ \E q \in UnhealthySlabs(MigratorBatchSize) :
          /\ IF q = <<>>
                THEN /\ pc' = [pc EXCEPT ![g] = "reset"]
                     /\ UNCHANGED <<toMigrate, idx>>
                ELSE /\ pc' = [pc EXCEPT ![g] = "migrate"]
                     /\ toMigrate' = [toMigrate EXCEPT ![g] = Batch(q)]
                     /\ idx' = [idx EXCEPT ![g] = 1]
          /\ UNCHANGED failures
    /\ UNCHANGED <<running, update, storeVars>>

\* The hosts with a contract in the set, as the worker reads them when it
\* migrates.  MigrateSlab sees each shard at the host the batch was
\* hydrated with, which may be stale by now; it keeps a shard whose host is
\* in the set and not already used by an earlier shard, re-uploads every
\* other shard to a distinct set host, and passes every shard with a set
\* contract of its host to UpdateSlab.
SetHosts == {HostOf[c] : c \in setMembers}
KeptShards(snap) ==
    {i \in DOMAIN snap.hosts :
        /\ snap.hosts[i] \in SetHosts
        /\ \A j \in 1..(i - 1) : snap.hosts[j] # snap.hosts[i]}
RepairPlacements(snap) ==
    {p \in [DOMAIN snap.hosts -> SetHosts] :
        /\ IsInjective(p)
        /\ \A i \in KeptShards(snap) : p[i] = snap.hosts[i]}
SetContractMaps(hosts) ==
    {uc \in [hosts -> setMembers] : \A h \in hosts : HostOf[uc[h]] = h}

\* MigrateSlab uploading the shards and calling UpdateSlab, whose lookups
\* (slab, hosts, contracts) run before its transaction and find the slab.
MigrateSlabOK(g, snap) ==
    /\ snap.slab \in SlabRows
    /\ \E p \in RepairPlacements(snap) : \E uc \in SetContractMaps(Range(p)) :
          update' = [update EXCEPT ![g] =
                       [slab |-> snap.slab, place |-> p, uc |-> uc, found |-> FoundContracts(uc)]]
    /\ pc' = [pc EXCEPT ![g] = "update"]
    /\ UNCHANGED <<failures, idx, storeVars>>

\* MigrateSlab failing: always when the slab was deleted meanwhile (its
\* UpdateSlab finds no slab) or no placement exists, else transiently.
CannotMigrate(snap) == snap.slab \notin SlabRows \/ RepairPlacements(snap) = {}
MigrateSlabFails(snap) ==
    /\ CannotMigrate(snap) \/ failures < MaxFailures
    /\ failures' = IF CannotMigrate(snap) THEN failures ELSE failures + 1
    /\ UNCHANGED <<update, storeVars>>

\* Move to the next slab of the batch, or back to the fetch after the last.
NextSlab(g) ==
    IF idx[g] = Len(toMigrate[g])
       THEN /\ pc' = [pc EXCEPT ![g] = "fetch"]
            /\ idx' = [idx EXCEPT ![g] = 0]
       ELSE /\ idx' = [idx EXCEPT ![g] = idx[g] + 1]
            /\ pc' = [pc EXCEPT ![g] = "migrate"]

\* One step of the batch loop: migrate toMigrate[idx]; a failure is
\* ignored and the loop moves on.
MigrateNext(g) ==
    /\ pc[g] = "migrate"
    /\ LET snap == toMigrate[g][idx[g]] IN
          \/ MigrateSlabOK(g, snap)
          \/ MigrateSlabFails(snap) /\ NextSlab(g)
    /\ UNCHANGED <<running, toMigrate>>

\* UpdateSlab's transaction with what its lookups found (it commits even
\* when the slab was deleted since), and MigrateSlab returns.
UpdateSlabCommit(g) ==
    /\ pc[g] = "update"
    /\ LET u == update[g] IN UpdateSlab(u.slab, u.place, u.uc, u.found)
    /\ update' = [update EXCEPT ![g] = NoUpdate]
    /\ NextSlab(g)
    /\ UNCHANGED <<running, toMigrate, failures>>

\* After performMigrations returns: under m.mu, running = false; the
\* goroutine exits and its locals are gone.
ResetRunning(g) ==
    /\ pc[g] = "reset"
    /\ running' = FALSE
    /\ pc' = [pc EXCEPT ![g] = "idle"]
    /\ toMigrate' = [toMigrate EXCEPT ![g] = <<>>]
    /\ idx' = [idx EXCEPT ![g] = 0]
    /\ UNCHANGED <<update, failures, storeVars>>

MigratorNext ==
    \/ TryPerformMigrations
    \/ \E g \in Goroutines : FetchSlabs(g) \/ MigrateNext(g) \/ UpdateSlabCommit(g)
                             \/ ResetRunning(g)

Next ==
    \/ StoreNext /\ UNCHANGED migratorVars
    \/ MigratorNext

\* The autopilot calls TryPerformMigrations on every iteration of its loop,
\* and the Go scheduler runs a started goroutine: both are weakly fair.
\* The store's other callers are not.
Fairness ==
    /\ WF_vars(TryPerformMigrations)
    /\ \A g \in Goroutines :
          /\ WF_vars(FetchSlabs(g)) /\ WF_vars(MigrateNext(g))
          /\ WF_vars(UpdateSlabCommit(g)) /\ WF_vars(ResetRunning(g))

Spec == Init /\ [][Next]_vars /\ Fairness

-----------------------------------------------------------------------------
(* Properties of the migrator.                                            *)

\* At most one performMigrations pass is in flight, however calls of
\* TryPerformMigrations interleave with a pass that is ending.
AtMostOnePass ==
    \A g1, g2 \in Goroutines : g1 # g2 => ~(InPass(g1) /\ InPass(g2))

\* Spec 4.2: a pass ends and the migrator returns to idle, so that the next
\* TryPerformMigrations starts a new pass.
PassTerminates == running ~> ~running

\* Every slab UnhealthySlabs reports is eventually restored (or deleted),
\* when the set always has as many hosts as a slab has shards and errors
\* are transient.
MigrationRestoresHealth ==
    \A s \in Slabs : (s \in UnhealthySet) ~> (s \notin UnhealthySet)

\* The migrator implements the single-flight scheduler of spec 4.2: the
\* flag is the abstract Running state, and a pass is active while some
\* goroutine is in performMigrations' loop.
Abstract == INSTANCE MigratorAbstract WITH
    running <- running,
    active <- \E g \in Goroutines : InPass(g)

ImplementsAbstract == Abstract!Spec

=============================================================================
