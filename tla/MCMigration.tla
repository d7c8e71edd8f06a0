---------------------------- MODULE MCMigration ----------------------------
(* Model of the migrator and the store: three hosts, two 2-shard slabs,   *)
(* renewals and removals of contracts, two contract-set updates.          *)
EXTENDS Migration, TLC

CONSTANTS A, B, C, c1, c2, c3, c4, c5, s1, s2, r1, r2, r3, r4

MCHostOf == [c \in FCIDs |-> CASE c \in {c1, c4, c5} -> A [] c = c2 -> B [] c = c3 -> C]
MCShardsOf == [s \in {s1, s2} |-> IF s = s1 THEN <<r1, r2>> ELSE <<r3, r4>>]
MCSetChoices == {FCIDs, {c1, c4, c5} \cap FCIDs, {c2, c3}}
\* sets that always keep two hosts, as many as a slab has shards
MCLiveSetChoices == {FCIDs, {c1, c2}, {c2, c3}}
\* goroutines started by TryPerformMigrations are interchangeable
GoroutineSymmetry == Permutations(Goroutines)
====
