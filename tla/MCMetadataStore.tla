--------------------------- MODULE MCMetadataStore ---------------------------
(* The metadata store alone, under every interleaving of its callers.       *)
EXTENDS MetadataStore, TLC

CONSTANTS A, B, C, c1, c2, c3, c4, c5, s1, s2, r1, r2, r3, r4

\* c1, c4 and c5 are contracts with host A, so c1 can be renewed to c4 and
\* c4 to c5 (a chain of two renewals); c2 and c3 are with B and C.
MCHostOf == [c \in FCIDs |-> CASE c \in {c1, c4, c5} -> A
                               [] c = c2 -> B
                               [] c = c3 -> C]

\* two slabs of two shards each, with distinct sector roots
MCShardsOf == [s \in {s1, s2} |-> IF s = s1 THEN <<r1, r2>> ELSE <<r3, r4>>]

\* the sets the autopilot may choose: all contracts, host A's, the others
MCSetChoices == {FCIDs, {c1, c4, c5} \cap FCIDs, {c2, c3}}

=============================================================================
