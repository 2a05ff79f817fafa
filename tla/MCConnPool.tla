------------------------------ MODULE MCConnPool ------------------------------
(* Small instances of ConnPool for TLC. *)
EXTENDS ConnPool, TLC

CONSTANTS s1, s2, s3, k1, k2, k3, b1, b2, c1, c2

\* All keys collide, or all but the first.
TwoBuckets == [k \in Key |-> IF k = k1 THEN b1 ELSE b2]

Collide == [k \in Key |-> b1]

EraseSetsAll == {{k1}, {k1, k2}, {k2, k3}} \cap SUBSET Key

None == {}

\* Without failing lookups, under which nothing bounds the copies of a connection.
AllButLookup == Failures \ {"lookup"}

Interchangeable == Permutations(Slot) \cup Permutations(Ctx)
===============================================================================
