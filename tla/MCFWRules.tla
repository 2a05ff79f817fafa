------------------------------- MODULE MCFWRules -------------------------------
(* Small instances of FWRules for TLC. *)
EXTENDS FWRules, TLC

CONSTANTS r1, r2, r3, a1, a2, k1, k2

Cells3 == {r1, r2, r3}

\* A rule about the first packet key only, and one about all of them.
Covers == {{k1}, {k1, k2}}

Interchangeable == Permutations(Cell) \cup Permutations(Admin)
================================================================================
