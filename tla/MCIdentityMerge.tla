--------------------------- MODULE MCIdentityMerge ---------------------------
(* The local accounts and the runs are interchangeable.                    *)
EXTENDS IdentityMerge, TLC

Interchangeable == Permutations(Locals) \cup Permutations(Merges)
=============================================================================
