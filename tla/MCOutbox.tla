------------------------------ MODULE MCOutbox ------------------------------
(* The symmetry of the checked instances of Outbox.                         *)
EXTENDS Outbox, TLC

Interchangeable == Permutations(Slots) \cup Permutations(EditOps)
=============================================================================
