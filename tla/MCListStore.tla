----------------------------- MODULE MCListStore -----------------------------
(* ListStore on small instances.                                           *)
EXTENDS ListStore, TLC

\* Requests and actors are interchangeable; the seeds tell lists and items apart.
Interchangeable == Permutations(Requests) \cup Permutations(Actors)
=============================================================================
