--------------------------- MODULE MCTaskRequests ---------------------------
(* Instances of TaskRequests for TLC. *)
EXTENDS TaskRequests, TLC

\* Requests are interchangeable: safety only depends on them up to renaming.
RequestSymmetry == Permutations(Requests)
=============================================================================
