--------------------------- MODULE MCUserRequests ---------------------------
(* Instances of UserRequests for TLC. *)
EXTENDS UserRequests, TLC

CONSTANTS e1, capitals, malformed

\* One address, its spelling in capitals, and a string that is no address.
Typed == (e1 :> e1) @@ (capitals :> e1) @@ (malformed :> Null)

\* Requests are interchangeable.
RequestSymmetry == Permutations(Requests)
=============================================================================
