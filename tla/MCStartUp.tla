----------------------------- MODULE MCStartUp ------------------------------
(* An instance of StartUp for TLC. *)
EXTENDS StartUp, TLC

CONSTANTS w1, w2, w3

\* One pod whose workers stop each other, and one that competes with it.
MCPodOf == (w1 :> "a") @@ (w2 :> "a") @@ (w3 :> "b")
=============================================================================
