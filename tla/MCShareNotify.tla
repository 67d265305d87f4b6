--------------------------- MODULE MCShareNotify ----------------------------
(* An instance of ShareNotify for TLC. *)
EXTENDS ShareNotify, TLC

CONSTANTS s1, s2, t1, u1

\* One message names a user twice, so that its loop can be cut between the two entries
\* and the user may go in between; the other names nobody, and only competes with it for
\* the prefetch window.
MCTo == (s1 :> <<u1, u1>>) @@ (s2 :> <<>>)

MCAbout == (s1 :> t1) @@ (s2 :> t1)
=============================================================================
