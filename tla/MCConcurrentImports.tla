------------------------ MODULE MCConcurrentImports -------------------------
(* An instance of ConcurrentImports for TLC. *)
EXTENDS ConcurrentImports, TLC

CONSTANTS t1, t2, t3, o1, o2

\* Two tasks of one owner and one of another: a file without the first of them
\* mentions the owners in another order than a file with it.
MCOwnerOf == (t1 :> o1) @@ (t2 :> o2) @@ (t3 :> o1)

\* The tasks in the order of their creation, some of them gone; and one file that
\* is not in that order.
MCFiles == {<<t1>>, <<t1, t2>>, <<t2, t3>>, <<t1, t2, t3>>, <<t3, t2>>}
=============================================================================
