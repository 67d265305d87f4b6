------------------------------ MODULE Exports ------------------------------
(***************************************************************************)
(* The export of all tasks: GET /exports/tasks/count, then the NDJSON body *)
(* of GET /exports/tasks (routers/exports.py, persistence/task/queries.py),*)
(* and what the page that asked for them concludes (HomePage.tsx,          *)
(* client.ts).  Both requests of every export take their connections from  *)
(* the pool of one API process (database.py).                              *)
(*                                                                         *)
(* SessionDep has scope "function": FastAPI closes the session when the    *)
(* handler returns, which for the export is before the body is produced.   *)
(* The body's SELECT then opens a second transaction on the closed         *)
(* session.  Nobody ends that one: the connection it has taken comes back  *)
(* when the garbage collector finds the session.                           *)
(***************************************************************************)
EXTENDS Naturals, FiniteSets

CONSTANTS
    Exports,    \* clicks on the export button
    Tasks,      \* identifiers of tasks, each created at most once
    PoolSize,   \* connections the pool lends: pool_size + max_overflow
    Batch       \* rows the cursor brings at a time: yield_per

ASSUME ExportAssumption ==
    /\ IsFiniteSet(Exports) /\ IsFiniteSet(Tasks)
    /\ PoolSize \in Nat \ {0} /\ Batch \in Nat \ {0}

VARIABLES
    stored,     \* the tasks in the table
    gone,       \* the tasks deleted from it
    apart,      \* history: <<a, b>> when a was deleted before b was created
    page,       \* where each export is, seen from the page
    counted,    \* the tasks its count found (the page knows how many only)
    snapshot,   \* the tasks its SELECT sees, {} until it is executed
    received,   \* the rows the page has received
    held        \* the exports for which a connection is out of the pool

vars == <<stored, gone, apart, page, counted, snapshot, received, held>>
table == <<stored, gone, apart>>

Stages == {"idle", "clicked", "counting", "counted", "asked", "streaming",
           "ended", "saved", "failed"}

\* The stages in which the database is at work for the export.
AtWork == {"counting", "streaming"}

Free == Cardinality(held) < PoolSize

Go(e, stage) == page' = [page EXCEPT ![e] = stage]

Init ==
    /\ stored \in SUBSET Tasks
    /\ gone = {}
    /\ apart = {}
    /\ page = [e \in Exports |-> "idle"]
    /\ counted = [e \in Exports |-> {}]
    /\ snapshot = [e \in Exports |-> {}]
    /\ received = [e \in Exports |-> {}]
    /\ held = {}

\* handleExport begins; the button is disabled until it is over.
Click(e) ==
    /\ page[e] = "idle"
    /\ Go(e, "clicked")
    /\ UNCHANGED <<table, counted, snapshot, received, held>>

\* count_tasks: SELECT count(*), which takes a connection for the session.
Count(e) ==
    /\ page[e] = "clicked"
    /\ Free
    /\ Go(e, "counting")
    /\ counted' = [counted EXCEPT ![e] = stored]
    /\ held' = held \cup {e}
    /\ UNCHANGED <<table, snapshot, received>>

\* The handler of the count has returned: get_session commits and closes,
\* which gives the connection back, and the page gets the number.
CountAnswered(e) ==
    /\ page[e] = "counting"
    /\ Go(e, "counted")
    /\ held' = held \ {e}
    /\ UNCHANGED <<table, counted, snapshot, received>>

\* export_tasks returns a StreamingResponse.  get_session commits and closes a
\* session that has executed nothing and holds no connection; status 200 leaves.
Ask(e) ==
    /\ page[e] = "counted"
    /\ Go(e, "asked")
    /\ UNCHANGED <<table, counted, snapshot, received, held>>

\* stream_with_owner: the first pull on the body executes the SELECT.
Open(e) ==
    /\ page[e] = "asked"
    /\ Free
    /\ Go(e, "streaming")
    /\ snapshot' = [snapshot EXCEPT ![e] = stored]
    /\ held' = held \cup {e}
    /\ UNCHANGED <<table, counted, received>>

\* Mutant: each batch is a SELECT of its own.
SendPage(e) ==
    /\ page[e] = "streaming"
    /\ \E rows \in SUBSET (stored \ received[e]) :
        /\ Cardinality(rows) \in 1 .. Batch
        /\ received' = [received EXCEPT ![e] = @ \cup rows]
    /\ UNCHANGED <<table, page, counted, snapshot, held>>

\* The cursor brings at most Batch more rows, which reach the page.
Send(e) ==
    /\ page[e] = "streaming"
    /\ \E rows \in SUBSET (snapshot[e] \ received[e]) :
        /\ Cardinality(rows) \in 1 .. Batch
        /\ received' = [received EXCEPT ![e] = @ \cup rows]
    /\ UNCHANGED <<table, page, counted, snapshot, held>>

\* The cursor is exhausted: the body ends, the transaction does not.
Finish(e) ==
    /\ page[e] = "streaming"
    /\ received[e] = snapshot[e]
    /\ Go(e, "ended")
    /\ UNCHANGED <<table, counted, snapshot, received, held>>

\* Mutant: handleExport has no catch.
BreakUncaught(e) ==
    /\ page[e] \in {"clicked", "counting", "asked", "streaming"}
    /\ Go(e, "uncaught")
    /\ held' = held \ {e}
    /\ UNCHANGED <<table, counted, snapshot, received>>

\* A connection breaks, to the page or to the database.  get_session rolls a
\* count back and closes its session.  A body that stops may reach the page as an
\* error or as an ordinary end, and leaves its transaction as it is.
Break(e) ==
    /\ \/ /\ page[e] \in {"clicked", "counting"}
          /\ Go(e, "failed")
          /\ held' = held \ {e}
       \/ /\ page[e] \in {"asked", "streaming"}
          /\ \E stage \in {"ended", "failed"} : Go(e, stage)
          /\ UNCHANGED held
    /\ UNCHANGED <<table, counted, snapshot, received>>

\* Mutant: the pool lets its clients wait for ever.
TimeOutNever(e) == FALSE /\ UNCHANGED vars

\* No connection came free in time (the pool's timeout, 30 seconds): the count
\* answers 500, the body whose status has left is cut before its first row.
TimeOut(e) ==
    /\ ~Free
    /\ \/ page[e] = "clicked" /\ Go(e, "failed")
       \/ page[e] = "asked" /\ \E stage \in {"ended", "failed"} : Go(e, stage)
    /\ UNCHANGED <<table, counted, snapshot, received, held>>

\* Mutant: the page trusts the end of the body.
CompareNothing(e) ==
    /\ page[e] = "ended"
    /\ Go(e, "saved")
    /\ UNCHANGED <<table, counted, snapshot, received, held>>

\* handleExport compares the number of rows with the count, and saves the file.
Compare(e) ==
    /\ page[e] = "ended"
    /\ Go(e, IF Cardinality(received[e]) = Cardinality(counted[e])
             THEN "saved" ELSE "failed")
    /\ UNCHANGED <<table, counted, snapshot, received, held>>

\* The garbage collector finds the session of a body that is over, and with it
\* the connection.
Collect(e) ==
    /\ e \in held
    /\ page[e] \notin AtWork
    /\ held' = held \ {e}
    /\ UNCHANGED <<table, page, counted, snapshot, received>>

CreateTask(t) ==
    /\ t \notin stored \cup gone
    /\ stored' = stored \cup {t}
    /\ apart' = apart \cup (gone \X {t})
    /\ UNCHANGED <<gone, page, counted, snapshot, received, held>>

DeleteTask(t) ==
    /\ t \in stored
    /\ stored' = stored \ {t}
    /\ gone' = gone \cup {t}
    /\ UNCHANGED <<apart, page, counted, snapshot, received, held>>

\* What goes on by itself once the button is clicked.
Progress(e) ==
    \/ Count(e) \/ CountAnswered(e) \/ Ask(e) \/ Open(e) \/ Send(e)
    \/ Finish(e) \/ TimeOut(e) \/ Compare(e)

Next ==
    \/ \E e \in Exports : Click(e) \/ Progress(e) \/ Break(e) \/ Collect(e)
    \/ \E t \in Tasks : CreateTask(t) \/ DeleteTask(t)

\* Coroutines that can run do, and the pool's timer fires.  No collection of
\* garbage is counted on: nothing says when Python runs one.
Spec == Init /\ [][Next]_vars /\ \A e \in Exports : WF_vars(Progress(e))

-----------------------------------------------------------------------------

TypeOK ==
    /\ stored \subseteq Tasks
    /\ gone \subseteq Tasks
    /\ apart \subseteq Tasks \X Tasks
    /\ page \in [Exports -> Stages]
    /\ counted \in [Exports -> SUBSET Tasks]
    /\ snapshot \in [Exports -> SUBSET Tasks]
    /\ received \in [Exports -> SUBSET Tasks]
    /\ held \subseteq Exports

\* A file that is saved may lack rows of a body that was cut, although their
\* number was compared with the count (HomePage.tsx:39): but never more rows
\* than tasks were created between the count and the SELECT.  In particular a
\* saved file is complete when none was.
SavedMissesOnlyNewcomers ==
    \A e \in Exports : page[e] = "saved" =>
        /\ received[e] \subseteq snapshot[e]
        /\ Cardinality(snapshot[e] \ received[e])
             <= Cardinality(snapshot[e] \ counted[e])

\* However long the body takes and whatever is created and deleted meanwhile,
\* the rows of an export were all in the table at one moment: it never shows a
\* task next to one that was created after the former was deleted (which pages
\* fetched one after the other would).  Lifetimes that meet two by two have a
\* moment in common.
RowsMetInTheTable ==
    \A e \in Exports : \A a, b \in received[e] : <<a, b>> \notin apart

\* Every click comes to a file or an error, even when no connection ever comes
\* back to the pool.
EveryExportEnds ==
    \A e \in Exports : page[e] = "clicked" ~> page[e] \in {"saved", "failed"}

\* A connection is out of the pool for an export only while the database works
\* for one of its requests ("Fournit une session transactionnelle liee a la
\* requete", session.py:13).
ConnectionsFollowRequests == \A e \in held : page[e] \in AtWork

=============================================================================
