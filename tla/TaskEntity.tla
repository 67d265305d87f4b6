----------------------------- MODULE TaskEntity -----------------------------
(***************************************************************************)
(* The Task aggregate (domain/task/entities.py) and its image in a row of  *)
(* the tasks table (infrastructure/persistence/task/mappers.py), as pure   *)
(* operators.                                                              *)
(*                                                                         *)
(* Two data abstractions.  A title is the name of the request that wrote   *)
(* it, and a completion instant the name of the request that read the      *)
(* clock; what a row came with is Origin.  created_at is kept only as far  *)
(* as reconstitute compares it: "past", or "ahead" of every clock reading  *)
(* of a live request, as an import may set it.                             *)
(***************************************************************************)
CONSTANTS
    Users,      \* user identifiers
    Requests,   \* HTTP requests
    Ages,       \* the ages rows may have, a subset of {"past", "ahead"}
    Origin,     \* the author of what a row already carried
    Null,       \* SQL NULL
    Absent      \* no row

Authors == Requests \union {Origin}

Status == {"todo", "in_progress", "done"}

Row == [owner: Users, title: Authors, status: Status,
        created: {"past", "ahead"}, completedAt: Authors \union {Null}]

ASSUME EntityAssumption ==
    /\ Ages \subseteq {"past", "ahead"}
    /\ Origin \notin Requests
    /\ Null \notin Authors
    /\ Absent \notin Row

-----------------------------------------------------------------------------

\* Task.reconstitute: done exactly when dated, and not dated before its
\* creation.  A clock reading of a live request precedes an "ahead" creation.
Reconstitutes(row) ==
    /\ (row.status = "done") <=> (row.completedAt # Null)
    /\ ~(row.created = "ahead" /\ row.completedAt \in Requests)

\* A creation in a status the domain does not know.
CreatedPending(r, u) ==
    [owner |-> u, title |-> r, status |-> "pending",
     created |-> "past", completedAt |-> Null]

\* Task.create, called by request r.
Created(r, u) ==
    [owner |-> u, title |-> r, status |-> "todo",
     created |-> "past", completedAt |-> Null]

\* Operations of the aggregate that are reached by loading it.
Transitions == {"start", "complete", "rename"}

\* A start that no longer looks at the status.
RefusesOnlyComplete(row, o) == row.status = "done" /\ o = "complete"

\* A complete that no longer looks at the status.
RefusesOnlyStart(row, o) == row.status = "done" /\ o = "start"

\* Task.start and Task.complete raise TaskAlreadyCompleted; rename never does.
Refuses(row, o) == row.status = "done" /\ o \in {"start", "complete"}

\* The aggregate after operation o, run by request r.
Transformed(row, o, r) ==
    CASE o = "start"    -> [row EXCEPT !.status = "in_progress"]
      [] o = "complete" -> [row EXCEPT !.status = "done", !.completedAt = r]
      [] o = "rename"   -> [row EXCEPT !.title = r]
      [] OTHER          -> row

-----------------------------------------------------------------------------

\* apply_to_model followed by flush: SQLAlchemy puts in the SET clause the
\* mapped attributes whose value differs from the one the instance holds.
Dirty(old, task) ==
    \/ old.title # task.title
    \/ old.status # task.status
    \/ old.completedAt # task.completedAt

\* An apply_to_model that forgets completed_at, or the status.
UpdatedWithoutDate(row, old, task) ==
    [row EXCEPT
        !.title = IF old.title # task.title THEN task.title ELSE @,
        !.status = IF old.status # task.status THEN task.status ELSE @]
UpdatedWithoutStatus(row, old, task) ==
    [row EXCEPT
        !.title = IF old.title # task.title THEN task.title ELSE @,
        !.completedAt =
            IF old.completedAt # task.completedAt THEN task.completedAt ELSE @]

\* That UPDATE applied to the version of the row it finds once it has the lock.
Updated(row, old, task) ==
    [row EXCEPT
        !.title = IF old.title # task.title THEN task.title ELSE @,
        !.status = IF old.status # task.status THEN task.status ELSE @,
        !.completedAt =
            IF old.completedAt # task.completedAt THEN task.completedAt ELSE @]
=============================================================================
