--------------------------- MODULE MCImportTasks ----------------------------
(* Instances of ImportTasks for TLC. *)
EXTENDS ImportTasks, SequencesExt

CONSTANTS t1, t2, o1, o2, e1, e2

Row(t, o, e, form) == [task |-> t, owner |-> o, email |-> e, form |-> form]

Rows == {Row(t, o, e, "valid") : t \in {t1, t2}, o \in {o1, o2}, e \in {e1, e2}}

\* What keeps a row out hides its other fields.
BadRows == {Row(t1, o1, e1, form) : form \in Forms \ {"valid"}}

\* Up to three rows, t1 of o1 first: with batches of two, a duplicate or an owner
\* may come back within a batch or across two.
ValidFiles ==
    {f \in UNION {[1..n -> Rows] : n \in 0..3} :
        Len(f) > 0 => f[1] = Row(t1, o1, e1, "valid")}

\* A row that is out of order, at any place of a file of two tasks, of one owner or
\* of two with an address each.
SpoiledFiles ==
    {InsertAt(<<Row(t1, o1, e1, "valid"), second>>, i, bad) :
        second \in {Row(t2, o1, e1, "valid"), Row(t2, o2, e2, "valid")},
        i \in 1..3, bad \in BadRows}

Whole(f) == [format |-> "ndjson", lines |-> f, cut |-> FALSE]

\* A file of each format that was cut, and an array that was not.
CutDocuments ==
    {[format |-> format, lines |-> f, cut |-> format = "ndjson" \/ Len(f) = 3] :
        format \in {"ndjson", "array"},
        f \in {<<Row(t1, o1, e1, "valid"), Row(t2, o2, e2, "valid")>>,
               <<Row(t1, o1, e1, "valid"), Row(t1, o1, e1, "refused"),
                 Row(t2, o2, e2, "valid")>>}}

\* Bound: only what an export may have written is imported a third time, and only if
\* nothing else has changed the tables.
ThirdRunIsAReplay == runs = 3 => OneAddressEach /\ disturbances = 0

MCDocuments == {Whole(f) : f \in ValidFiles \union SpoiledFiles} \union CutDocuments
=============================================================================
