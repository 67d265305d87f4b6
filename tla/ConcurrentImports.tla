------------------------- MODULE ConcurrentImports --------------------------
(***************************************************************************)
(* Several import-tasks commands at work on one database, row by row.      *)
(*                                                                         *)
(* Each batch of an import is a transaction of two multi-row INSERT ...    *)
(* ON CONFLICT DO NOTHING, the owners of its lines in order of first       *)
(* mention and then its tasks.  PostgreSQL inserts the rows one by one.  A *)
(* row whose key is committed is skipped; one whose key another open       *)
(* transaction has inserted waits for that transaction to end, and is then *)
(* skipped or inserted.  Imports that wait for each other in a ring are    *)
(* found by the deadlock detector, which makes the statement of one fail;  *)
(* nothing in the command tries again.                                     *)
(*                                                                         *)
(* What ImportTasks already says of one import is left out: rejected       *)
(* lines, addresses taken by others, users and tasks the API removes.  An  *)
(* owner and its address count as one key.  Imports may cut their files    *)
(* into batches of different sizes (--batch-size).                         *)
(***************************************************************************)
EXTENDS Naturals, FiniteSets, Sequences

CONSTANTS
    Imports,        \* processes running import-tasks
    Tasks,
    Owners,
    OwnerOf,        \* OwnerOf[t]: the owner every file gives to t
    Files,          \* what may be imported: sequences of tasks
    BatchSizes      \* values given to --batch-size

ASSUME ImportsAssumption ==
    /\ Tasks \intersect Owners = {}
    /\ IsFiniteSet(Tasks) /\ IsFiniteSet(Owners)
    /\ OwnerOf \in [Tasks -> Owners]
    /\ Files \subseteq Seq(Tasks)
    /\ \A f \in Files : \A i, j \in 1..Len(f) : f[i] = f[j] => i = j
    /\ BatchSizes \subseteq Nat \ {0}

Keys == Tasks \union Owners

VARIABLES
    file, size,     \* file[p], size[p]: what p imports and its batch size
    already,        \* keys stored before any import began
    stored,         \* committed keys
    mine,           \* mine[p]: keys the open transaction of p has inserted
    consumed,       \* consumed[p]: lines of the batches p has committed
    left,           \* left[p]: rows of the batch p has still to offer
    status,
    inserted        \* inserted[p]: rows p counts as inserted

vars == <<file, size, already, stored, mine, consumed, left, status, inserted>>

TypeOK ==
    /\ file \in [Imports -> Files]
    /\ size \in [Imports -> BatchSizes]
    /\ already \subseteq stored /\ stored \subseteq Keys
    /\ mine \in [Imports -> SUBSET Keys]
    /\ \A p \in Imports : consumed[p] \in 0..Len(file[p])
    /\ left \in [Imports -> SUBSET Nat]
    /\ \A p \in Imports : left[p] \subseteq 1..(2 * Len(file[p]))
    /\ status \in [Imports -> {"running", "reported", "killed", "deadlock",
                               "integrity_error"}]
    /\ inserted \in [Imports -> 0..Cardinality(Keys)]

-----------------------------------------------------------------------------

\* The last line of the batch of p after its first n lines: _batches.
EndAfter(p, n) == IF n + size[p] < Len(file[p]) THEN n + size[p] ELSE Len(file[p])

\* The rows of the two INSERTs of that batch, numbered in the order they are offered:
\* its owners, each by the line that mentions it first, as a dictionary keeps them,
\* and its tasks.
RowsAfter(p, n) ==
    LET lines == (n + 1)..EndAfter(p, n)
        First(i) == \A j \in lines : OwnerOf[file[p][j]] = OwnerOf[file[p][i]] => i <= j
    IN  {i \in lines : First(i)} \union {Len(file[p]) + i : i \in lines}

\* The key of a row.
Key(p, r) == IF r <= Len(file[p]) THEN OwnerOf[file[p][r]] ELSE file[p][r - Len(file[p])]

\* A writer that offers the rows of a batch in any order, as a set gives them.
AnyRow(p, r) == r \in left[p]

\* The rows of a batch are offered in order.
NextRow(p, r) == r \in left[p] /\ \A s \in left[p] : r <= s

\* The uncommitted transaction that holds the key of its next row makes p wait.
WaitsFor(p, q) ==
    /\ p # q
    /\ status[p] = "running"
    /\ \E r \in left[p] : NextRow(p, r) /\ Key(p, r) \in mine[q]

Visible(p) == stored \union mine[p]

-----------------------------------------------------------------------------

Init ==
    /\ file \in [Imports -> Files]
    /\ size \in [Imports -> BatchSizes]
    /\ already \in {{}} \union {{OwnerOf[t], t} : t \in Tasks}
    /\ stored = already
    /\ mine = [p \in Imports |-> {}]
    /\ consumed = [p \in Imports |-> 0]
    /\ left = [p \in Imports |-> RowsAfter(p, 0)]
    /\ status = [p \in Imports |-> "running"]
    /\ inserted = [p \in Imports |-> 0]

\* The transaction of p ends without a commit, and p with it.
Stops(p, outcome) ==
    /\ status' = [status EXCEPT ![p] = outcome]
    /\ mine' = [mine EXCEPT ![p] = {}]
    /\ UNCHANGED <<file, size, already, stored, consumed, left, inserted>>

\* An INSERT that takes a key for a conflict as soon as anyone has inserted it.
OfferWithoutWaiting(p, r) ==
    /\ status[p] = "running" /\ NextRow(p, r)
    /\ left' = [left EXCEPT ![p] = @ \ {r}]
    /\ LET new == Key(p, r) \notin stored \union UNION {mine[q] : q \in Imports} IN
        /\ mine' = [mine EXCEPT ![p] = IF new THEN @ \union {Key(p, r)} ELSE @]
        /\ inserted' = [inserted EXCEPT ![p] = IF new THEN @ + 1 ELSE @]
    /\ UNCHANGED <<file, size, already, stored, consumed, status>>

\* A report that counts the rows it offered.
OfferAndCount(p, r) ==
    /\ status[p] = "running" /\ NextRow(p, r)
    /\ \A q \in Imports \ {p} : Key(p, r) \notin mine[q]
    /\ left' = [left EXCEPT ![p] = @ \ {r}]
    /\ mine' = [mine EXCEPT ![p] = IF Key(p, r) \in stored THEN @ ELSE @ \union {Key(p, r)}]
    /\ inserted' = [inserted EXCEPT ![p] = @ + 1]
    /\ UNCHANGED <<file, size, already, stored, consumed, status>>

\* One row of INSERT ... ON CONFLICT DO NOTHING: a task whose owner is not there
\* fails on its foreign key, any other is inserted or skipped; rowcount tells.
Offer(p, r) ==
    /\ status[p] = "running" /\ NextRow(p, r)
    /\ LET k == Key(p, r) IN
        /\ \A q \in Imports \ {p} : k \notin mine[q]
        /\ IF k \in Tasks \ stored /\ OwnerOf[k] \notin Visible(p)
           THEN Stops(p, "integrity_error")
           ELSE /\ left' = [left EXCEPT ![p] = @ \ {r}]
                /\ mine' = [mine EXCEPT ![p] = IF k \in stored THEN @ ELSE @ \union {k}]
                /\ inserted' = [inserted EXCEPT ![p] = IF k \in stored THEN @ ELSE @ + 1]
                /\ UNCHANGED <<file, size, already, stored, consumed, status>>

\* An import that forgets to move on to the next batch.
CommitInPlace(p) ==
    /\ status[p] = "running" /\ left[p] = {}
    /\ consumed' = [consumed EXCEPT ![p] = @ + size[p]]
    /\ stored' = stored \union mine[p]
    /\ mine' = [mine EXCEPT ![p] = {}]
    /\ UNCHANGED <<file, size, already, left, status, inserted>>

\* uow.commit, and the next batch, or the report after the last.
Commit(p) ==
    /\ status[p] = "running" /\ left[p] = {}
    /\ stored' = stored \union mine[p]
    /\ mine' = [mine EXCEPT ![p] = {}]
    /\ LET n == EndAfter(p, consumed[p]) IN
        /\ consumed' = [consumed EXCEPT ![p] = n]
        /\ left' = [left EXCEPT ![p] = RowsAfter(p, n)]
        /\ status' = [status EXCEPT ![p] = IF n = Len(file[p]) THEN "reported" ELSE @]
    /\ UNCHANGED <<file, size, already, inserted>>

\* A ring of imports, each waiting for another of them.
Ring(ring) == ring # {} /\ \A p \in ring : \E q \in ring : WaitsFor(p, q)

\* A database whose waits only end with the transaction they are for.
NoDetector(p) == FALSE /\ UNCHANGED vars

\* After deadlock_timeout the detector makes one statement of a ring fail.
Detect(p) ==
    /\ \E ring \in SUBSET Imports : p \in ring /\ Ring(ring)
    /\ Stops(p, "deadlock")

\* The process or its connection dies.
Kill(p) ==
    /\ status[p] = "running"
    /\ Stops(p, "killed")

Step(p) == (\E r \in left[p] : Offer(p, r)) \/ Commit(p)

Next == \E p \in Imports : Step(p) \/ Detect(p) \/ Kill(p)

Spec == Init /\ [][Next]_vars

\* An import that is not waiting goes on, and the detector runs.
FairSpec ==
    /\ Spec
    /\ \A p \in Imports : WF_vars(Step(p))
    /\ WF_vars(\E p \in Imports : Detect(p))

-----------------------------------------------------------------------------
(* Properties.                                                             *)

\* What an import reports as imported or already there is stored, though other
\* imports whose rows it had to wait for were killed or chosen by the detector.
ReportedFilesAreStored ==
    \A p \in Imports : status[p] = "reported" =>
        \A i \in 1..Len(file[p]) : {file[p][i], OwnerOf[file[p][i]]} \subseteq stored

\* The keys can be shared out among the imports so that each gets as many as it
\* counts and none goes to two.
SharedOut(keys) ==
    \E share \in [Imports -> SUBSET keys] :
        /\ UNION {share[p] : p \in Imports} = keys
        /\ \A p, q \in Imports : share[p] \intersect share[q] # {} => p = q
        /\ \A p \in Imports : inserted[p] = Cardinality(share[p])

\* When all imports report, their counts add up to the rows that are new: no row
\* is claimed by two of them and none by nobody.
RowsCreditedOnce ==
    (\A p \in Imports : status[p] = "reported") => SharedOut(stored \ already)

\* The order in which each batch offers its keys fits in one order of all keys.
OneOrder ==
    \E rank \in [Keys -> 1..Cardinality(Keys)] :
        \A p \in Imports : \A n \in 0..(Len(file[p]) - 1) : n % size[p] = 0 =>
            \A r, s \in RowsAfter(p, n) : r < s => rank[Key(p, r)] < rank[Key(p, s)]

\* Imports hinder each other only when their batches offer keys in crossed orders:
\* the same file may be imported by any number of processes at once, cut as they
\* like.  No foreign key ever fails.
OnlyCrossedOrdersDeadlock ==
    /\ \A p \in Imports : status[p] # "integrity_error"
    /\ (\E p \in Imports : status[p] = "deadlock") => ~OneOrder

\* Every import ends, for each wait ends.
EveryImportEnds == \A p \in Imports : <>(status[p] # "running")
=============================================================================
