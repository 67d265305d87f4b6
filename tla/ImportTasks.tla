---------------------------- MODULE ImportTasks -----------------------------
(***************************************************************************)
(* The bulk import (application/task/use_cases/import_tasks.py and the     *)
(* bulk writers of infrastructure/persistence): a document of lines, each  *)
(* with a task and its owner, replayed batch by batch.  A batch is one     *)
(* transaction of three statements, between which the API goes on working  *)
(* on the same tables: INSERT the owners, ask which of them are there if   *)
(* one was skipped, INSERT the tasks.  Both INSERTs are ON CONFLICT DO     *)
(* NOTHING, which absorbs a taken key or e-mail and not a foreign key.     *)
(* The process may die at any point and be run again on the same file.     *)
(*                                                                         *)
(* A document is NDJSON or a JSON array, and may have been cut: the last   *)
(* line of an NDJSON document is then illegible, and an array is no JSON.  *)
(* Blank lines are left out.  A line keeps its identifiers, spelled as the *)
(* export spells them, and its form: "valid"; "refused", when the domain   *)
(* or a parser rejects it; "mixed", when one of its two dates has a UTC    *)
(* offset and the other has not, which Task.reconstitute cannot compare;   *)
(* "unstorable" or "unnameable", when the domain takes a text of the task, *)
(* or a name of the owner, that PostgreSQL cannot hold; or "illegible",    *)
(* when it is no object with the right keys.  Of a stored user only the    *)
(* e-mail is kept, and of a stored task the owner.                         *)
(***************************************************************************)
EXTENDS Naturals, FiniteSets, Sequences

CONSTANTS
    Owners,         \* user identifiers, in the file and out of it
    Emails,
    Tasks,
    Absent,
    Documents,      \* the files that may be given
    BatchSize,
    Before,         \* bound: the users that may exist before the first run
    Runs,           \* bound: how often the command is run
    Disturbances    \* bound: what else happens to the tables

Forms == {"valid", "refused", "mixed", "unstorable", "unnameable", "illegible"}

Line == [task: Tasks, owner: Owners, email: Emails, form: Forms]

ASSUME ImportAssumption ==
    /\ \A d \in Documents :
        /\ DOMAIN d = {"format", "lines", "cut"}
        /\ d.format \in {"ndjson", "array"} /\ d.lines \in Seq(Line) /\ d.cut \in BOOLEAN
    /\ BatchSize \in Nat \ {0}
    /\ Runs \in Nat /\ Disturbances \in Nat
    /\ Absent \notin Owners \union Emails
    /\ Tasks \intersect Owners = {}

VARIABLES
    document,
    users,          \* committed: users[o] is the e-mail of o, or Absent
    tasks,          \* committed: tasks[t] is the owner of t, or Absent
    newUsers,       \* what the open transaction has inserted
    newTasks,
    pc,             \* the next statement of the import, or how it ended
    offset,         \* rows consumed before the batch
    retained,       \* lines of the batch whose task is to be inserted
    skippedOwner,   \* whether the batch skipped an owner
    illisibles,     \* lines put aside by the reader
    read, rejected, inserted, skipped,      \* the report, of tasks
    insertedUsers,                          \* and of users
    runs, completed,                        \* runs begun, runs that reported
    already,                                \* history: keys stored before the run
    disturbances, dropped, deleted          \* history: what the API removed

tables == <<users, tasks>>
open == <<newUsers, newTasks>>
batch == <<offset, retained, skippedOwner>>
report == <<illisibles, read, rejected, inserted, skipped, insertedUsers>>
count == <<runs, completed, already>>
world == <<disturbances, dropped, deleted>>
vars == <<document, users, tasks, newUsers, newTasks, pc, offset, retained,
          skippedOwner, illisibles, read, rejected, inserted, skipped, insertedUsers,
          runs, completed, already, disturbances, dropped, deleted>>

Stopped == {"killed", "undecodable", "type_error", "integrity_error", "data_error"}

Ended == {"idle", "reported"} \union Stopped

file == document.lines

TypeOK ==
    /\ document \in Documents
    /\ users \in [Owners -> Emails \union {Absent}]
    /\ tasks \in [Tasks -> Owners \union {Absent}]
    /\ newUsers \in [Owners -> Emails \union {Absent}]
    /\ newTasks \in [Tasks -> Owners \union {Absent}]
    /\ pc \in Ended \union {"reading", "users", "owners", "tasks", "commit"}
    /\ offset \in 0..Len(file)
    /\ retained \subseteq 1..Len(file)
    /\ skippedOwner \in BOOLEAN
    /\ illisibles \subseteq 1..Len(file)
    /\ read \in 0..Len(file)
    /\ rejected \subseteq 1..Len(file)
    /\ inserted \in 0..Len(file)
    /\ skipped \in 0..Len(file)
    /\ insertedUsers \in 0..Len(file)
    /\ runs \in 0..Runs
    /\ completed \in 0..Runs
    /\ already \subseteq Tasks \union Owners
    /\ disturbances \in 0..Disturbances
    /\ dropped \subseteq Owners
    /\ deleted \subseteq Tasks

-----------------------------------------------------------------------------
(* Reading the file.                                                       *)

\* _lire_tableau decodes an array whole.
Decodable == ~(document.format = "array" /\ document.cut)

\* _lire_ndjson and _en_ligne: a line that is no object of the right shape is passed
\* over.
Legible(i) == file[i].form # "illegible" /\ ~(document.cut /\ i = Len(file))

Ahead == {i \in 1..Len(file) : offset < i}

\* The batch after offset, of the next BatchSize rows the reader gives: _batches.
Batch ==
    LET rows == {i \in Ahead : Legible(i)}
    IN  {i \in rows : Cardinality({j \in rows : j <= i}) <= BatchSize}

\* Lines put aside on the way to the last row of a full batch, or to the end.
PassedOver ==
    {i \in Ahead : /\ ~Legible(i)
                   /\ Cardinality(Batch) = BatchSize => \E j \in Batch : i < j}

\* _to_user and _to_task succeed.
Accepted(i) == Legible(i) /\ file[i].form \in {"valid", "unstorable", "unnameable"}

\* The identifiers already seen when line i is read, in this batch or before.
Seen(i) == {file[j].task : j \in {k \in 1..(i - 1) : Accepted(k)}}

\* Lines _reconstitute turns into aggregates, and those that make it raise.
Reconstituted == {i \in Batch : Accepted(i) /\ file[i].task \notin Seen(i)}

Incomparable == {i \in Batch : file[i].form = "mixed" /\ file[i].task \notin Seen(i)}

\* The dictionary of owners: in order of first mention, with the last name and e-mail.
MentionsOf(i) == {j \in retained : file[j].owner = file[i].owner}

FirstMentions == {i \in retained : \A j \in MentionsOf(i) : i <= j}

LastMention(i) == CHOOSE j \in MentionsOf(i) : \A k \in MentionsOf(i) : k <= j

EmailOf(i) == file[LastMention(i)].email

Unnameable == {i \in FirstMentions : file[LastMention(i)].form = "unnameable"}

-----------------------------------------------------------------------------
(* The tables, as the import's transaction sees them.                      *)

With(table, fresh) ==
    [k \in DOMAIN table |-> IF fresh[k] # Absent THEN fresh[k] ELSE table[k]]

VisibleUsers == With(users, newUsers)

VisibleTasks == With(tasks, newTasks)

Nothing(keys) == [k \in keys |-> Absent]

\* Users of the INSERT whose key and e-mail the tables do not have.
Unknown ==
    {i \in FirstMentions : /\ VisibleUsers[file[i].owner] = Absent
                           /\ \A o \in Owners : VisibleUsers[o] # EmailOf(i)}

\* Users the INSERT does not skip, ON CONFLICT DO NOTHING: of those with one e-mail
\* the first, which is in the table when the statement comes to the others.
NewOwners == {i \in Unknown : \A j \in Unknown : EmailOf(j) = EmailOf(i) => i <= j}

-----------------------------------------------------------------------------

Init ==
    /\ document \in Documents
    /\ users \in [Owners -> Emails \union {Absent}]
    /\ \A o \in Owners \ Before : users[o] = Absent
    /\ \A o, p \in Owners : users[o] = users[p] /\ users[o] # Absent => o = p
    /\ tasks \in [Tasks -> {o \in Owners : users[o] # Absent} \union {Absent}]
    /\ newUsers = Nothing(Owners)
    /\ newTasks = Nothing(Tasks)
    /\ pc = "idle"
    /\ offset = 0 /\ retained = {} /\ skippedOwner = FALSE
    /\ illisibles = {}
    /\ read = 0 /\ rejected = {} /\ inserted = 0 /\ skipped = 0 /\ insertedUsers = 0
    /\ runs = 0 /\ completed = 0 /\ already = {}
    /\ disturbances = 0 /\ dropped = {} /\ deleted = {}

\* task-manager-cli import-tasks: _lire chooses a reader.
Start ==
    /\ pc \in Ended
    /\ runs < Runs
    /\ runs' = runs + 1
    /\ pc' = IF Decodable THEN "reading" ELSE "undecodable"
    /\ already' = {t \in Tasks : tasks[t] # Absent} \union {o \in Owners : users[o] # Absent}
    /\ illisibles' = {}
    /\ offset' = 0 /\ retained' = {} /\ skippedOwner' = FALSE
    /\ read' = 0 /\ rejected' = {} /\ inserted' = 0 /\ skipped' = 0 /\ insertedUsers' = 0
    /\ UNCHANGED <<document, tables, open, completed, world>>

\* The transaction is over; its insertions are lost unless the step keeps them.
Closes(outcome) ==
    /\ pc' = outcome
    /\ newUsers' = Nothing(Owners)
    /\ newTasks' = Nothing(Tasks)

\* The next batch is read and reconstituted, or the report is made.
ReadBatch ==
    /\ pc = "reading"
    /\ illisibles' = illisibles \union PassedOver
    /\ IF Batch = {}
       THEN /\ pc' = "reported"
            /\ completed' = completed + 1
            /\ UNCHANGED <<open, read, rejected, retained>>
       ELSE IF Incomparable # {}
       THEN Closes("type_error") /\ UNCHANGED <<read, rejected, retained, completed>>
       ELSE /\ pc' = "users"
            /\ read' = read + Cardinality(Batch)
            /\ rejected' = rejected \union (Batch \ Reconstituted)
            /\ retained' = Reconstituted
            /\ UNCHANGED <<open, completed>>
    /\ UNCHANGED <<document, tables, offset, skippedOwner, inserted, skipped,
                   insertedUsers, runs, already, world>>

\* SqlAlchemyUserBulkWriter.save_all, with a name the database refuses, be it of an
\* owner it would have skipped.
SaveUsersFails ==
    /\ pc = "users" /\ Unnameable # {}
    /\ Closes("data_error")
    /\ UNCHANGED <<document, tables, batch, report, count, world>>

\* SqlAlchemyUserBulkWriter.save_all.
SaveUsers ==
    /\ pc = "users" /\ Unnameable = {}
    /\ newUsers' = [o \in Owners |->
            IF \E i \in NewOwners : file[i].owner = o
            THEN EmailOf(CHOOSE i \in NewOwners : file[i].owner = o)
            ELSE newUsers[o]]
    /\ insertedUsers' = insertedUsers + Cardinality(NewOwners)
    /\ skippedOwner' = (NewOwners # FirstMentions)
    /\ pc' = "owners"
    /\ UNCHANGED <<document, tables, newTasks, offset, retained, illisibles, read,
                   rejected, inserted, skipped, count, world>>

\* An import that never asks: the INSERT of the owners is trusted.
KeepAll ==
    /\ pc = "owners"
    /\ pc' = "tasks"
    /\ UNCHANGED <<document, tables, open, batch, report, count, world>>

\* A filter that does not say what it put aside.
KeepOwnedSilently ==
    /\ pc = "owners"
    /\ retained' = {i \in retained : skippedOwner => VisibleUsers[file[i].owner] # Absent}
    /\ pc' = "tasks"
    /\ UNCHANGED <<document, tables, open, offset, skippedOwner, report, count, world>>

\* _sans_orphelines: existing_ids, asked only if an owner was skipped.
KeepOwned ==
    /\ pc = "owners"
    /\ retained' = {i \in retained : skippedOwner => VisibleUsers[file[i].owner] # Absent}
    /\ rejected' = rejected \union (retained \ retained')
    /\ pc' = "tasks"
    /\ UNCHANGED <<document, tables, open, offset, skippedOwner, illisibles, read,
                   inserted, skipped, insertedUsers, count, world>>

\* ON CONFLICT DO UPDATE: every line is written.
EveryLine == retained

\* Lines the INSERT does not skip: ON CONFLICT DO NOTHING.
NewLines == {i \in retained : VisibleTasks[file[i].task] = Absent}

\* SqlAlchemyTaskBulkWriter.save_all: a foreign key that fails, fails it all, and so
\* does a text the database refuses, even for a line it would have skipped.
SaveTasks ==
    /\ pc = "tasks"
    /\ IF \E i \in retained : file[i].form = "unstorable"
       THEN Closes("data_error") /\ UNCHANGED <<inserted, skipped>>
       ELSE IF \E i \in NewLines : VisibleUsers[file[i].owner] = Absent
       THEN Closes("integrity_error") /\ UNCHANGED <<inserted, skipped>>
       ELSE /\ newTasks' = [t \in Tasks |->
                    IF \E i \in NewLines : file[i].task = t
                    THEN file[CHOOSE i \in NewLines : file[i].task = t].owner
                    ELSE newTasks[t]]
            /\ inserted' = inserted + Cardinality(NewLines)
            /\ skipped' = skipped + Cardinality(retained \ NewLines)
            /\ pc' = "commit"
            /\ UNCHANGED newUsers
    /\ UNCHANGED <<document, tables, batch, illisibles, read, rejected, insertedUsers,
                   count, world>>

\* The rows of the batch are behind.
Advance == offset' = CHOOSE i \in Batch : \A j \in Batch : j <= i

\* A unit of work that only acquires full batches.
CommitFullBatch ==
    /\ pc = "commit"
    /\ IF Cardinality(Batch) = BatchSize
       THEN users' = VisibleUsers /\ tasks' = VisibleTasks
       ELSE UNCHANGED tables
    /\ Closes("reading")
    /\ Advance
    /\ UNCHANGED <<document, retained, skippedOwner, report, count, world>>

\* An offset that counts in batches instead of lines.
CommitByTheBatch ==
    /\ pc = "commit"
    /\ users' = VisibleUsers /\ tasks' = VisibleTasks
    /\ Closes("reading")
    /\ offset' = offset + BatchSize
    /\ UNCHANGED <<document, retained, skippedOwner, report, count, world>>

\* uow.commit.
Commit ==
    /\ pc = "commit"
    /\ users' = VisibleUsers
    /\ tasks' = VisibleTasks
    /\ Closes("reading")
    /\ Advance
    /\ UNCHANGED <<document, retained, skippedOwner, report, count, world>>

\* A boundary that commits on the way out, whatever happened.
KillAndCommit ==
    /\ pc \notin Ended
    /\ users' = VisibleUsers /\ tasks' = VisibleTasks
    /\ Closes("killed")
    /\ UNCHANGED <<document, batch, report, count, world>>

\* The process or its connection dies.
Kill ==
    /\ pc \notin Ended
    /\ Closes("killed")
    /\ UNCHANGED <<document, tables, batch, report, count, world>>

Disturb ==
    /\ disturbances < Disturbances
    /\ disturbances' = disturbances + 1
    /\ UNCHANGED <<document, open, pc, batch, report, count>>

\* CreateUser, under an identifier of its own, with an address that is free.
CreateUser(o, e) ==
    /\ Disturb
    /\ \A i \in 1..Len(file) : file[i].owner # o
    /\ VisibleUsers[o] = Absent /\ o \notin dropped
    /\ \A p \in Owners : VisibleUsers[p] # e
    /\ users' = [users EXCEPT ![o] = e]
    /\ UNCHANGED <<tasks, dropped, deleted>>

\* A user deleted outside the API, with its tasks.  It waits for a transaction
\* that has just referenced it.
DropUser(o) ==
    /\ Disturb
    /\ users[o] # Absent
    /\ \A t \in Tasks : newTasks[t] # o
    /\ users' = [users EXCEPT ![o] = Absent]
    /\ tasks' = [t \in Tasks |-> IF tasks[t] = o THEN Absent ELSE tasks[t]]
    /\ dropped' = dropped \union {o}
    /\ deleted' = deleted \union {t \in Tasks : tasks[t] = o}

\* DeleteTask.
DeleteTask(t) ==
    /\ Disturb
    /\ tasks[t] # Absent
    /\ tasks' = [tasks EXCEPT ![t] = Absent]
    /\ deleted' = deleted \union {t}
    /\ UNCHANGED <<users, dropped>>

Next ==
    \/ Start
    \/ ReadBatch
    \/ SaveUsers \/ SaveUsersFails
    \/ KeepOwned
    \/ SaveTasks
    \/ Commit
    \/ Kill
    \/ \E o \in Owners : DropUser(o) \/ \E e \in Emails : CreateUser(o, e)
    \/ \E t \in Tasks : DeleteTask(t)

Spec == Init /\ [][Next]_vars

-----------------------------------------------------------------------------
(* Properties.                                                             *)

\* Between batches every row read is counted once: inserted, skipped or rejected;
\* and in the end every line is, when those the reader put aside are added.
ReportBalances ==
    pc \in {"reading", "reported"} =>
        /\ read = inserted + skipped + Cardinality(rejected)
        /\ pc = "reported" => read + Cardinality(illisibles) = Len(file)

StoredOrRemoved(i) == tasks[file[i].task] # Absent \/ file[i].task \in deleted

\* What the report does not reject is there: when the import reports, the task of
\* every other line is stored, unless the API has removed it since.
ReportedRowsAreStored ==
    pc = "reported" =>
        \A i \in 1..Len(file) : i \in rejected \union illisibles \/ StoredOrRemoved(i)

\* Whatever stops an import, dates that cannot be compared and texts that cannot be
\* stored included, the batches before are stored whole, and of the batch it
\* happens in nothing is, neither a task nor an owner.
StoppedImportKeepsWholeBatches ==
    pc \in Stopped =>
        /\ \A i \in 1..offset : i \in rejected \union illisibles \/ StoredOrRemoved(i)
        /\ \A t \in Tasks \ already :
            tasks[t] # Absent => \E i \in 1..offset : file[i].task = t
        /\ \A o \in Owners \ already :
            users[o] # Absent /\ (\E i \in 1..Len(file) : file[i].owner = o)
            => \E i \in 1..offset : file[i].owner = o

\* A batch only ever fails on a foreign key because a user was deleted meanwhile:
\* no content of the file and no address taken by someone else does it.
OnlyADropFailsABatch == pc = "integrity_error" => dropped # {}

\* A file in which an owner always has the same address, as an export writes it.
OneAddressEach ==
    \A i, j \in 1..Len(file) :
        file[i].owner = file[j].owner => file[i].email = file[j].email

\* A report of a second run when nothing else touched the tables.
Replayed == pc = "reported" /\ completed > 1 /\ disturbances = 0

\* Importing an export again inserts nothing, however the runs were cut.
ReplayOfExportInsertsNothing ==
    Replayed /\ OneAddressEach => inserted = 0 /\ insertedUsers = 0

\* An import never overwrites: what is stored stays as it is or is removed.
ImportOverwritesNothing ==
    [][/\ \A t \in Tasks : tasks[t] # Absent => tasks'[t] \in {tasks[t], Absent}
       /\ \A o \in Owners : users[o] # Absent => users'[o] \in {users[o], Absent}]_vars

-----------------------------------------------------------------------------
(* What the documentation says, and the code does not do.                  *)

\* Importing any file again inserts nothing.
ReplayInsertsNothing == Replayed => inserted = 0 /\ insertedUsers = 0
=============================================================================
