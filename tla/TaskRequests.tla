---------------------------- MODULE TaskRequests ----------------------------
(***************************************************************************)
(* Concurrent HTTP requests on the tasks table.  Each request owns one     *)
(* session and one transaction (presentation/api/dependencies/session.py)  *)
(* under PostgreSQL's READ COMMITTED: a statement sees what is committed   *)
(* when it starts, a written row stays locked until the transaction ends,  *)
(* and an UPDATE that waited applies to the row version it then finds.     *)
(* There is no version column and no SELECT ... FOR UPDATE.                *)
(*                                                                         *)
(* A use case that changes a task reads its row twice: repository.get for  *)
(* the aggregate, then session.get inside repository.save for the instance *)
(* to write.  No one keeps the first instance, and SQLAlchemy's identity   *)
(* map is weak, so the second read goes to the database or, when the first *)
(* instance has not been collected, returns that one.                      *)
(***************************************************************************)
EXTENDS TaskEntity

CONSTANT Tasks

VARIABLES
    users,      \* committed content of the users table: identifiers
    tasks,      \* committed content of the tasks table
    issued,     \* task identifiers ever drawn by TaskId.generate (or imported)
    pc,         \* how far each request is
    op,         \* its use case
    target,     \* the task it is about
    loaded,     \* the row repository.get read, Absent for a creation
    entity,     \* the aggregate in memory, after its transition
    existing,   \* the instance session.get returned in repository.save
    answer      \* what the client got

store == <<users, tasks, issued>>
memory == <<op, target, loaded, entity, existing>>
vars == <<users, tasks, issued, pc, op, target, loaded, entity, existing, answer>>

Operations == Transitions \union {"create", "delete", "get", "list"}

Phases == {"idle", "loaded", "writing", "flushed", "committed", "done"}

\* "lost": the connection broke after COMMIT and before the response.
Answers == {"none", "ok", "not_found", "conflict", "unprocessable", "error", "lost"}

TypeOK ==
    /\ users \subseteq Users
    /\ tasks \in [Tasks -> Row \union {Absent}]
    /\ issued \subseteq Tasks
    /\ pc \in [Requests -> Phases]
    /\ op \in [Requests -> Operations \union {Null}]
    /\ target \in [Requests -> Tasks \union {Null}]
    /\ loaded \in [Requests -> Row \union {Absent}]
    /\ entity \in [Requests -> Row \union {Absent}]
    /\ existing \in [Requests -> Row \union {Absent}]
    /\ answer \in [Requests -> Answers]

-----------------------------------------------------------------------------

Stored == {t \in Tasks : tasks[t] # Absent}

\* A transaction is open between the first statement and COMMIT or ROLLBACK.
Open(r) == pc[r] \in {"loaded", "writing", "flushed"}

Committed(r) == pc[r] = "committed" \/ answer[r] \in {"ok", "lost"}

Inserts(r) == op[r] # "delete" /\ existing[r] = Absent

Updates(r) ==
    /\ op[r] # "delete"
    /\ existing[r] # Absent
    /\ Dirty(existing[r], entity[r])

\* flush emits nothing when no mapped attribute changed.
Writes(r) == op[r] = "delete" \/ Inserts(r) \/ Updates(r)

\* A session that is never given back keeps its locks.
HoldsForever(r, t) == pc[r] \in {"flushed", "done"} /\ target[r] = t /\ Writes(r)

\* The row lock (or the uncommitted key) a flushed statement holds.
Holds(r, t) == pc[r] = "flushed" /\ target[r] = t /\ Writes(r)

Locked(t) == \E r \in Requests : Holds(r, t)

\* The FOR KEY SHARE lock the foreign key takes on the owner of a new row.
SharesOwner(r, u) == pc[r] = "flushed" /\ Inserts(r) /\ entity[r].owner = u

-----------------------------------------------------------------------------

Init ==
    /\ users = Users
    /\ tasks \in [Tasks -> {Absent} \union
                    {row \in Row : /\ row.title = Origin
                                   /\ row.completedAt \in {Origin, Null}
                                   /\ row.created \in Ages
                                   /\ Reconstitutes(row)}]
    /\ issued = Stored
    /\ pc = [r \in Requests |-> "idle"]
    /\ op = [r \in Requests |-> Null]
    /\ target = [r \in Requests |-> Null]
    /\ loaded = [r \in Requests |-> Absent]
    /\ entity = [r \in Requests |-> Absent]
    /\ existing = [r \in Requests |-> Absent]
    /\ answer = [r \in Requests |-> "none"]

\* The handler raised, or has nothing to commit: the transaction is over.
Ends(r, a) ==
    /\ pc' = [pc EXCEPT ![r] = "done"]
    /\ answer' = [answer EXCEPT ![r] = a]

Becomes(r, phase) ==
    /\ pc' = [pc EXCEPT ![r] = phase]
    /\ UNCHANGED answer

\* Request r starts use case o on task t.
Arrives(r, o, t) ==
    /\ pc[r] = "idle"
    /\ op' = [op EXCEPT ![r] = o]
    /\ target' = [target EXCEPT ![r] = t]
    /\ UNCHANGED existing

\* Any use case on an identifier that is no UUID: TaskId.from_string refuses it
\* before the first statement.
RefuseId(r) ==
    /\ pc[r] = "idle"
    /\ Ends(r, "unprocessable")
    /\ UNCHANGED <<store, memory>>

\* TaskTitle: blank or too long, the title a request brings is refused.
TitleRefused(o) == o \in {"create", "rename"}

\* A use case that changes a task: repository.get then the transition.
LoadTask(r, o, t) ==
    /\ Arrives(r, o, t)
    /\ tasks[t] # Absent
    /\ Reconstitutes(tasks[t])
    /\ ~Refuses(tasks[t], o)
    /\ loaded' = [loaded EXCEPT ![r] = tasks[t]]
    /\ entity' = [entity EXCEPT ![r] = Transformed(tasks[t], o, r)]
    /\ Becomes(r, "loaded")
    /\ UNCHANGED store

\* The ways that part fails: no row, a row reconstitute rejects, a transition
\* the aggregate refuses, a new title TaskTitle refuses.
LoadTaskFails(r, o, t) ==
    /\ Arrives(r, o, t)
    /\ \/ tasks[t] = Absent /\ Ends(r, "not_found")
       \/ /\ tasks[t] # Absent
          /\ ~Reconstitutes(tasks[t]) \/ TitleRefused(o)
          /\ Ends(r, "unprocessable")
       \/ /\ tasks[t] # Absent
          /\ Reconstitutes(tasks[t])
          /\ Refuses(tasks[t], o)
          /\ Ends(r, "conflict")
    /\ UNCHANGED <<store, loaded, entity>>

StartTask(r, t) == LoadTask(r, "start", t) \/ LoadTaskFails(r, "start", t)

CompleteTask(r, t) == LoadTask(r, "complete", t) \/ LoadTaskFails(r, "complete", t)

RenameTask(r, t) == LoadTask(r, "rename", t) \/ LoadTaskFails(r, "rename", t)

\* GET /tasks/{task_id}.
GetTask(r, t) ==
    /\ Arrives(r, "get", t)
    /\ Ends(r, IF tasks[t] = Absent THEN "not_found"
               ELSE IF Reconstitutes(tasks[t]) THEN "ok" ELSE "unprocessable")
    /\ UNCHANGED <<store, loaded, entity>>

\* GET /tasks, one page: a single row that reconstitute rejects fails it.
ListTasks(r) ==
    /\ Arrives(r, "list", Null)
    /\ \E page \in SUBSET Stored :
        Ends(r, IF \A t \in page : Reconstitutes(tasks[t])
                THEN "ok" ELSE "unprocessable")
    /\ UNCHANGED <<store, loaded, entity>>

\* GET /users/{user_id}/tasks: users.exists, then the columns of the rows, which
\* nothing reconstitutes; an owner dropped in between has an empty page.
ListTasksByOwner(r, u) ==
    /\ Arrives(r, "list", Null)
    /\ Ends(r, IF u \in users THEN "ok" ELSE "not_found")
    /\ UNCHANGED <<store, loaded, entity>>

\* CreateTask: users.exists, then Task.create under a new identifier.
CheckOwner(r, u, t) ==
    /\ Arrives(r, "create", t)
    /\ t \notin issued
    /\ \/ /\ u \in users
          /\ issued' = issued \union {t}
          /\ entity' = [entity EXCEPT ![r] = Created(r, u)]
          /\ Becomes(r, "loaded")
       \/ /\ \/ u \notin users /\ Ends(r, "not_found")
             \/ u \in users /\ TitleRefused("create") /\ Ends(r, "unprocessable")
          /\ UNCHANGED <<issued, entity>>
    /\ UNCHANGED <<users, tasks, loaded>>

\* DeleteTask reads nothing first.
AskDelete(r, t) ==
    /\ Arrives(r, "delete", t)
    /\ Becomes(r, "writing")
    /\ UNCHANGED <<store, loaded, entity>>

\* repository.save: session.get answers from the database, or from the
\* identity map if the instance of repository.get is still alive.
Reload(r) ==
    /\ pc[r] = "loaded"
    /\ \E row \in {tasks[target[r]], loaded[r]} :
        existing' = [existing EXCEPT ![r] = row]
    /\ Becomes(r, "writing")
    /\ UNCHANGED <<store, op, target, loaded, entity>>

\* tasks_owner_id_fkey, the only referee once users.exists has answered.
NoForeignKey(r) == TRUE
ForeignKeyHolds(r) == entity[r].owner \in users

\* The statement runs: session.flush in repository.save, or the DELETE.  It
\* waits for the transaction that holds the row, then may find it gone.
Flush(r) ==
    /\ pc[r] = "writing"
    /\ Writes(r) => ~Locked(target[r])
    /\ LET row == tasks[target[r]] IN
        \/ /\ \/ ~Writes(r)
              \/ Inserts(r) /\ row = Absent /\ ForeignKeyHolds(r)
              \/ ~Inserts(r) /\ row # Absent
           /\ Becomes(r, "flushed")
        \/ /\ Inserts(r) /\ row = Absent /\ ~ForeignKeyHolds(r)
           /\ Ends(r, "not_found")         \* foreign key: UserNotFound
        \/ /\ op[r] = "delete" /\ row = Absent
           /\ Ends(r, "not_found")         \* rowcount 0: TaskNotFound
        \/ /\ \/ Inserts(r) /\ row # Absent \* primary key
              \/ Updates(r) /\ row = Absent \* StaleDataError
           /\ Ends(r, "error")
    /\ UNCHANGED <<store, memory>>

\* The row a request leaves behind when its transaction commits.
Written(r) ==
    CASE op[r] = "delete" -> Absent
      [] Inserts(r)       -> entity[r]
      [] OTHER            -> Updated(tasks[target[r]], existing[r], entity[r])

\* session.commit, once the handler has returned.
Commit(r) ==
    /\ pc[r] = "flushed"
    /\ tasks' = IF Writes(r) THEN [tasks EXCEPT ![target[r]] = Written(r)] ELSE tasks
    /\ Becomes(r, "committed")
    /\ UNCHANGED <<users, issued, memory>>

\* scope="request", FastAPI's default: the response leaves before the commit.
RespondBeforeCommit(r) ==
    /\ pc[r] \in {"flushed", "committed"}
    /\ Ends(r, "ok")
    /\ UNCHANGED <<store, memory>>

\* scope="function": the response leaves after COMMIT.
Respond(r) ==
    /\ pc[r] = "committed"
    /\ Ends(r, "ok")
    /\ UNCHANGED <<store, memory>>

\* A boundary that commits whatever happened instead of rolling back.
BreakAndCommit(r) ==
    /\ \/ Open(r) /\ Ends(r, "error")
       \/ pc[r] = "committed" /\ Ends(r, "lost")
    /\ tasks' = IF pc[r] = "flushed" /\ Writes(r)
                THEN [tasks EXCEPT ![target[r]] = Written(r)] ELSE tasks
    /\ UNCHANGED <<users, issued, memory>>

\* The connection to the database or to the client breaks: rollback if the
\* transaction is still open, and a client left in the dark if it is not.
Break(r) ==
    /\ \/ Open(r) /\ Ends(r, "error")
       \/ pc[r] = "committed" /\ Ends(r, "lost")
    /\ UNCHANGED <<store, memory>>

\* A user deleted outside the API; the foreign key cascades to its tasks.
DropUser(u) ==
    /\ u \in users
    /\ \A r \in Requests : ~SharesOwner(r, u)
    /\ \A t \in Stored : tasks[t].owner = u => ~Locked(t)
    /\ users' = users \ {u}
    /\ tasks' = [t \in Tasks |->
                    IF tasks[t] # Absent /\ tasks[t].owner = u
                    THEN Absent ELSE tasks[t]]
    /\ UNCHANGED <<issued, pc, memory, answer>>

Next ==
    \/ \E r \in Requests, t \in Tasks :
        \/ StartTask(r, t)
        \/ CompleteTask(r, t)
        \/ RenameTask(r, t)
        \/ \E u \in Users : CheckOwner(r, u, t)
        \/ GetTask(r, t)
        \/ AskDelete(r, t)
    \/ \E r \in Requests :
        \/ RefuseId(r)
        \/ ListTasks(r)
        \/ \E u \in Users : ListTasksByOwner(r, u)
        \/ Reload(r)
        \/ Flush(r)
        \/ Commit(r)
        \/ Respond(r)
        \/ Break(r)
    \/ \E u \in Users : DropUser(u)

Spec == Init /\ [][Next]_vars

\* As long as some request can go on, one does: asyncio runs a ready coroutine,
\* and PostgreSQL wakes a waiter when the lock it waits for is released.
FairSpec ==
    /\ Spec
    /\ WF_vars(\E r \in Requests : Reload(r) \/ Flush(r) \/ Commit(r) \/ Respond(r))

\* The requests one after the other; users may still be dropped in between.
OneOpen == \A q, r \in Requests : Open(q) /\ Open(r) => q = r

SerialSpec == Init /\ [][Next /\ OneOpen']_vars

-----------------------------------------------------------------------------
(* Properties of every interleaving.                                       *)

\* No task outlives its owner, whatever CreateTask's check, a rewrite of a
\* deleted task and the deletion of users do between each other's steps.
OwnerIntegrity == \A t \in Stored : tasks[t].owner \in users

\* What is stored was written by requests that committed: nothing that was
\* refused, rolled back or is still uncommitted shows, even second-hand
\* through a row some other request read and wrote back.
RejectedLeaveNoTrace ==
    \A t \in Stored :
        {tasks[t].title, tasks[t].completedAt} \intersect Requests
            \subseteq {r \in Requests : Committed(r)}

\* A 201 is never for a transaction that was undone: a task whose creation was
\* acknowledged is there until a deletion commits or its owner is dropped.
AcknowledgedCreationStays ==
    \A r \in Requests :
        op[r] = "create" /\ answer[r] = "ok" /\ tasks[target[r]] = Absent =>
            \/ entity[r].owner \notin users
            \/ \E q \in Requests :
                op[q] = "delete" /\ target[q] = target[r] /\ Committed(q)

\* Spent identifiers, for the promise: those not in the hands of an open creation.
Spent == issued \ {target[r] : r \in {q \in Requests : op[q] = "create" /\ Open(q)}}

Promise == INSTANCE AtomicTasks WITH issued <- Spent

\* A request that finds at COMMIT the row it had read changes the task exactly
\* as the aggregate did in memory, all columns together: that is what the
\* column-by-column UPDATE comes to when no one else wrote.
UndisturbedCommitKeepsPromise ==
    [][\A r \in Requests :
        /\ pc[r] = "flushed" /\ pc'[r] = "committed" /\ op[r] \in Transitions
        /\ loaded[r] = existing[r] /\ existing[r] = tasks[target[r]]
        => Promise!Change(r, target[r], op[r])]_vars

\* Every request that has started is answered: no lock is waited for forever,
\* and no two requests wait for each other.
EveryRequestAnswered == <>[](\A r \in Requests : pc[r] \in {"idle", "done"})

-----------------------------------------------------------------------------
(* What the documentation and the tests say, true of requests that do not  *)
(* overlap and false of those that do.                                     *)

\* Requests run one at a time implement the promise of AtomicTasks.
KeepsPromise == Promise!Spec

\* Every stored task is one Task.reconstitute accepts.
StoredTasksReadable == \A t \in Stored : Reconstitutes(tasks[t])

\* A completed task keeps its completion date: it is neither completed a second
\* time nor taken back to an earlier status.
FirstCompletionKept ==
    [][\A t \in Tasks :
        /\ tasks[t] # Absent /\ tasks'[t] # Absent
        /\ tasks[t].completedAt # Null
        => tasks'[t].completedAt = tasks[t].completedAt]_vars

\* A task whose deletion was acknowledged does not come back.
DeletedStaysDeleted ==
    \A r \in Requests :
        op[r] = "delete" /\ answer[r] = "ok" => tasks[target[r]] = Absent
=============================================================================
