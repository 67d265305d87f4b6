---------------------------- MODULE AtomicTasks -----------------------------
(***************************************************************************)
(* What the task API promises: each use case of application/task/use_cases *)
(* reads and writes the tasks table in one indivisible step, and a task    *)
(* only follows the transitions of the Task aggregate.                     *)
(***************************************************************************)
EXTENDS TaskEntity

CONSTANT Tasks      \* task identifiers

VARIABLES
    users,          \* the users that exist
    tasks,          \* tasks[t]: the row of t, or Absent
    issued          \* identifiers some task has ever had

vars == <<users, tasks, issued>>

Init ==
    /\ users = Users
    /\ tasks \in [Tasks -> {Absent} \union
                    {row \in Row : /\ row.title = Origin
                                   /\ row.completedAt \in {Origin, Null}
                                   /\ row.created \in Ages
                                   /\ Reconstitutes(row)}]
    /\ issued = {t \in Tasks : tasks[t] # Absent}

\* A task is born "todo", under an identifier never used, for a known user.
Create(r, t, u) ==
    /\ u \in users
    /\ t \notin issued
    /\ tasks' = [tasks EXCEPT ![t] = Created(r, u)]
    /\ issued' = issued \union {t}
    /\ UNCHANGED users

\* An identifier drawn for a creation that does not go through.
Waste(t) ==
    /\ t \notin issued
    /\ issued' = issued \union {t}
    /\ UNCHANGED <<users, tasks>>

\* A task changes by a transition its aggregate accepts, all columns at once.
Change(r, t, o) ==
    /\ tasks[t] # Absent
    /\ Reconstitutes(tasks[t])
    /\ ~Refuses(tasks[t], o)
    /\ tasks' = [tasks EXCEPT ![t] = Transformed(tasks[t], o, r)]
    /\ UNCHANGED <<users, issued>>

Delete(t) ==
    /\ tasks[t] # Absent
    /\ tasks' = [tasks EXCEPT ![t] = Absent]
    /\ UNCHANGED <<users, issued>>

\* A user leaves with all its tasks.
DropUser(u) ==
    /\ u \in users
    /\ users' = users \ {u}
    /\ tasks' = [t \in Tasks |->
                    IF tasks[t] # Absent /\ tasks[t].owner = u
                    THEN Absent ELSE tasks[t]]
    /\ UNCHANGED issued

Next ==
    \/ \E t \in Tasks, r \in Requests :
        \/ \E u \in Users : Create(r, t, u)
        \/ \E o \in Transitions : Change(r, t, o)
    \/ \E t \in Tasks : Waste(t) \/ Delete(t)
    \/ \E u \in Users : DropUser(u)

Spec == Init /\ [][Next]_vars
=============================================================================
