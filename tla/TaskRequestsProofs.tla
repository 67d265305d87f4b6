------------------------- MODULE TaskRequestsProofs -------------------------
(***************************************************************************)
(* Proofs about TaskRequests, for any sets of users, tasks and requests.   *)
(***************************************************************************)
EXTENDS TaskRequests, TLAPS

-----------------------------------------------------------------------------
(* The aggregate.                                                          *)

\* Task.create builds a well-formed row for an owner it was given.
LEMMA CreatedRow ==
    ASSUME NEW r \in Requests, NEW u \in Users
    PROVE  Created(r, u) \in Row /\ Created(r, u).owner = u
BY DEF Created, Row, Authors, Status

\* A transition keeps a row well formed and never changes its owner.
LEMMA TransformedRow ==
    ASSUME NEW row \in Row, NEW o \in Transitions, NEW r \in Requests
    PROVE  Transformed(row, o, r) \in Row /\ Transformed(row, o, r).owner = row.owner
<1>1. CASE o = "start"
  BY <1>1 DEF Transformed, Row, Status
<1>2. CASE o = "complete"
  BY <1>2 DEF Transformed, Row, Status, Authors
<1>3. CASE o = "rename"
  BY <1>3 DEF Transformed, Row, Authors
<1> QED
  BY <1>1, <1>2, <1>3 DEF Transitions

\* So does the column-by-column UPDATE.
LEMMA UpdatedRow ==
    ASSUME NEW row \in Row, NEW old \in Row, NEW task \in Row
    PROVE  Updated(row, old, task) \in Row /\ Updated(row, old, task).owner = row.owner
BY DEF Updated, Row

-----------------------------------------------------------------------------
(* The steps, by use case.                                                 *)

\* A request answered on its first step that names no task.
AnsweredAtOnce(r) ==
    RefuseId(r) \/ ListTasks(r) \/ \E u \in Users : ListTasksByOwner(r, u)

\* Next, with the three use cases that change a task taken together.
LEMMA Steps ==
    ASSUME Next
    PROVE  \/ \E r \in Requests, t \in Tasks :
                \/ \E o \in Transitions : LoadTask(r, o, t) \/ LoadTaskFails(r, o, t)
                \/ \E u \in Users : CheckOwner(r, u, t)
                \/ GetTask(r, t)
                \/ AskDelete(r, t)
           \/ \E r \in Requests :
                \/ AnsweredAtOnce(r) \/ Reload(r) \/ Flush(r)
                \/ Commit(r) \/ Respond(r) \/ Break(r)
           \/ \E u \in Users : DropUser(u)
BY DEF Next, StartTask, CompleteTask, RenameTask, Transitions, AnsweredAtOnce

-----------------------------------------------------------------------------
(* Types, what a request in progress holds in memory, and row locks.       *)

\* A request between its first statement and its commit works on one task, and
\* unless it deletes it has in memory the aggregate its use case produced.
InProgress ==
    \A r \in Requests : Open(r) =>
        /\ op[r] \in Transitions \union {"create", "delete"}
        /\ target[r] \in Tasks
        /\ op[r] # "delete" => entity[r] \in Row
        /\ op[r] \in Transitions =>
            /\ loaded[r] \in Row
            /\ Reconstitutes(loaded[r])
            /\ ~Refuses(loaded[r], op[r])
            /\ entity[r] = Transformed(loaded[r], op[r], r)

\* Two uncommitted statements never hold the same row.
OneWriter ==
    \A q, r \in Requests, t \in Tasks : Holds(q, t) /\ Holds(r, t) => q = r

\* The row an uncommitted UPDATE holds is still there.
HeldRowStays ==
    \A r \in Requests :
        pc[r] = "flushed" /\ Updates(r) => tasks[target[r]] # Absent

TypeInv == TypeOK /\ InProgress /\ OneWriter /\ HeldRowStays

\* Before any request the types are right and no lock is held.
LEMMA InitTypeInv == Init => TypeInv
BY DEF Init, TypeInv, TypeOK, InProgress, OneWriter, HeldRowStays, Holds, Stored,
       Row, Authors, Phases, Answers, Open

\* Every step keeps the types and what requests in progress hold.
LEMMA NextTypes == TypeInv /\ [Next]_vars => TypeOK' /\ InProgress'
<1> SUFFICES ASSUME TypeInv, [Next]_vars
             PROVE  TypeOK' /\ InProgress'
  OBVIOUS
<1> USE DEF TypeInv
<1>1. ASSUME NEW r \in Requests, NEW t \in Tasks, NEW o \in Transitions,
             LoadTask(r, o, t)
      PROVE  TypeOK' /\ InProgress'
  <2>1. tasks[t] \in Row
    BY <1>1 DEF LoadTask, TypeOK
  <2>2. Transformed(tasks[t], o, r) \in Row
    BY <2>1, TransformedRow
  <2>3. TypeOK'
    BY <1>1, <2>1, <2>2
    DEF TypeOK, LoadTask, Arrives, Becomes, store, Operations, Phases
  <2>4. InProgress'
    BY <1>1, <2>1, <2>2 DEF TypeOK, InProgress, Open, LoadTask, Arrives, Becomes
  <2> QED
    BY <2>3, <2>4
<1>2. ASSUME NEW r \in Requests, NEW t \in Tasks, NEW o \in Transitions,
             LoadTaskFails(r, o, t)
      PROVE  TypeOK' /\ InProgress'
  <2>1. TypeOK'
    BY <1>2 DEF TypeOK, LoadTaskFails, Arrives, Ends, store, Operations, Phases, Answers
  <2>2. InProgress'
    BY <1>2 DEF TypeOK, InProgress, Open, LoadTaskFails, Arrives, Ends
  <2> QED
    BY <2>1, <2>2
<1>3. ASSUME NEW r \in Requests, NEW t \in Tasks, GetTask(r, t)
      PROVE  TypeOK' /\ InProgress'
  <2>1. TypeOK'
    BY <1>3 DEF TypeOK, GetTask, Arrives, Ends, store, Operations, Phases, Answers
  <2>2. InProgress'
    BY <1>3 DEF TypeOK, InProgress, Open, GetTask, Arrives, Ends
  <2> QED
    BY <2>1, <2>2
<1>4. ASSUME NEW r \in Requests, AnsweredAtOnce(r)
      PROVE  TypeOK' /\ InProgress'
  <2>1. TypeOK'
    BY <1>4
    DEF TypeOK, AnsweredAtOnce, RefuseId, ListTasks, ListTasksByOwner, memory,
        Arrives, Ends, store, Operations, Phases, Answers
  <2>2. InProgress'
    BY <1>4
    DEF TypeOK, InProgress, Open, AnsweredAtOnce, RefuseId, ListTasks,
        ListTasksByOwner, memory, Arrives, Ends
  <2> QED
    BY <2>1, <2>2
<1>5. ASSUME NEW r \in Requests, NEW t \in Tasks, NEW u \in Users,
             CheckOwner(r, u, t)
      PROVE  TypeOK' /\ InProgress'
  <2>1. Created(r, u) \in Row
    BY CreatedRow
  <2>2. TypeOK'
    BY <1>5, <2>1
    DEF TypeOK, CheckOwner, Arrives, Ends, Becomes, Operations, Phases, Answers
  <2>3. InProgress'
    BY <1>5, <2>1
    DEF TypeOK, InProgress, Open, CheckOwner, Arrives, Ends, Becomes, Transitions
  <2> QED
    BY <2>2, <2>3
<1>6. ASSUME NEW r \in Requests, NEW t \in Tasks, AskDelete(r, t)
      PROVE  TypeOK' /\ InProgress'
  <2>1. TypeOK'
    BY <1>6 DEF TypeOK, AskDelete, Arrives, Becomes, store, Operations, Phases
  <2>2. InProgress'
    BY <1>6 DEF TypeOK, InProgress, Open, AskDelete, Arrives, Becomes, Transitions
  <2> QED
    BY <2>1, <2>2
<1>7. ASSUME NEW r \in Requests, Reload(r)
      PROVE  TypeOK' /\ InProgress'
  <2>1. target[r] \in Tasks
    BY <1>7 DEF Reload, InProgress, Open
  <2>2. TypeOK'
    BY <1>7, <2>1 DEF TypeOK, Reload, Becomes, store, Phases
  <2>3. InProgress'
    BY <1>7 DEF TypeOK, InProgress, Open, Reload, Becomes
  <2> QED
    BY <2>2, <2>3
<1>8. ASSUME NEW r \in Requests, Flush(r)
      PROVE  TypeOK' /\ InProgress'
  <2>1. TypeOK'
    BY <1>8 DEF TypeOK, Flush, Becomes, Ends, store, memory, Phases, Answers
  <2>2. InProgress'
    BY <1>8 DEF TypeOK, InProgress, Open, Flush, Becomes, Ends, memory
  <2> QED
    BY <2>1, <2>2
<1>9. ASSUME NEW r \in Requests, Commit(r)
      PROVE  TypeOK' /\ InProgress'
  <2>1. tasks' \in [Tasks -> Row \union {Absent}]
    <3>1. target[r] \in Tasks /\ (op[r] # "delete" => entity[r] \in Row)
      BY <1>9 DEF Commit, InProgress, Open
    <3>2. ASSUME Writes(r)
          PROVE  Written(r) \in Row \union {Absent}
      <4>1. CASE op[r] = "delete"
        BY <4>1 DEF Written, Inserts
      <4>2. CASE Inserts(r)
        BY <3>1, <4>2 DEF Written, Inserts
      <4>3. CASE Updates(r)
        \* An update is of a row that is there: the lock taken at flush kept it.
        <5>1. tasks[target[r]] \in Row
          BY <1>9, <3>1, <4>3 DEF Commit, HeldRowStays, TypeOK
        <5>2. existing[r] \in Row /\ entity[r] \in Row
          BY <3>1, <4>3 DEF Updates, TypeOK
        <5> QED
          BY <4>3, <5>1, <5>2, UpdatedRow DEF Written, Updates, Inserts
      <4> QED
        BY <3>2, <4>1, <4>2, <4>3 DEF Writes
    <3> QED
      BY <1>9, <3>1, <3>2 DEF Commit, TypeOK
  <2>2. TypeOK'
    BY <1>9, <2>1 DEF TypeOK, Commit, Becomes, memory, Phases
  <2>3. InProgress'
    BY <1>9 DEF TypeOK, InProgress, Open, Commit, Becomes, memory
  <2> QED
    BY <2>2, <2>3
<1>10. ASSUME NEW r \in Requests, Respond(r)
       PROVE  TypeOK' /\ InProgress'
  <2>1. TypeOK'
    BY <1>10 DEF TypeOK, Respond, Ends, store, memory, Phases, Answers
  <2>2. InProgress'
    BY <1>10 DEF TypeOK, InProgress, Open, Respond, Ends, memory
  <2> QED
    BY <2>1, <2>2
<1>11. ASSUME NEW r \in Requests, Break(r)
       PROVE  TypeOK' /\ InProgress'
  <2>1. TypeOK'
    BY <1>11 DEF TypeOK, Break, Ends, store, memory, Phases, Answers
  <2>2. InProgress'
    BY <1>11 DEF TypeOK, InProgress, Open, Break, Ends, memory
  <2> QED
    BY <2>1, <2>2
<1>12. ASSUME NEW u \in Users, DropUser(u)
       PROVE  TypeOK' /\ InProgress'
  BY <1>12 DEF TypeOK, InProgress, Open, DropUser, memory
<1>13. ASSUME UNCHANGED vars
       PROVE  TypeOK' /\ InProgress'
  BY <1>13 DEF TypeOK, InProgress, Open, vars
<1> QED
  BY <1>1, <1>2, <1>3, <1>4, <1>5, <1>6, <1>7, <1>8, <1>9, <1>10, <1>11, <1>12,
     <1>13, Steps

\* A step of request r that neither flushes nor commits: no statement of
\* another transaction can tell it was taken.
Quiet(r) ==
    /\ pc'[r] # "flushed"
    /\ tasks' = tasks /\ users' = users
    /\ \A q \in Requests \ {r} :
        /\ pc'[q] = pc[q] /\ op'[q] = op[q] /\ target'[q] = target[q]
        /\ existing'[q] = existing[q] /\ entity'[q] = entity[q]

\* Only Flush, Commit and DropUser are not quiet.
LEMMA StepKinds ==
    ASSUME TypeOK, Next
    PROVE  \/ \E r \in Requests : Quiet(r) \/ Flush(r) \/ Commit(r)
           \/ \E u \in Users : DropUser(u)
<1>1. ASSUME NEW r \in Requests, NEW t \in Tasks, NEW o \in Transitions,
             LoadTask(r, o, t)
      PROVE  Quiet(r)
  BY <1>1 DEF Quiet, TypeOK, LoadTask, Arrives, Becomes, store
<1>2. ASSUME NEW r \in Requests, NEW t \in Tasks, NEW o \in Transitions,
             LoadTaskFails(r, o, t)
      PROVE  Quiet(r)
  BY <1>2 DEF Quiet, TypeOK, LoadTaskFails, Arrives, Ends, store
<1>3. ASSUME NEW r \in Requests, NEW t \in Tasks, GetTask(r, t)
      PROVE  Quiet(r)
  BY <1>3 DEF Quiet, TypeOK, GetTask, Arrives, Ends, store
<1>4. ASSUME NEW r \in Requests, AnsweredAtOnce(r)
      PROVE  Quiet(r)
  BY <1>4
  DEF Quiet, TypeOK, AnsweredAtOnce, RefuseId, ListTasks, ListTasksByOwner, memory,
      Arrives, Ends, store
<1>5. ASSUME NEW r \in Requests, NEW t \in Tasks, NEW u \in Users,
             CheckOwner(r, u, t)
      PROVE  Quiet(r)
  BY <1>5 DEF Quiet, TypeOK, CheckOwner, Arrives, Ends, Becomes
<1>6. ASSUME NEW r \in Requests, NEW t \in Tasks, AskDelete(r, t)
      PROVE  Quiet(r)
  BY <1>6 DEF Quiet, TypeOK, AskDelete, Arrives, Becomes, store
<1>7. ASSUME NEW r \in Requests, Reload(r)
      PROVE  Quiet(r)
  BY <1>7 DEF Quiet, TypeOK, Reload, Becomes, store
<1>8. ASSUME NEW r \in Requests, Respond(r)
      PROVE  Quiet(r)
  BY <1>8 DEF Quiet, TypeOK, Respond, Ends, store, memory
<1>9. ASSUME NEW r \in Requests, Break(r)
      PROVE  Quiet(r)
  BY <1>9 DEF Quiet, TypeOK, Break, Ends, store, memory
<1> QED
  BY <1>1, <1>2, <1>3, <1>4, <1>5, <1>6, <1>7, <1>8, <1>9, Steps

\* A quiet step of r leaves alone the locks of everyone.
LEMMA QuietLocks ==
    ASSUME NEW r \in Requests, OneWriter, HeldRowStays, Quiet(r)
    PROVE  OneWriter' /\ HeldRowStays'
<1>1. ASSUME NEW q \in Requests, pc'[q] = "flushed"
      PROVE  /\ pc[q] = "flushed" /\ target'[q] = target[q]
             /\ Writes(q)' <=> Writes(q)
             /\ Updates(q)' <=> Updates(q)
  BY <1>1 DEF Quiet, Writes, Inserts, Updates
<1>2. ASSUME NEW q \in Requests, NEW t \in Tasks, Holds(q, t)'
      PROVE  Holds(q, t)
  BY <1>1, <1>2 DEF Holds
<1>3. OneWriter'
  BY <1>2 DEF OneWriter
<1>4. HeldRowStays'
  BY <1>1 DEF HeldRowStays, Quiet
<1> QED
  BY <1>3, <1>4

\* Every step keeps row locks exclusive and the rows they hold in place.
LEMMA NextLocks == TypeInv /\ [Next]_vars => OneWriter' /\ HeldRowStays'
<1> SUFFICES ASSUME TypeInv, [Next]_vars
             PROVE  OneWriter' /\ HeldRowStays'
  OBVIOUS
<1> USE DEF TypeInv
<1>1. ASSUME NEW r \in Requests, Quiet(r)
      PROVE  OneWriter' /\ HeldRowStays'
  BY <1>1, QuietLocks
<1>2. ASSUME NEW r \in Requests, Flush(r)
      PROVE  OneWriter' /\ HeldRowStays'
  <2>1. ASSUME NEW q \in Requests
        PROVE  /\ Writes(q)' <=> Writes(q)
               /\ Updates(q)' <=> Updates(q)
               /\ target'[q] = target[q]
               /\ q # r => pc'[q] = pc[q]
    BY <1>2 DEF TypeOK, Flush, Becomes, Ends, memory, Writes, Inserts, Updates
  <2>2. target[r] \in Tasks /\ (Writes(r) => ~Locked(target[r]))
    BY <1>2 DEF Flush, InProgress, Open
  <2>3. OneWriter'
    <3>1. SUFFICES ASSUME NEW q \in Requests, NEW t \in Tasks,
                          Holds(q, t)', Holds(r, t)', q # r
                   PROVE  FALSE
      BY <2>1 DEF OneWriter, Holds
    <3>2. Writes(r) /\ target[r] = t /\ Holds(q, t)
      BY <3>1, <2>1 DEF Holds
    <3> QED
      BY <3>2, <2>2 DEF Locked
  <2>4. HeldRowStays'
    <3>1. SUFFICES ASSUME pc'[r] = "flushed", Updates(r)
                   PROVE  tasks[target[r]] # Absent
      BY <1>2, <2>1 DEF HeldRowStays, Flush, store
    <3>2. Writes(r) /\ ~Inserts(r)
      BY <3>1 DEF Writes, Updates, Inserts
    <3> QED
      BY <1>2, <3>1, <3>2 DEF Flush, Becomes, Ends, TypeOK
  <2> QED
    BY <2>3, <2>4
<1>3. ASSUME NEW r \in Requests, Commit(r)
      PROVE  OneWriter' /\ HeldRowStays'
  <2>1. ASSUME NEW q \in Requests, pc'[q] = "flushed"
        PROVE  /\ q # r /\ pc[q] = "flushed" /\ target'[q] = target[q]
               /\ Writes(q)' <=> Writes(q)
               /\ Updates(q)' <=> Updates(q)
    BY <1>3, <2>1
    DEF TypeOK, Commit, Becomes, memory, Writes, Inserts, Updates
  <2>2. OneWriter'
    BY <2>1 DEF OneWriter, Holds
  <2>3. HeldRowStays'
    <3>1. SUFFICES ASSUME NEW q \in Requests, pc'[q] = "flushed", Updates(q)'
                   PROVE  tasks'[target[q]] # Absent
      BY <2>1 DEF HeldRowStays
    <3>2. q # r /\ pc[q] = "flushed" /\ Updates(q) /\ tasks[target[q]] # Absent
      BY <2>1, <3>1 DEF HeldRowStays
    <3>3. target[q] \in Tasks /\ Holds(q, target[q])
      BY <3>2 DEF InProgress, Open, Holds, Writes
    <3>4. ~Holds(r, target[q])
      BY <3>2, <3>3 DEF OneWriter
    <3> QED
      BY <1>3, <3>2, <3>3, <3>4 DEF Commit, Holds, TypeOK
  <2> QED
    BY <2>2, <2>3
<1>4. ASSUME NEW u \in Users, DropUser(u)
      PROVE  OneWriter' /\ HeldRowStays'
  <2>1. OneWriter'
    BY <1>4 DEF OneWriter, Holds, Writes, Inserts, Updates, DropUser, memory
  <2>2. HeldRowStays'
    <3>1. SUFFICES ASSUME NEW r \in Requests, pc[r] = "flushed", Updates(r)
                   PROVE  tasks'[target[r]] # Absent
      BY <1>4 DEF HeldRowStays, Updates, DropUser, memory
    <3>2. target[r] \in Tasks /\ tasks[target[r]] # Absent
      BY <3>1 DEF HeldRowStays, InProgress, Open
    <3>3. Locked(target[r]) /\ target[r] \in Stored
      BY <3>1, <3>2 DEF Locked, Holds, Writes, Stored
    <3>4. tasks[target[r]].owner # u
      BY <1>4, <3>3 DEF DropUser
    <3> QED
      BY <1>4, <3>2, <3>4 DEF DropUser
  <2> QED
    BY <2>1, <2>2
<1>5. ASSUME UNCHANGED vars
      PROVE  OneWriter' /\ HeldRowStays'
  BY <1>5 DEF OneWriter, HeldRowStays, Holds, Writes, Inserts, Updates, vars
<1> QED
  BY <1>1, <1>2, <1>3, <1>4, <1>5, StepKinds

\* The types are right in every reachable state (and so are the locks).
THEOREM Types == Spec => []TypeInv
<1>1. TypeInv /\ [Next]_vars => TypeInv'
  BY NextTypes, NextLocks DEF TypeInv
<1> QED
  BY InitTypeInv, <1>1, PTL DEF Spec

\* The types are right in every reachable state.
THEOREM TypeCorrect == Spec => []TypeOK
BY Types, PTL DEF TypeInv

-----------------------------------------------------------------------------
(* The foreign key.                                                        *)

\* The owner of a row inserted and not yet committed is kept by the lock the
\* foreign key took on it.
HeldOwner ==
    \A r \in Requests :
        pc[r] = "flushed" /\ Inserts(r) => entity[r].owner \in users

OwnerInv == OwnerIntegrity /\ HeldOwner

\* Every step keeps the owners of stored rows, and those the foreign key of
\* an uncommitted insertion has locked.
LEMMA NextOwner == TypeInv /\ OwnerInv /\ [Next]_vars => OwnerInv'
<1> SUFFICES ASSUME TypeInv, OwnerInv, [Next]_vars
             PROVE  OwnerInv'
  OBVIOUS
<1> USE DEF TypeInv, OwnerInv
<1>1. ASSUME NEW r \in Requests, Quiet(r)
      PROVE  OwnerInv'
  <2>1. OwnerIntegrity'
    BY <1>1 DEF OwnerIntegrity, Stored, Quiet
  <2>2. HeldOwner'
    BY <1>1 DEF HeldOwner, Inserts, Quiet
  <2> QED
    BY <2>1, <2>2
<1>2. ASSUME NEW r \in Requests, Flush(r)
      PROVE  OwnerInv'
  <2>1. OwnerIntegrity'
    BY <1>2 DEF OwnerIntegrity, Stored, Flush, store
  <2>2. HeldOwner'
    <3>1. SUFFICES ASSUME NEW q \in Requests, pc'[q] = "flushed", Inserts(q)
                   PROVE  entity[q].owner \in users
      BY <1>2 DEF HeldOwner, Inserts, Flush, store, memory
    <3>2. CASE q = r
      BY <1>2, <3>1, <3>2
      DEF Flush, Becomes, Ends, TypeOK, Writes, ForeignKeyHolds
    <3>3. CASE q # r
      BY <1>2, <3>1, <3>3 DEF Flush, Becomes, Ends, TypeOK, HeldOwner
    <3> QED
      BY <3>2, <3>3
  <2> QED
    BY <2>1, <2>2
<1>3. ASSUME NEW r \in Requests, Commit(r)
      PROVE  OwnerInv'
  <2>1. op[r] # "delete" => entity[r] \in Row
    BY <1>3 DEF Commit, InProgress, Open
  <2>2. ASSUME Writes(r), Written(r) # Absent
        PROVE  Written(r).owner \in users
    <3>1. CASE op[r] = "delete"
      BY <2>2, <3>1 DEF Written, Inserts
    <3>2. CASE Inserts(r)
      BY <1>3, <3>2 DEF Written, Inserts, Commit, HeldOwner
    <3>3. CASE Updates(r)
      <4>1. target[r] \in Stored
        BY <1>3, <3>3 DEF Commit, HeldRowStays, InProgress, Open, Stored
      <4>2. tasks[target[r]] \in Row /\ tasks[target[r]].owner \in users
        BY <4>1 DEF OwnerIntegrity, Stored, TypeOK
      <4>3. Written(r) = Updated(tasks[target[r]], existing[r], entity[r])
        BY <3>3 DEF Written, Updates, Inserts
      <4>4. existing[r] \in Row /\ entity[r] \in Row
        BY <2>1, <3>3 DEF Updates, TypeOK
      <4> QED
        BY <4>2, <4>3, <4>4, UpdatedRow
    <3> QED
      BY <2>2, <3>1, <3>2, <3>3 DEF Writes
  <2>3. OwnerIntegrity'
    BY <1>3, <2>2 DEF OwnerIntegrity, Stored, Commit, TypeOK
  <2>4. HeldOwner'
    BY <1>3 DEF HeldOwner, Inserts, Commit, Becomes, memory, TypeOK
  <2> QED
    BY <2>3, <2>4
<1>4. ASSUME NEW u \in Users, DropUser(u)
      PROVE  OwnerInv'
  <2>1. OwnerIntegrity'
    BY <1>4 DEF OwnerIntegrity, Stored, DropUser
  <2>2. HeldOwner'
    BY <1>4 DEF HeldOwner, SharesOwner, Inserts, DropUser, memory
  <2> QED
    BY <2>1, <2>2
<1>5. ASSUME UNCHANGED vars
      PROVE  OwnerInv'
  BY <1>5 DEF OwnerIntegrity, HeldOwner, Stored, Inserts, vars
<1> QED
  BY <1>1, <1>2, <1>3, <1>4, <1>5, StepKinds

\* No task outlives its owner, whatever the interleaving.
THEOREM OwnersExist == Spec => []OwnerIntegrity
<1>1. Init => OwnerInv
  BY DEF Init, OwnerInv, OwnerIntegrity, HeldOwner, Stored, Row
<1>2. TypeInv /\ OwnerInv /\ [Next]_vars => OwnerInv'
  BY NextOwner
<1>3. OwnerInv => OwnerIntegrity
  BY DEF OwnerInv
<1> QED
  BY Types, <1>1, <1>2, <1>3, PTL DEF Spec

-----------------------------------------------------------------------------
(* Nothing uncommitted shows.                                              *)

\* The requests whose hand is visible in a row.
Hands(row) == IF row = Absent THEN {}
              ELSE {row.title, row.completedAt} \intersect Requests

Settled == {r \in Requests : Committed(r)}

\* What a request read was written by requests that committed; what it is about
\* to write, by those and itself.
CleanMemory ==
    \A r \in Requests :
        /\ Hands(loaded[r]) \subseteq Settled
        /\ Hands(existing[r]) \subseteq Settled
        /\ Hands(entity[r]) \subseteq Settled \union {r}

\* An answered request takes no further step.
AnsweredLast == \A r \in Requests : answer[r] # "none" => pc[r] = "done"

CleanInv == RejectedLeaveNoTrace /\ CleanMemory /\ AnsweredLast

\* RejectedLeaveNoTrace, said with Hands.
LEMMA CleanStore ==
    RejectedLeaveNoTrace <=> \A t \in Tasks : Hands(tasks[t]) \subseteq Settled
BY DEF RejectedLeaveNoTrace, Hands, Settled, Stored

\* A transition adds to the hands of a row at most that of its request.
LEMMA TransformedHands ==
    ASSUME NEW row \in Row, NEW o \in Transitions, NEW r \in Requests
    PROVE  Hands(Transformed(row, o, r)) \subseteq Hands(row) \union {r}
<1>1. row # Absent /\ Transformed(row, o, r) # Absent
  BY TransformedRow, EntityAssumption
<1>2. CASE o = "start"
  BY <1>1, <1>2 DEF Transformed, Row, Hands
<1>3. CASE o = "complete"
  BY <1>1, <1>3 DEF Transformed, Row, Hands
<1>4. CASE o = "rename"
  BY <1>1, <1>4 DEF Transformed, Row, Hands
<1> QED
  BY <1>2, <1>3, <1>4 DEF Transitions

\* An UPDATE mixes the hands of the row it finds and of the aggregate.
LEMMA UpdatedHands ==
    ASSUME NEW row \in Row, NEW old \in Row, NEW task \in Row
    PROVE  Hands(Updated(row, old, task)) \subseteq Hands(row) \union Hands(task)
<1>1. row # Absent /\ task # Absent /\ Updated(row, old, task) # Absent
  BY UpdatedRow, EntityAssumption
<1> QED
  BY <1>1 DEF Updated, Row, Hands

\* A new row bears only the hand of its request.
LEMMA CreatedHands ==
    ASSUME NEW r \in Requests, NEW u \in Users
    PROVE  Hands(Created(r, u)) \subseteq {r}
<1>1. Null \notin Requests
  BY EntityAssumption DEF Authors
<1> QED
  BY <1>1 DEF Created, Hands

\* A request that has committed has committed for good.
LEMMA SettledGrows ==
    ASSUME TypeInv, AnsweredLast, [Next]_vars
    PROVE  Settled \subseteq Settled'
<1> SUFFICES ASSUME NEW r \in Requests, Committed(r)
             PROVE  Committed(r)'
  BY DEF Settled
<1> USE DEF TypeInv, TypeOK, AnsweredLast, Committed
<1>1. CASE \E q \in Requests, t \in Tasks :
            \/ \E o \in Transitions : LoadTask(q, o, t) \/ LoadTaskFails(q, o, t)
            \/ \E u \in Users : CheckOwner(q, u, t)
            \/ GetTask(q, t)
            \/ AskDelete(q, t)
  BY <1>1 DEF LoadTask, LoadTaskFails, CheckOwner, GetTask, AskDelete, Arrives,
              Becomes, Ends, Answers
<1>2. CASE \E q \in Requests : AnsweredAtOnce(q) \/ Reload(q) \/ Flush(q) \/ Commit(q)
  BY <1>2
  DEF AnsweredAtOnce, RefuseId, ListTasks, ListTasksByOwner, memory, Reload, Flush,
      Commit, Arrives, Becomes, Ends, Answers
<1>3. CASE \E q \in Requests : Respond(q) \/ Break(q)
  BY <1>3 DEF Respond, Break, Open, Ends, Answers
<1>4. CASE \E u \in Users : DropUser(u)
  BY <1>4 DEF DropUser
<1>5. CASE UNCHANGED vars
  BY <1>5 DEF vars
<1> QED
  BY <1>1, <1>2, <1>3, <1>4, <1>5, Steps

\* Every step answers a request only when it is done with it.
LEMMA NextAnsweredLast ==
    ASSUME TypeInv, AnsweredLast, [Next]_vars
    PROVE  AnsweredLast'
<1> USE DEF TypeInv, TypeOK, AnsweredLast
<1>1. CASE \E q \in Requests, t \in Tasks :
            \/ \E o \in Transitions : LoadTask(q, o, t) \/ LoadTaskFails(q, o, t)
            \/ \E u \in Users : CheckOwner(q, u, t)
            \/ GetTask(q, t)
            \/ AskDelete(q, t)
  BY <1>1 DEF LoadTask, LoadTaskFails, CheckOwner, GetTask, AskDelete, Arrives,
              Becomes, Ends
<1>2. CASE \E q \in Requests : AnsweredAtOnce(q) \/ Reload(q) \/ Flush(q) \/ Commit(q)
  BY <1>2
  DEF AnsweredAtOnce, RefuseId, ListTasks, ListTasksByOwner, memory, Reload, Flush,
      Commit, Arrives, Becomes, Ends
<1>3. CASE \E q \in Requests : Respond(q) \/ Break(q)
  BY <1>3 DEF Respond, Break, Open, Ends
<1>4. CASE \E u \in Users : DropUser(u)
  BY <1>4 DEF DropUser
<1>5. CASE UNCHANGED vars
  BY <1>5 DEF vars
<1> QED
  BY <1>1, <1>2, <1>3, <1>4, <1>5, Steps

\* Reads copy settled hands, and a commit settles the hand it stores.
LEMMA NextClean == TypeInv /\ CleanInv /\ [Next]_vars => CleanInv'
<1> SUFFICES ASSUME TypeInv, CleanInv, [Next]_vars
             PROVE  CleanInv'
  OBVIOUS
<1> USE DEF TypeInv
<1>1. Settled \subseteq Settled'
  BY SettledGrows DEF CleanInv
<1>2. AnsweredLast'
  BY NextAnsweredLast DEF CleanInv
<1>3. \A t \in Tasks : Hands(tasks[t]) \subseteq Settled
  BY CleanStore DEF CleanInv
<1>4. CleanMemory
  BY DEF CleanInv
<1> DEFINE StoreClean == \A t \in Tasks : Hands(tasks'[t]) \subseteq Settled'
<1>5. SUFFICES StoreClean /\ CleanMemory'
  <2>1. StoreClean => RejectedLeaveNoTrace'
    BY DEF RejectedLeaveNoTrace, Hands, Settled, Stored
  <2> QED
    BY <1>2, <2>1 DEF CleanInv
<1>6. Hands(Absent) = {}
  BY DEF Hands
<1>7. ASSUME NEW r \in Requests, NEW t \in Tasks, NEW o \in Transitions,
             LoadTask(r, o, t)
      PROVE  StoreClean /\ CleanMemory'
  <2>1. Hands(Transformed(tasks[t], o, r)) \subseteq Settled \union {r}
    BY <1>3, <1>7, TransformedHands DEF LoadTask, TypeOK
  <2>2. CleanMemory'
    BY <1>1, <1>3, <1>4, <1>7, <2>1
    DEF CleanMemory, LoadTask, Arrives, TypeOK
  <2> QED
    BY <1>1, <1>3, <1>7, <2>2 DEF LoadTask, store
<1>8. ASSUME NEW r \in Requests, NEW t \in Tasks, NEW u \in Users,
             CheckOwner(r, u, t)
      PROVE  StoreClean /\ CleanMemory'
  <2>1. Hands(Created(r, u)) \subseteq {r}
    BY CreatedHands
  <2>2. CleanMemory'
    BY <1>1, <1>4, <1>8, <2>1 DEF CleanMemory, CheckOwner, Arrives, TypeOK
  <2> QED
    BY <1>1, <1>3, <1>8, <2>2 DEF CheckOwner
<1>9. ASSUME NEW r \in Requests, Reload(r)
      PROVE  StoreClean /\ CleanMemory'
  <2>1. target[r] \in Tasks
    BY <1>9 DEF Reload, InProgress, Open
  <2>2. CleanMemory'
    BY <1>1, <1>3, <1>4, <1>9, <2>1 DEF CleanMemory, Reload, TypeOK
  <2> QED
    BY <1>1, <1>3, <1>9, <2>2 DEF Reload, store
<1>10. ASSUME NEW r \in Requests, Commit(r)
       PROVE  StoreClean /\ CleanMemory'
  <2>1. r \in Settled'
    BY <1>10 DEF Commit, Becomes, Settled, Committed, TypeOK
  <2>2. target[r] \in Tasks /\ (op[r] # "delete" => entity[r] \in Row)
    BY <1>10 DEF Commit, InProgress, Open
  <2>3. ASSUME Writes(r)
        PROVE  Hands(Written(r)) \subseteq Settled \union {r}
    <3>1. CASE op[r] = "delete"
      BY <1>6, <3>1 DEF Written, Inserts
    <3>2. CASE Inserts(r)
      BY <1>4, <3>2 DEF Written, Inserts, CleanMemory
    <3>3. CASE Updates(r)
      <4>1. tasks[target[r]] \in Row
        BY <1>10, <2>2, <3>3 DEF Commit, HeldRowStays, TypeOK
      <4>2. Written(r) = Updated(tasks[target[r]], existing[r], entity[r])
        BY <3>3 DEF Written, Updates, Inserts
      <4>3. existing[r] \in Row /\ entity[r] \in Row
        BY <2>2, <3>3 DEF Updates, TypeOK
      <4>4. Hands(Written(r)) \subseteq Hands(tasks[target[r]]) \union Hands(entity[r])
        BY <4>1, <4>2, <4>3, UpdatedHands
      <4> QED
        BY <1>3, <1>4, <2>2, <4>4 DEF CleanMemory
    <3> QED
      BY <2>3, <3>1, <3>2, <3>3 DEF Writes
  <2>4. StoreClean
    BY <1>1, <1>3, <1>10, <2>1, <2>2, <2>3 DEF Commit, TypeOK
  <2>5. CleanMemory'
    BY <1>1, <1>4, <1>10 DEF CleanMemory, Commit, memory
  <2> QED
    BY <2>4, <2>5
<1>11. ASSUME NEW u \in Users, DropUser(u)
       PROVE  StoreClean /\ CleanMemory'
  BY <1>1, <1>3, <1>4, <1>6, <1>11 DEF CleanMemory, DropUser, memory
<1>12. ASSUME UNCHANGED <<tasks, loaded, entity, existing>>
       PROVE  StoreClean /\ CleanMemory'
  BY <1>1, <1>3, <1>4, <1>12 DEF CleanMemory
<1>13. ASSUME NEW r \in Requests,
              \/ AnsweredAtOnce(r) \/ Flush(r) \/ Respond(r) \/ Break(r)
              \/ \E t \in Tasks, o \in Transitions : LoadTaskFails(r, o, t)
              \/ \E t \in Tasks : GetTask(r, t) \/ AskDelete(r, t)
       PROVE  UNCHANGED <<tasks, loaded, entity, existing>>
  BY <1>13
  DEF AnsweredAtOnce, RefuseId, ListTasks, ListTasksByOwner, memory, Flush, Respond,
      Break, LoadTaskFails, GetTask, AskDelete, Arrives, store
<1> QED
  <2>1. CASE UNCHANGED vars
    BY <1>12, <2>1 DEF vars
  <2>2. CASE Next
    BY <1>7, <1>8, <1>9, <1>10, <1>11, <1>12, <1>13, <2>2, Steps
  <2> QED
    BY <2>1, <2>2

\* Nothing that was refused, rolled back or is not committed ever shows.
THEOREM NoTrace == Spec => []RejectedLeaveNoTrace
<1>1. Init => CleanInv
  BY EntityAssumption
  DEF Init, CleanInv, CleanMemory, AnsweredLast, RejectedLeaveNoTrace, Hands, Stored,
      Authors
<1>2. TypeInv /\ CleanInv /\ [Next]_vars => CleanInv'
  BY NextClean
<1>3. CleanInv => RejectedLeaveNoTrace
  BY DEF CleanInv
<1> QED
  BY Types, <1>1, <1>2, <1>3, PTL DEF Spec

-----------------------------------------------------------------------------
(* An undisturbed commit.                                                  *)

\* When the row to update is the one the aggregate was compared with, updating
\* the columns that differ writes the aggregate.
LEMMA UpdateIsWhole ==
    ASSUME NEW row \in Row, NEW o \in Transitions, NEW r \in Requests
    PROVE  Updated(row, row, Transformed(row, o, r)) = Transformed(row, o, r)
<1>1. CASE o = "start"
  BY <1>1 DEF Updated, Transformed, Row
<1>2. CASE o = "complete"
  BY <1>2 DEF Updated, Transformed, Row
<1>3. CASE o = "rename"
  BY <1>3 DEF Updated, Transformed, Row
<1> QED
  BY <1>1, <1>2, <1>3 DEF Transitions

\* When nothing is dirty the aggregate is the row.
LEMMA CleanIsSame ==
    ASSUME NEW row \in Row, NEW o \in Transitions, NEW r \in Requests,
           ~Dirty(row, Transformed(row, o, r))
    PROVE  Transformed(row, o, r) = row
<1>1. CASE o = "start"
  BY <1>1 DEF Dirty, Transformed, Row
<1>2. CASE o = "complete"
  BY <1>2 DEF Dirty, Transformed, Row
<1>3. CASE o = "rename"
  BY <1>3 DEF Dirty, Transformed, Row
<1> QED
  BY <1>1, <1>2, <1>3 DEF Transitions

\* A change that finds at commit the row it read performs the step that the
\* specification of atomic use cases allows.
LEMMA UndisturbedChange ==
    ASSUME TypeInv, NEW r \in Requests, Commit(r), op[r] \in Transitions,
           loaded[r] = existing[r], existing[r] = tasks[target[r]]
    PROVE  Promise!Change(r, target[r], op[r])
<1> USE DEF TypeInv
<1> DEFINE row == tasks[target[r]]
<1>1. /\ target[r] \in Tasks /\ row \in Row
      /\ Reconstitutes(row) /\ ~Refuses(row, op[r])
      /\ entity[r] = Transformed(row, op[r], r)
  BY DEF InProgress, Open, Commit
<1>2. row # Absent /\ op[r] # "delete" /\ op[r] # "create"
  BY <1>1, EntityAssumption DEF Transitions
<1>3. tasks' = [tasks EXCEPT ![target[r]] = Transformed(row, op[r], r)]
  <2>1. CASE Updates(r)
    <3>1. Written(r) = Updated(row, row, entity[r])
      BY <1>2, <2>1 DEF Written, Updates, Inserts
    <3> QED
      BY <1>1, <2>1, <3>1, UpdateIsWhole DEF Commit, Writes
  <2>2. CASE ~Updates(r)
    <3>1. ~Dirty(row, entity[r]) /\ ~Writes(r)
      BY <1>2, <2>2 DEF Updates, Writes, Inserts
    <3>2. Transformed(row, op[r], r) = row
      BY <1>1, <3>1, CleanIsSame
    <3> QED
      BY <1>1, <3>1, <3>2 DEF Commit, TypeOK
  <2> QED
    BY <2>1, <2>2
<1>4. Spent' = Spent
  <2>1. \A q \in Requests :
          op'[q] = "create" /\ Open(q)' <=> op[q] = "create" /\ Open(q)
    BY <1>2 DEF Commit, Becomes, Open, memory, TypeOK
  <2> QED
    BY <2>1 DEF Spent, Commit, memory
<1> QED
  BY <1>1, <1>2, <1>3, <1>4
  DEF Promise!Change, Promise!Reconstitutes, Reconstitutes, Promise!Refuses, Refuses,
      Promise!Transformed, Transformed, Commit

\* A request that finds at commit the row it had read changes the task as the
\* aggregate did, whatever the other requests do meanwhile.
THEOREM UndisturbedCommits == Spec => UndisturbedCommitKeepsPromise
<1> DEFINE Undisturbed ==
        \A r \in Requests :
            /\ pc[r] = "flushed" /\ pc'[r] = "committed" /\ op[r] \in Transitions
            /\ loaded[r] = existing[r] /\ existing[r] = tasks[target[r]]
            => Promise!Change(r, target[r], op[r])
<1>1. TypeInv /\ [Next]_vars => [Undisturbed]_vars
  <2> SUFFICES ASSUME TypeInv, Next, NEW r \in Requests,
                      pc[r] = "flushed", pc'[r] = "committed", op[r] \in Transitions,
                      loaded[r] = existing[r], existing[r] = tasks[target[r]]
               PROVE  Promise!Change(r, target[r], op[r])
    OBVIOUS
  <2>1. Commit(r)
    BY Steps
    DEF LoadTask, LoadTaskFails, CheckOwner, GetTask, AskDelete, AnsweredAtOnce,
        RefuseId, ListTasks, ListTasksByOwner, memory, Reload, Flush, Commit,
        Respond, Break, DropUser, Arrives, Becomes, Ends, TypeInv, TypeOK
  <2> QED
    BY <2>1, UndisturbedChange
<1> QED
  BY Types, <1>1, PTL DEF Spec, UndisturbedCommitKeepsPromise
=============================================================================
